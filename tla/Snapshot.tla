------------------------------ MODULE Snapshot ------------------------------
(***************************************************************************)
(* The position snapshot (cmd/snapshot.ethereum, main): load the active    *)
(* positions and the pools' final ticks, fetch every position's liquidity  *)
(* through reqPositions, compute each position's token amounts with        *)
(* GetAmountsForLiq, skip the all-zero ones, and store the rest with one   *)
(* storePositions call.  Any error ends the run with setup.Exitf.          *)
(*                                                                         *)
(* reqPositions is used through its abstract specification BatchFetch     *)
(* (ReqPositions refines it): it either fails or returns each key once, in *)
(* some order, with a liquidity.  Square-root prices come from           *)
(* LiquidityMath's GetSqrtRatioAtTick at the model's scaled widths.        *)
(***************************************************************************)
EXTENDS Integers, Sequences, SequencesExt

CONSTANTS
  Positions,   \* the rows of seawater_active_positions_1, as model values
  Pools,       \* pool addresses
  PoolOf,      \* a position's pool
  LowerOf,     \* a position's lower tick
  UpperOf,     \* a position's upper tick
  FinalTick,   \* seawater_final_ticks_decimals_1: the final_tick column (an
               \* int64 or NULL) of the pools that have a row
  Liqs,        \* the liquidities the node may report
  Q96, Nil,    \* LiquidityMath's scale and nil operand
  Null,        \* SQL NULL
  FracBits, OutShift, Ratio0, OddFactor   \* GetSqrtRatioAtTick's widths and constants

LM == INSTANCE LiquidityMath WITH Ratios <- {}, MaxTick <- 0, input <- <<>>

SqrtAtTick(t) == LM!GetSqrtRatioAtTick(t)

NM == INSTANCE Numbers WITH WordDigits <- 1, MaxInt <- 0, numInput <- <<>>

\* The Number gorm scans a final_tick column into.
ScannedTick(v) == NM!Scan(Nil, v).n

Keys == Positions   \* encodeId(pool, id) is injective on the loaded rows

\* The value an unset slot of pools/ids/amount0s/amount1s holds.
EmptyRow == [pool |-> "", id |-> 0, a0 |-> 0, a1 |-> 0]

VARIABLES
  pc,      \* "load", "fetch", "reconcile", "done" or "exit"
  liq,     \* the liquidity the node reports per position (fixed by the fetch)
  resps,   \* the responses of reqPositions, in the order it returned them
  k,       \* the loop's index into resps
  rows,    \* pools, ids, amount0s, amount1s as one sequence of records
  i,       \* the number of rows filled
  called,  \* whether storePositions was called
  stored   \* the rows storePositions was given

vars == <<pc, liq, resps, k, rows, i, called, stored>>

-----------------------------------------------------------------------------
\* poolMap[pool].curPrice: nil for a pool without a final-tick row, else
\* GetSqrtRatioAtTick(p.FinalTick.Big()), where a NULL tick is 0.
CurPrice(pool) ==
  IF pool \in DOMAIN FinalTick THEN SqrtAtTick(NM!NumberBig(ScannedTick(FinalTick[pool])))
  ELSE Nil

\* The loop body's amounts for a position with liquidity l, truncated by
\* mulRatToInt (which ignores its decimals argument).
Amounts(p, l) ==
  LET r == LM!GetAmountsForLiq(CurPrice(PoolOf[p]), SqrtAtTick(NM!NumberBig(LowerOf[p])),
                               SqrtAtTick(NM!NumberBig(UpperOf[p])), l)
  IN <<LM!Trunc(r[1]), LM!Trunc(r[2])>>

Row(p, l) == [pool |-> PoolOf[p], id |-> p, a0 |-> Amounts(p, l)[1], a1 |-> Amounts(p, l)[2]]

\* Mutant: every response fills a row, zero amounts included.
KeepRowAll(a) == TRUE

\* The skip of a position whose amounts are both zero.
KeepRow(a) == ~(a[1] = 0 /\ a[2] = 0)

\* storePositions: the four columns become the four ARRAY[...] arguments of
\* snapshot_create_positions_1, which pairs them up by position.
StorePositions(pools, ids, amount0s, amount1s) ==
  [n \in DOMAIN ids |-> [pool |-> pools[n], id |-> ids[n], a0 |-> amount0s[n],
                         a1 |-> amount1s[n]]]

\* The column f of the first n rows: pools[:i], ids[:i] and so on.
Column(f, n) == [m \in 1..n |-> rows[m][f]]

-----------------------------------------------------------------------------
Init ==
  /\ pc = "load"
  /\ liq = [p \in Positions |-> 0]
  /\ resps = <<>>
  /\ k = 1
  /\ rows = [n \in 1..Cardinality(Positions) |-> EmptyRow]
  /\ i = 0
  /\ called = FALSE
  /\ stored = <<>>

\* The positions and pool scans (and GetSqrtRatioAtTick of each final
\* tick, poolMap and positionMap); either scan may fail.
Load ==
  /\ pc = "load"
  /\ pc' \in {"fetch", "exit"}
  /\ UNCHANGED <<liq, resps, k, rows, i, called, stored>>

\* packRpcPosData and reqPositions: an error ends the run; a result holds
\* each key once, in any order, with the liquidity the node reports.
Fetch ==
  /\ pc = "fetch"
  /\ \/ /\ pc' = "exit"
        /\ UNCHANGED <<liq, resps>>
     \/ /\ pc' = "reconcile"
        /\ liq' \in [Positions -> Liqs]
        /\ resps' \in { s \in [1..Cardinality(Keys) -> Keys] : ToSet(s) = Keys }
  /\ UNCHANGED <<k, rows, i, called, stored>>

\* Mutant: the row is appended to the preallocated slices.
ReconcileAppend ==
  /\ pc = "reconcile"
  /\ k <= Len(resps)
  /\ LET p == resps[k]
         a == Amounts(p, liq[p])
     IN IF KeepRow(a)
          THEN /\ rows' = Append(rows, Row(p, liq[p]))
               /\ i' = i + 1
          ELSE UNCHANGED <<rows, i>>
  /\ k' = k + 1
  /\ UNCHANGED <<pc, liq, resps, called, stored>>

\* One iteration of the loop over resps: compute the amounts and fill the
\* next row unless both are zero.
Reconcile ==
  /\ pc = "reconcile"
  /\ k <= Len(resps)
  /\ LET p == resps[k]
         a == Amounts(p, liq[p])
     IN IF KeepRow(a)
          THEN /\ rows' = [rows EXCEPT ![i + 1] = Row(p, liq[p])]
               /\ i' = i + 1
          ELSE UNCHANGED <<rows, i>>
  /\ k' = k + 1
  /\ UNCHANGED <<pc, liq, resps, called, stored>>

\* After the loop: the len(ids) == 0 check, then storePositions with
\* pools[:i], ids[:i], amount0s[:i], amount1s[:i]; its error ends the run.
Store ==
  /\ pc = "reconcile"
  /\ k > Len(resps)
  /\ IF Len(rows) = 0
       THEN /\ pc' = "done"
            /\ UNCHANGED <<called, stored>>
       ELSE /\ called' = TRUE
            /\ stored' = StorePositions(Column("pool", i), Column("id", i),
                                        Column("a0", i), Column("a1", i))
            /\ pc' \in {"done", "exit"}
  /\ UNCHANGED <<liq, resps, k, rows, i>>

Next == Load \/ Fetch \/ Reconcile \/ Store

Spec == Init /\ [][Next]_vars

-----------------------------------------------------------------------------
TypeOK ==
  /\ pc \in {"load", "fetch", "reconcile", "done", "exit"}
  /\ liq \in [Positions -> Liqs \cup {0}]
  /\ k \in 1..Cardinality(Positions) + 1
  /\ i \in 0..Cardinality(Positions)
  /\ Len(rows) = Cardinality(Positions)

\* The positions the snapshot must hold: those with a non-zero amount.
Wanted == { p \in Positions : Amounts(p, liq[p]) # <<0, 0>> }

\* A snapshot that was stored holds exactly one row per position with a
\* non-zero amount, with that position's pool and amounts, and no other
\* row (the zero skip, the row counter i and the [:i] slices together).
StoredExact ==
  called =>
    /\ Len(stored) = Cardinality(Wanted)
    /\ ToSet(stored) = { Row(p, liq[p]) : p \in Wanted }

\* storePositions is never called with empty collections: the run with
\* nothing to store ends at the "no positions found" check instead.
NoEmptyStore ==
  called => Len(stored) > 0
=============================================================================
