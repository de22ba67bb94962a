---------------------------- MODULE LiquidityMath ----------------------------
(***************************************************************************)
(* The token amounts of a concentrated-liquidity position (lib/math,       *)
(* concentrated-liq.go), as operators over exact integers and rationals.   *)
(* A big.Rat is a record [num, den] with den > 0; a nil *big.Int is Nil.   *)
(* The fixed-point scale 2^96 is the constant Q96, a small power of two in *)
(* the model, as TLC's integers cannot hold 2^96: the formulas only ever   *)
(* multiply and divide by it, so the case split, the ordering of the       *)
(* boundaries and the truncation points are those of the code.             *)
(*                                                                         *)
(* The module's own specification enumerates inputs so that TLC checks the *)
(* operators against the reference integer formulas of the on-chain        *)
(* contract over every bounded input.                                      *)
(***************************************************************************)
EXTENDS Integers

CONSTANTS
  Q96,      \* the fixed-point one of a Q64.96 square-root price
  Nil,      \* a nil *big.Int operand
  Ratios,   \* the square-root prices the model feeds in
  Liqs,     \* the liquidity amounts the model feeds in
  FracBits, \* fractional bits of GetSqrtRatioAtTick's accumulator (128)
  OutShift, \* the final shift to a Q64.96 value (32)
  Ratio0,   \* 2^FracBits / price step: the ratio for bit 1 of |tick|
  OddFactor,\* 2^FracBits / sqrt(price step): the start for an odd tick
  MaxTick   \* the model's ticks lie in -MaxTick..MaxTick

ASSUME
  /\ Q96 \in Nat \ {0}
  /\ Ratios \subseteq Nat \ {0}
  /\ Liqs \subseteq Nat
  /\ OutShift \in 1..(FracBits - 1)
  /\ {Ratio0, OddFactor} \subseteq 1..(2^FracBits - 1)
  /\ MaxTick \in Nat

Rat(n, d) == [num |-> n, den |-> d]
RatZero == Rat(0, 1)

\* The two boundaries of a range, lower first.
Lower(a, b) == IF a > b THEN b ELSE a
Upper(a, b) == IF a > b THEN a ELSE b

\* GetAmount0ForLiq: (liq << 96) * (s1 - s0) / s1 in integers, then / s0
\* as a rational.
GetAmount0ForLiq(a, b, liq) ==
  IF a = Nil \/ b = Nil \/ liq = Nil THEN RatZero
  ELSE Rat(((liq * Q96) * (Upper(a, b) - Lower(a, b))) \div Upper(a, b), Lower(a, b))

\* GetAmount1ForLiq: liq * (s1 - s0) / 2^96 as a rational.
GetAmount1ForLiq(a, b, liq) ==
  IF a = Nil \/ b = Nil \/ liq = Nil THEN RatZero
  ELSE Rat(liq * (Upper(a, b) - Lower(a, b)), Q96)

\* Mutant: the boundaries are used in the order they were given.
GetAmountsForLiqUnsorted(p, a, b, liq) ==
  IF p = Nil \/ a = Nil \/ b = Nil \/ liq = Nil THEN <<RatZero, RatZero>>
  ELSE CASE p <= a -> <<GetAmount0ForLiq(a, b, liq), RatZero>>
         [] p < b  -> <<GetAmount0ForLiq(p, b, liq), GetAmount1ForLiq(a, p, liq)>>
         [] OTHER  -> <<RatZero, GetAmount1ForLiq(a, b, liq)>>

\* GetAmountsForLiq: all token0 at or below the range, all token1 at or
\* above it, both inside it with the current price as the near boundary.
GetAmountsForLiq(p, a, b, liq) ==
  IF p = Nil \/ a = Nil \/ b = Nil \/ liq = Nil THEN <<RatZero, RatZero>>
  ELSE LET s0 == Lower(a, b)
           s1 == Upper(a, b)
       IN CASE p <= s0 -> <<GetAmount0ForLiq(s0, s1, liq), RatZero>>
            [] p < s1  -> <<GetAmount0ForLiq(p, s1, liq), GetAmount1ForLiq(s0, p, liq)>>
            [] OTHER   -> <<RatZero, GetAmount1ForLiq(s0, s1, liq)>>

\* big.Int.Quo of a rational's numerator by its denominator: truncation
\* toward zero, which is floor division for the non-negative amounts here.
Trunc(r) == r.num \div r.den

\* GetSqrtRatioAtTick's loop over the remaining bits of |tick|: multiply the
\* accumulator by the running ratio when the bit is set, then square the
\* ratio; both products drop FracBits fractional bits.
RECURSIVE SqrtLoop(_, _, _)
SqrtLoop(res, ratio, absTick) ==
  IF absTick = 0 THEN res
  ELSE SqrtLoop(IF absTick % 2 = 1 THEN (res * ratio) \div 2^FracBits ELSE res,
                (ratio * ratio) \div 2^FracBits,
                absTick \div 2)

\* Mutant: positive ticks are not inverted.
GetSqrtRatioAtTickNoInvert(t) ==
  LET absTick == IF t < 0 THEN -t ELSE t
      res == SqrtLoop(IF absTick % 2 = 1 THEN OddFactor ELSE 2^FracBits, Ratio0, absTick \div 2)
      shifted == res \div 2^OutShift
  IN IF shifted % 2^OutShift # 0 THEN shifted + 1 ELSE shifted

\* GetSqrtRatioAtTick: the loop from the odd-tick factor or one, the
\* inversion (2^256 - 1) / res for a positive tick, then the shift by 32
\* bits, rounded up when the SHIFTED value is not a multiple of 2^32 (the
\* code tests the remainder after Rsh, not before it).
GetSqrtRatioAtTick(t) ==
  LET absTick == IF t < 0 THEN -t ELSE t
      res == SqrtLoop(IF absTick % 2 = 1 THEN OddFactor ELSE 2^FracBits, Ratio0, absTick \div 2)
      inv == IF t > 0 THEN (2^(2 * FracBits) - 1) \div res ELSE res
      shifted == inv \div 2^OutShift
  IN IF shifted % 2^OutShift # 0 THEN shifted + 1 ELSE shifted

-----------------------------------------------------------------------------
(* Reference: the contract library's getAmountsForLiquidity in integer      *)
(* arithmetic (mulDiv rounding down).                                      *)

RefAmount0(s0, s1, liq) == (((liq * Q96) * (s1 - s0)) \div s1) \div s0
RefAmount1(s0, s1, liq) == (liq * (s1 - s0)) \div Q96

RefAmounts(p, a, b, liq) ==
  LET s0 == IF a < b THEN a ELSE b
      s1 == IF a < b THEN b ELSE a
  IN IF p <= s0 THEN <<RefAmount0(s0, s1, liq), 0>>
     ELSE IF p < s1 THEN <<RefAmount0(p, s1, liq), RefAmount1(s0, p, liq)>>
     ELSE <<0, RefAmount1(s0, s1, liq)>>

-----------------------------------------------------------------------------
VARIABLE input

Inputs == [p : Ratios \cup {Nil}, a : Ratios \cup {Nil}, b : Ratios \cup {Nil},
           liq : Liqs \cup {Nil}]

Ticks == -MaxTick..MaxTick

Init == input \in Inputs \cup [tick : Ticks]
Next == UNCHANGED input
Spec == Init /\ [][Next]_input

\* The snapshot's integer amounts (GetAmountsForLiq, then the truncation of
\* mulRatToInt) are bit-for-bit the contract library's, for boundaries given
\* in either order, and (0, 0) when any operand is nil.
AmountsMatchReference ==
  "liq" \in DOMAIN input =>
  LET i == input
      r == GetAmountsForLiq(i.p, i.a, i.b, i.liq)
  IN <<Trunc(r[1]), Trunc(r[2])>> =
       IF Nil \in {i.p, i.a, i.b, i.liq} THEN <<0, 0>>
       ELSE RefAmounts(i.p, i.a, i.b, i.liq)

\* The square-root price is strictly increasing in the tick, as the
\* snapshot's amounts need (GetAmountsForLiq orders the boundaries by their
\* prices, and the current price is placed between them by its own): the
\* odd-tick start, the squarings, the inversion of positive ticks and the
\* rounding of GetSqrtRatioAtTick keep every step of one tick apart.
SqrtRatioMonotonic ==
  "tick" \in DOMAIN input /\ input.tick + 1 \in Ticks =>
    GetSqrtRatioAtTick(input.tick) < GetSqrtRatioAtTick(input.tick + 1)
=============================================================================
