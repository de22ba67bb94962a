---------------------------- MODULE EventDecoders ----------------------------
(***************************************************************************)
(* The event decoders of lib/events (erc20, thirdweb, leo, seawater): each *)
(* Unpack* function turns a log's topics 1..3 and its data into an event   *)
(* record, or fails.                                                       *)
(*                                                                         *)
(* A topic is the unsigned integer value of its 32 bytes.  The bit widths  *)
(* 256, 160, 64 and 32 are the constants W256, W160, W64 and W32, small in *)
(* the model (TLC's integers are 32 bits): every shift, mask and signed or *)
(* unsigned reinterpretation of the code is taken at these widths, and the *)
(* packed Leo words keep their field order.                                *)
(*                                                                         *)
(* The data is what abi.Unpack (go-ethereum, outside this repository)      *)
(* returns: either Malformed, its error, or the tuple of the event's       *)
(* non-indexed values with the Go types the embedded ABI gives them.  The  *)
(* type assertions that follow are taken to succeed: the ABI the code      *)
(* embeds is the one it was written against.  An address is its integer   *)
(* value; the Leo identifier (hashToBytes8Data) is left out.               *)
(***************************************************************************)
EXTENDS Integers, Topics

CONSTANTS
  W256, W160, W64, W32,  \* the bit widths of a word, an address, a (u)int64 and an int32
  Malformed,             \* abi.Unpack's error on data that does not fit the event
  DecodeError            \* the error an Unpack* function returns

ASSUME
  /\ {W256, W160, W64, W32} \subseteq Nat \ {0}
  /\ W32 < W64 /\ W64 < W256 /\ W160 < W256
  /\ 2 * W32 + W160 <= W256 /\ 2 * W32 + 2 * W64 <= W256

-----------------------------------------------------------------------------
(* Go's integer conversions.                                               *)

\* The low w bits of x, read as a two's complement signed integer.
Signed(x, w) == LET u == x % 2^w IN IF u >= 2^(w - 1) THEN u - 2^w ELSE u

\* big.Int.Int64 and Uint64 of a non-negative value: its low 64 bits.
Int64Of(x) == Signed(x, W64)
Uint64Of(x) == x % 2^W64

\* Go's int32(v) and uint32(v) of an int64: its low 32 bits.
Int32Of(v) == Signed(v, W32)
Uint32Of(v) == v % 2^W32

\* new(big.Int).Rsh(i, n) of a non-negative i.
Rsh(i, n) == i \div 2^n

-----------------------------------------------------------------------------
(* The topic conversions of leo.go and seawater.go.                        *)

\* hashToAddr: BytesToAddress keeps the last 20 bytes of the hash.
hashToAddr(h) == h % 2^W160

\* hashToNumber and hashToUnscaledNumber: the hash as a big integer.
hashToNumber(h) == h

\* hashToInt: the hash as an int, or an error when it exceeds an int64.
hashToInt(h) == IF h < 2^(W64 - 1) THEN h ELSE DecodeError

\* unpackDetails: tick lower, tick upper and owner of a packed word.
unpackDetails(i) ==
  [tickLower |-> Int32Of(Int64Of(Rsh(i, W32 + W160))),
   tickUpper |-> Int32Of(Int64Of(Rsh(i, W160))),
   owner     |-> i % 2^W160]

\* unpackTimes: the starting and ending times of a packed word.
unpackTimes(i) == [starting |-> Uint64Of(Rsh(i, W64)), ending |-> Uint64Of(i)]

\* Mutant: tick lower is read one 64-bit field too low.
unpackExtrasShortShift(i) ==
  [tickLower |-> Int32Of(Int64Of(Rsh(i, W32 + W64))),
   tickUpper |-> Int32Of(Int64Of(Rsh(i, W64 + W64))),
   starting  |-> Uint64Of(Rsh(i, W64)),
   ending    |-> Uint64Of(i)]

\* unpackExtras: tick lower, tick upper, starting and ending of a packed word.
unpackExtras(i) ==
  [tickLower |-> Int32Of(Int64Of(Rsh(i, W32 + W64 + W64))),
   tickUpper |-> Int32Of(Int64Of(Rsh(i, W64 + W64))),
   starting  |-> Uint64Of(Rsh(i, W64)),
   ending    |-> Uint64Of(i)]

\* time.Unix(int64(t), 0) of a uint64 time, as seconds.
UnixTime(t) == Int64Of(t)

-----------------------------------------------------------------------------
(* The decoders.  d is Malformed or the tuple abi.Unpack returns; the      *)
(* result is an event record or DecodeError.                               *)

\* erc20 UnpackTransfer: empty data is a zero amount and is not unpacked.
UnpackTransfer(t1, t2, d) ==
  IF d = Malformed THEN DecodeError
  ELSE [sender |-> hashToAddr(t1), recipient |-> hashToAddr(t2),
        value |-> IF d = <<>> THEN 0 ELSE d[1]]

\* thirdweb UnpackAccountCreated: two addresses, never fails.
UnpackAccountCreated(t1, t2, d) ==
  [account |-> hashToAddr(t1), accountAdmin |-> hashToAddr(t2)]

\* leo UnpackCampaignBalanceUpdated: never fails.
UnpackCampaignBalanceUpdated(t1, t2, t3, d) == [newMaximum |-> hashToNumber(t2)]

\* leo UnpackCampaignCreated: details and times are packed words of the data.
UnpackCampaignCreated(t1, t2, t3, d) ==
  IF d = Malformed THEN DecodeError
  ELSE LET det == unpackDetails(d[1])
           tim == unpackTimes(d[2])
       IN [pool |-> hashToAddr(t2), token |-> hashToAddr(t3),
           tickLower |-> det.tickLower, tickUpper |-> det.tickUpper,
           owner |-> det.owner, starting |-> UnixTime(tim.starting),
           ending |-> UnixTime(tim.ending)]

\* leo UnpackCampaignUpdated: the data is unpacked with the CampaignCreated
\* ABI and its first value is the packed extras word.
UnpackCampaignUpdated(t1, t2, t3, d) ==
  IF d = Malformed THEN DecodeError
  ELSE LET ext == unpackExtras(d[1])
       IN [pool |-> hashToAddr(t2), perSecond |-> hashToNumber(t3),
           tickLower |-> ext.tickLower, tickUpper |-> ext.tickUpper,
           starting |-> UnixTime(ext.starting), ending |-> UnixTime(ext.ending)]

\* seawater UnpackMintPosition: the data first, then the position id.
UnpackMintPosition(t1, t2, t3, d) ==
  IF d = Malformed \/ hashToInt(t1) = DecodeError THEN DecodeError
  ELSE [posId |-> hashToInt(t1), owner |-> hashToAddr(t2), pool |-> hashToAddr(t3),
        lower |-> d[1], upper |-> d[2]]

\* seawater UnpackBurnPosition: the data is not read.
UnpackBurnPosition(t1, t2, d) ==
  IF hashToInt(t1) = DecodeError THEN DecodeError
  ELSE [posId |-> hashToInt(t1), owner |-> hashToAddr(t2)]

\* seawater UnpackTransferPosition: the id is the third topic.
UnpackTransferPosition(t1, t2, t3, d) ==
  IF hashToInt(t3) = DecodeError THEN DecodeError
  ELSE [posId |-> hashToInt(t3), from |-> hashToAddr(t1), to |-> hashToAddr(t2)]

\* seawater UnpackUpdatePositionLiquidity: the id first, then the data.
UnpackUpdatePositionLiquidity(t1, t2, d) ==
  IF hashToInt(t1) = DecodeError \/ d = Malformed THEN DecodeError
  ELSE [posId |-> hashToInt(t1), token0 |-> d[1], token1 |-> d[2]]

\* seawater UnpackCollectFees: the data first, then the id.
UnpackCollectFees(t1, t2, t3, d) ==
  IF d = Malformed \/ hashToInt(t1) = DecodeError THEN DecodeError
  ELSE [posId |-> hashToInt(t1), pool |-> hashToAddr(t2), to |-> hashToAddr(t3),
        amount0 |-> d[1], amount1 |-> d[2]]

\* seawater UnpackNewPool: the fee is uint32(topic2.Big().Int64()).
UnpackNewPool(t1, t2, t3, d) ==
  IF d = Malformed THEN DecodeError
  ELSE [token |-> hashToAddr(t1), fee |-> Uint32Of(Int64Of(t2)),
        decimals |-> d[1], tickSpacing |-> d[2]]

\* seawater UnpackCollectProtocolFees.
UnpackCollectProtocolFees(t1, t2, d) ==
  IF d = Malformed THEN DecodeError
  ELSE [pool |-> hashToAddr(t1), to |-> hashToAddr(t2), amount0 |-> d[1], amount1 |-> d[2]]

\* seawater UnpackSwap2: three addresses and five data values.
UnpackSwap2(t1, t2, t3, d) ==
  IF d = Malformed THEN DecodeError
  ELSE [user |-> hashToAddr(t1), from |-> hashToAddr(t2), to |-> hashToAddr(t3),
        amountIn |-> d[1], amountOut |-> d[2], fluidVolume |-> d[3],
        finalTick0 |-> d[4], finalTick1 |-> d[5]]

\* seawater UnpackSwap1.
UnpackSwap1(t1, t2, d) ==
  IF d = Malformed THEN DecodeError
  ELSE [user |-> hashToAddr(t1), pool |-> hashToAddr(t2), zeroForOne |-> d[1],
        amount0 |-> d[2], amount1 |-> d[3], finalTick |-> d[4]]

\* The decoder handleLogCallback's switch calls for a topic0.
Unpack(topic, t, d) ==
  CASE topic = "Transfer"                -> UnpackTransfer(t[1], t[2], d)
    [] topic = "AccountCreated"          -> UnpackAccountCreated(t[1], t[2], d)
    [] topic = "CampaignBalanceUpdated"  -> UnpackCampaignBalanceUpdated(t[1], t[2], t[3], d)
    [] topic = "CampaignCreated"         -> UnpackCampaignCreated(t[1], t[2], t[3], d)
    [] topic = "CampaignUpdated"         -> UnpackCampaignUpdated(t[1], t[2], t[3], d)
    [] topic = "MintPosition"            -> UnpackMintPosition(t[1], t[2], t[3], d)
    [] topic = "BurnPosition"            -> UnpackBurnPosition(t[1], t[2], d)
    [] topic = "TransferPosition"        -> UnpackTransferPosition(t[1], t[2], t[3], d)
    [] topic = "UpdatePositionLiquidity" -> UnpackUpdatePositionLiquidity(t[1], t[2], d)
    [] topic = "CollectFees"             -> UnpackCollectFees(t[1], t[2], t[3], d)
    [] topic = "NewPool"                 -> UnpackNewPool(t[1], t[2], t[3], d)
    [] topic = "CollectProtocolFees"     -> UnpackCollectProtocolFees(t[1], t[2], d)
    [] topic = "Swap2"                   -> UnpackSwap2(t[1], t[2], t[3], d)
    [] topic = "Swap1"                   -> UnpackSwap1(t[1], t[2], d)

-----------------------------------------------------------------------------
(* Reference: how the contracts encode an event.  An indexed address or    *)
(* unsigned value is its own topic value; the packed Leo words put each    *)
(* field, as a two's complement field of its width, at the cumulative      *)
(* width of the fields below it (spec, "Packed multi-field topics").  The  *)
(* bits above the top field are either zero or copies of its sign.         *)

\* A signed value as a field of w bits.
Field(v, w) == v % 2^w

\* The bits from `used` to the top of the word, set when v is negative.
SignFill(v, used, ext) == IF ext /\ v < 0 THEN 2^W256 - 2^used ELSE 0

PackDetails(f, ext) ==
  SignFill(f.tickLower, 2 * W32 + W160, ext) + Field(f.tickLower, W32) * 2^(W32 + W160)
    + Field(f.tickUpper, W32) * 2^W160 + f.owner

PackTimes(f) == f.starting * 2^W64 + f.ending

PackExtras(f, ext) ==
  SignFill(f.tickLower, 2 * W32 + 2 * W64, ext) + Field(f.tickLower, W32) * 2^(W32 + 2 * W64)
    + Field(f.tickUpper, W32) * 2^(2 * W64) + f.starting * 2^W64 + f.ending

\* The values the model encodes: the extremes of each width.
Addrs    == {0, 2^W160 - 1}
Amounts  == {0, 2^W256 - 1}                    \* uint256 data values
Deltas   == {-1, 1}                            \* int256 data values
Ticks    == -(2^(W32 - 1))..(2^(W32 - 1) - 1)  \* every int32
EdgeTicks == {-(2^(W32 - 1)), 2^(W32 - 1) - 1}
PosIds   == {0, 2^(W64 - 1) - 1, 2^(W64 - 1), 2^W256 - 1}
Times    == {0, 2^(W64 - 1) - 1}               \* unix times, below 2^63
Fees     == 0..(2^W32 - 1)                     \* every uint32
Bytes    == {0, 255}                           \* uint8 data values

\* A log of the contract: topic0, topics 1..3, its data, the event it
\* encodes, whether the decoder must read the data and the position id.
Log(topic, t, d, f, reads, id) ==
  [topic |-> topic, t |-> t, d |-> d, fields |-> f, reads |-> reads, posId |-> id]

\* The data of an event: its ABI encoding, or bytes that do not unpack.
Data(v) == {v, Malformed}

\* The logs of one event kind: for each event f of F, its topics T(f), each
\* data D(f) and its position id Id(f).
LogsOf(topic, F, T(_), D(_), reads, Id(_)) ==
  UNION { { Log(topic, T(f), d, f, reads, Id(f)) : d \in D(f) } : f \in F }

NoId(f) == 0
PosId(f) == f.posId

TransferLogs ==
  { l \in LogsOf("Transfer", [sender : Addrs, recipient : Addrs, value : Amounts],
                 LAMBDA f : <<f.sender, f.recipient, 0>>,
                 LAMBDA f : Data(<<f.value>>) \cup {<<>>}, TRUE, NoId) :
      l.d = <<>> => l.fields.value = 0 }

ThirdwebLogs ==
  LogsOf("AccountCreated", [account : Addrs, accountAdmin : Addrs],
         LAMBDA f : <<f.account, f.accountAdmin, 0>>, LAMBDA f : Data(<<>>), FALSE, NoId)

LeoLogs ==
  LogsOf("CampaignBalanceUpdated", [newMaximum : Amounts],
         LAMBDA f : <<0, f.newMaximum, 0>>, LAMBDA f : Data(<<>>), FALSE, NoId)
  \cup
  LogsOf("CampaignCreated",
         [pool : Addrs, token : Addrs, tickLower : Ticks, tickUpper : Ticks,
          owner : Addrs, starting : Times, ending : Times],
         LAMBDA f : <<0, f.pool, f.token>>,
         LAMBDA f : UNION { Data(<<PackDetails(f, e), PackTimes(f)>>) : e \in BOOLEAN },
         TRUE, NoId)
  \cup
  LogsOf("CampaignUpdated",
         [pool : Addrs, perSecond : Amounts, tickLower : Ticks, tickUpper : Ticks,
          starting : Times, ending : Times],
         LAMBDA f : <<0, f.pool, f.perSecond>>,
         LAMBDA f : UNION { Data(<<PackExtras(f, e)>>) : e \in BOOLEAN }, TRUE, NoId)

SeawaterLogs ==
  LogsOf("MintPosition",
         [posId : PosIds, owner : Addrs, pool : Addrs, lower : EdgeTicks, upper : EdgeTicks],
         LAMBDA f : <<f.posId, f.owner, f.pool>>, LAMBDA f : Data(<<f.lower, f.upper>>),
         TRUE, PosId)
  \cup
  LogsOf("BurnPosition", [posId : PosIds, owner : Addrs],
         LAMBDA f : <<f.posId, f.owner, 0>>, LAMBDA f : Data(<<>>), FALSE, PosId)
  \cup
  LogsOf("TransferPosition", [posId : PosIds, from : Addrs, to : Addrs],
         LAMBDA f : <<f.from, f.to, f.posId>>, LAMBDA f : Data(<<>>), FALSE, PosId)
  \cup
  LogsOf("UpdatePositionLiquidity", [posId : PosIds, token0 : Deltas, token1 : Deltas],
         LAMBDA f : <<f.posId, 0, 0>>, LAMBDA f : Data(<<f.token0, f.token1>>), TRUE, PosId)
  \cup
  LogsOf("CollectFees",
         [posId : PosIds, pool : Addrs, to : Addrs, amount0 : Amounts, amount1 : Amounts],
         LAMBDA f : <<f.posId, f.pool, f.to>>, LAMBDA f : Data(<<f.amount0, f.amount1>>),
         TRUE, PosId)
  \cup
  LogsOf("NewPool", [token : Addrs, fee : Fees, decimals : Bytes, tickSpacing : Bytes],
         LAMBDA f : <<f.token, f.fee, 0>>, LAMBDA f : Data(<<f.decimals, f.tickSpacing>>),
         TRUE, NoId)
  \cup
  LogsOf("CollectProtocolFees", [pool : Addrs, to : Addrs, amount0 : Amounts, amount1 : Amounts],
         LAMBDA f : <<f.pool, f.to, 0>>, LAMBDA f : Data(<<f.amount0, f.amount1>>), TRUE, NoId)
  \cup
  LogsOf("Swap2",
         [user : Addrs, from : Addrs, to : Addrs, amountIn : Amounts, amountOut : Amounts,
          fluidVolume : Amounts, finalTick0 : EdgeTicks, finalTick1 : EdgeTicks],
         LAMBDA f : <<f.user, f.from, f.to>>,
         LAMBDA f : Data(<<f.amountIn, f.amountOut, f.fluidVolume, f.finalTick0, f.finalTick1>>),
         TRUE, NoId)
  \cup
  LogsOf("Swap1",
         [user : Addrs, pool : Addrs, zeroForOne : BOOLEAN, amount0 : Amounts,
          amount1 : Amounts, finalTick : EdgeTicks],
         LAMBDA f : <<f.user, f.pool, 0>>,
         LAMBDA f : Data(<<f.zeroForOne, f.amount0, f.amount1, f.finalTick>>), TRUE, NoId)

Logs == TransferLogs \cup ThirdwebLogs \cup LeoLogs \cup SeawaterLogs

-----------------------------------------------------------------------------
VARIABLE log

Init == log \in Logs
Next == UNCHANGED log
Spec == Init /\ [][Next]_log

\* What decoding a log must give: an error when the data the decoder reads
\* does not unpack or the position id exceeds an int64, and otherwise the
\* very event the contract encoded.
Wanted(l) ==
  IF (l.reads /\ l.d = Malformed) \/ l.posId >= 2^(W64 - 1) THEN DecodeError
  ELSE l.fields

\* Every decoder returns exactly the event its contract encoded, field for
\* field (the shifts and sign extension of the packed Leo words, with the
\* bits above a negative tick zero or sign-filled; the fee's int64/uint32
\* conversion; hashToAddr of a padded address), and fails exactly on data
\* that does not unpack or on a position id hashToInt rejects.
DecodeExact == Unpack(log.topic, log.t, log.d) = Wanted(log)

=============================================================================
