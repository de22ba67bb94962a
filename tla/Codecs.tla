------------------------------- MODULE Codecs -------------------------------
(***************************************************************************)
(* The repository's pure conversions of chain data, checked together      *)
(* against their reference definitions: the event decoders of lib/events   *)
(* (EventDecoders), the snapshot's request keys and calldata               *)
(* (CorrelationKey), the square-root price of a tick and the token       *)
(* amounts of a position (LiquidityMath) and                              *)
(* lib/types' Number conversions (Numbers) and string wrappers           *)
(* (Addresses).                                                            *)
(* A behaviour picks one input of one kind; the other variables stay at a  *)
(* fixed input of their own module.                                        *)
(***************************************************************************)
CONSTANTS
  W256, W160, W64, W32, Malformed, DecodeError,
  AddrDigits, WordBytes, IdBits, Alphabet, Panic,
  Q96, Nil, Ratios, Liqs, FracBits, OutShift, Ratio0, OddFactor, MaxTick,
  Null, WordDigits, MaxInt,
  TextChars, TextLen, ByteValues, ByteLen

VARIABLES log, input, mathInput, numInput, textInput

vars == <<log, input, mathInput, numInput, textInput>>

D == INSTANCE EventDecoders
K == INSTANCE CorrelationKey
L == INSTANCE LiquidityMath WITH input <- mathInput
N == INSTANCE Numbers
A == INSTANCE Addresses

NoLogInput == CHOOSE l \in D!Logs : TRUE
NoKeyInput == [kind |-> "string", x |-> <<>>]
NoMathInput == [p |-> Nil, a |-> Nil, b |-> Nil, liq |-> Nil]
NoNumInput == [kind |-> "nil", n |-> 0]
NoTextInput == [kind |-> "text", s |-> <<>>]

Init ==
  \/ D!Init /\ input = NoKeyInput /\ mathInput = NoMathInput /\ numInput = NoNumInput /\ textInput = NoTextInput
  \/ K!Init /\ log = NoLogInput /\ mathInput = NoMathInput /\ numInput = NoNumInput /\ textInput = NoTextInput
  \/ L!Init /\ log = NoLogInput /\ input = NoKeyInput /\ numInput = NoNumInput /\ textInput = NoTextInput
  \/ N!Init /\ log = NoLogInput /\ input = NoKeyInput /\ mathInput = NoMathInput /\ textInput = NoTextInput
  \/ A!Init /\ log = NoLogInput /\ input = NoKeyInput /\ mathInput = NoMathInput /\ numInput = NoNumInput

Next == UNCHANGED vars

Spec == Init /\ [][Next]_vars

\* Every event decoder returns exactly the event its contract encoded, and
\* fails exactly on data that does not unpack or an id beyond an int64.
DecodeExact == D!DecodeExact

\* decodeId(encodeId(pool, id)) is (pool, id) again: the key correlates
\* every response with the position it was asked for.
KeyRoundTrip == K!KeyRoundTrip

\* getCalldata is the selector followed by the pool and the id, each
\* left-padded to a word.
CalldataExact == K!CalldataExact

\* GetAmountsForLiq, truncated by mulRatToInt, gives the contract library's
\* integer amounts, for boundaries in either order and nil operands.
AmountsMatchReference == L!AmountsMatchReference

\* A Number written to the database and read back is the same number, nil
\* and negative values included.
NumberDbRoundTrip == N!NumberDbRoundTrip

\* An UnscaledNumber written to the database and read back is the same.
UnscaledDbRoundTrip == N!UnscaledDbRoundTrip

\* The worker's NumberFromHex of a result word is the liquidity it encodes.
ResultDecodesLiquidity == N!ResultDecodesLiquidity

\* GetSqrtRatioAtTick is strictly increasing in the tick.
SqrtRatioMonotonic == L!SqrtRatioMonotonic

\* Data.Bytes of a stored DataFromBytes value gives the bytes back.
DataDbRoundTrip == A!DataDbRoundTrip
=============================================================================
