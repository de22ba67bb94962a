---------------------------- MODULE CorrelationKey ----------------------------
(***************************************************************************)
(* The snapshot's request keys and calldata (cmd/snapshot.ethereum,        *)
(* rpc.go): encodeId joins a pool address and a position id into the       *)
(* JSON-RPC id the node echoes back, decodeId splits it again, and         *)
(* getCalldata builds the eth_call data for positionLiquidity(pool, id).   *)
(*                                                                         *)
(* A string is a sequence of one-character strings.  An address string is *)
(* "0x" and AddrDigits lower-case hex digits (40 in the code); a word is   *)
(* WordBytes bytes (32 in the code); IdBits is the bit size ParseInt       *)
(* checks (64 in the code).                                                *)
(***************************************************************************)
EXTENDS Integers, Sequences, SequencesExt

CONSTANTS
  AddrDigits,   \* hex digits of an address
  WordBytes,    \* bytes of an ABI word
  IdBits,       \* ParseInt's bit size
  Alphabet,     \* the characters the model builds strings from
  Panic         \* a run-time panic (slice bounds out of range)

ASSUME
  /\ AddrDigits \in Nat \ {0} /\ AddrDigits % 2 = 0
  /\ WordBytes \in Nat \ {0} /\ IdBits \in Nat \ {0}

\* The lower-case hex digits, by value.
HexDigits == <<"0", "1", "2", "3", "4", "5", "6", "7", "8", "9", "a", "b", "c", "d", "e", "f">>

DigitValue(c) == CHOOSE v \in 0..15 : HexDigits[v + 1] = c

IsHexDigit(c) == c \in ToSet(HexDigits)

\* fmt's %x of a non-negative int: hex digits without leading zeros.
RECURSIVE Hex(_)
Hex(n) == IF n < 16 THEN <<HexDigits[n + 1]>>
          ELSE Hex(n \div 16) \o <<HexDigits[(n % 16) + 1]>>

\* The value of a sequence of hex digits, most significant first.
HexValue(s) == FoldLeft(LAMBDA acc, c : 16 * acc + DigitValue(c), 0, s)

\* strconv.ParseInt(s, 16, IdBits): an optional sign, then one or more hex
\* digits; a value outside the signed IdBits range is an error.
ParseInt16(s) ==
  LET neg    == Len(s) > 0 /\ s[1] = "-"
      digits == IF Len(s) > 0 /\ s[1] \in {"-", "+"} THEN Tail(s) ELSE s
      v      == IF neg THEN -HexValue(digits) ELSE HexValue(digits)
  IN IF digits = <<>> \/ \E i \in 1..Len(digits) : ~IsHexDigit(digits[i]) THEN [ok |-> FALSE]
     ELSE IF v < -(2^(IdBits - 1)) \/ v > 2^(IdBits - 1) - 1 THEN [ok |-> FALSE]
     ELSE [ok |-> TRUE, v |-> v]

\* encodeId: fmt.Sprintf("%s%x", pool, id).
encodeId(pool, id) == pool \o Hex(id)

\* Mutant: the pool is taken without its 0x prefix.
decodeIdNoPrefix(x) ==
  IF Len(x) < AddrDigits THEN [ok |-> FALSE]
  ELSE LET r == ParseInt16(SubSeq(x, AddrDigits + 1, Len(x)))
       IN IF ~r.ok THEN [ok |-> FALSE]
          ELSE [ok |-> TRUE, pool |-> SubSeq(x, 1, AddrDigits), id |-> r.v]

\* decodeId: strings shorter than 40 are rejected, then x[:42] is the pool
\* and x[42:] the id in hex; x[:42] panics on a string of 40 or 41.
decodeId(x) ==
  IF Len(x) < AddrDigits THEN [ok |-> FALSE]
  ELSE IF Len(x) < AddrDigits + 2 THEN Panic
  ELSE LET r == ParseInt16(SubSeq(x, AddrDigits + 3, Len(x)))
       IN IF ~r.ok THEN [ok |-> FALSE]
          ELSE [ok |-> TRUE, pool |-> SubSeq(x, 1, AddrDigits + 2), id |-> r.v]

-----------------------------------------------------------------------------
(* getCalldata.                                                             *)

\* big.Int.Bytes: the minimal big-endian bytes, none for zero.
RECURSIVE BigBytes(_)
BigBytes(n) == IF n = 0 THEN <<>> ELSE BigBytes(n \div 256) \o <<n % 256>>

\* Mutant: the zeros are put after the bytes (RightPadBytes).
RightPadBytes(b, l) ==
  IF Len(b) >= l THEN b ELSE b \o [i \in 1..(l - Len(b)) |-> 0]

\* ethCommon.LeftPadBytes.
LeftPadBytes(b, l) ==
  IF Len(b) >= l THEN b ELSE [i \in 1..(l - Len(b)) |-> 0] \o b

\* HexToAddress(pool).Bytes() of a well-formed address string.
AddressBytes(pool) ==
  [i \in 1..(AddrDigits \div 2) |->
     16 * DigitValue(pool[2 * i + 1]) + DigitValue(pool[2 * i + 2])]

\* hex.EncodeToString: two lower-case digits per byte.
HexEncode(bytes) ==
  FoldLeft(LAMBDA acc, b : acc \o <<HexDigits[(b \div 16) + 1], HexDigits[(b % 16) + 1]>>,
           <<>>, bytes)

\* The selector of positionLiquidity8D11C045(address,uint256).
Selector == <<0, 0, 2, 91>>

\* getCalldata: "0x", then the selector, the pool and the id as words.
getCalldata(pool, id) ==
  <<"0", "x">> \o HexEncode(Selector \o LeftPadBytes(AddressBytes(pool), WordBytes)
                                      \o LeftPadBytes(BigBytes(id), WordBytes))

-----------------------------------------------------------------------------
(* The inputs: every well-formed (pool, id) pair of the model, and every    *)
(* string over Alphabet up to three characters longer than an address.     *)

Pools == { <<"0", "x">> \o d : d \in [1..AddrDigits -> {"0", "a", "f"}] }
Ids == 0..(2^(IdBits - 1) - 1)
Strings == UNION { [1..n -> Alphabet] : n \in 0..(AddrDigits + 3) }

VARIABLE input

Init == input \in [kind : {"pair"}, pool : Pools, id : Ids] \cup [kind : {"string"}, x : Strings]
Next == UNCHANGED input
Spec == Init /\ [][Next]_input

\* The key reqPositions correlates a response by decodes back to the very
\* pool and position id it was built from (spec: "the composite
\* correlation key ... decodes back to the exact same (pool, id) pair"),
\* so encodeId is injective and positionMap keeps one entry per position.
KeyRoundTrip ==
  input.kind = "pair" =>
    decodeId(encodeId(input.pool, input.id)) = [ok |-> TRUE, pool |-> input.pool, id |-> input.id]

\* The eth_call data is "0x", the 4-byte selector, and two 32-byte words
\* holding the pool's address and the position id (for id 0 the last word
\* is all zeros).
CalldataExact ==
  input.kind = "pair" =>
    LET s == getCalldata(input.pool, input.id)
        w == 2 * WordBytes
    IN /\ Len(s) = 2 + 8 + 2 * w
       /\ SubSeq(s, 1, 10) = <<"0", "x">> \o HexEncode(Selector)
       /\ HexValue(SubSeq(s, 11, 10 + w)) = HexValue(SubSeq(input.pool, 3, AddrDigits + 2))
       /\ HexValue(SubSeq(s, 11 + w, 10 + 2 * w)) = input.id

=============================================================================
