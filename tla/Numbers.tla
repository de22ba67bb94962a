------------------------------ MODULE Numbers ------------------------------
(***************************************************************************)
(* lib/types' Number, a *big.Int that may be nil: its database conversions *)
(* (Value when a row is written, Scan when it is read back) and            *)
(* NumberFromHex, with which the snapshot's workers decode the liquidity   *)
(* word of an eth_call result.  A string is a sequence of one-character    *)
(* strings; big.Int's Text and SetString are modelled by what they do.     *)
(*                                                                         *)
(* A database value is Null, a text [kind, x] or an int64 [kind, i]: the  *)
(* driver gives a NUMERIC column back as its text, an integer one as int64. *)
(***************************************************************************)
EXTENDS Integers, Sequences, SequencesExt

CONSTANTS
  Nil,         \* a nil *big.Int
  Null,        \* SQL NULL
  WordDigits,  \* hex digits of an ABI word (64 in the code)
  MaxInt       \* the model's numbers lie in -MaxInt..MaxInt

ASSUME WordDigits \in Nat \ {0} /\ MaxInt \in Nat

NumDigits == <<"0", "1", "2", "3", "4", "5", "6", "7", "8", "9", "a", "b", "c", "d", "e", "f">>

\* The digits SetString reads: both cases of the letters a-f, each worth
\* the lower-case digit's value.
UpperDigits == <<"A", "B", "C", "D", "E", "F">>

DigitValues == [c \in ToSet(NumDigits) \cup ToSet(UpperDigits) |->
                  CHOOSE v \in 0..15 : NumDigits[v + 1] = c \/ (v >= 10 /\ UpperDigits[v - 9] = c)]

NumDigitValue(c) == DigitValues[c]

\* big.Int.Text(base) of a non-negative value: no leading zeros, "0" for 0.
RECURSIVE Magnitude(_, _)
Magnitude(n, base) ==
  IF n < base THEN <<NumDigits[n + 1]>>
  ELSE Magnitude(n \div base, base) \o <<NumDigits[(n % base) + 1]>>

\* big.Int.Text(base): a minus sign before a negative value's digits; a nil
\* *big.Int prints as "<nil>".
Text(n, base) ==
  IF n = Nil THEN <<"<", "n", "i", "l", ">">>
  ELSE IF n < 0 THEN <<"-">> \o Magnitude(-n, base) ELSE Magnitude(n, base)

\* big.Int.SetString(s, base) with an explicit base: an optional sign, then
\* one or more digits of the base (letters in either case), and nothing else.
SetString(s, base) ==
  LET ds  == IF Len(s) > 0 /\ s[1] \in {"-", "+"} THEN Tail(s) ELSE s
      mag == FoldLeft(LAMBDA acc, c : base * acc + NumDigitValue(c), 0, ds)
      ok(c) == c \in DOMAIN DigitValues /\ DigitValues[c] < base
  IN IF ds = <<>> \/ \E i \in 1..Len(ds) : ~ok(ds[i])
       THEN [ok |-> FALSE]
       ELSE [ok |-> TRUE, v |-> IF s[1] = "-" THEN -mag ELSE mag]

\* NumberFromBase10 and NumberFromHex: SetString, then NumberFromBig.
NumberFromBase10(v) == LET r == SetString(v, 10) IN
                       IF r.ok THEN [ok |-> TRUE, n |-> r.v] ELSE [ok |-> FALSE]
NumberFromHex(v) == LET r == SetString(v, 16) IN
                    IF r.ok THEN [ok |-> TRUE, n |-> r.v] ELSE [ok |-> FALSE]

\* Mutant: the value is written as its hexadecimal text.
UnscaledValueHex(n) == [kind |-> "string", x |-> Text(n, 16)]

\* UnscaledNumber.Value: the decimal text, with no nil check.
UnscaledValue(n) == [kind |-> "string", x |-> Text(n, 10)]

\* Number.Big: a copy of the value, and 0 for a nil number.
NumberBig(n) == IF n = Nil THEN 0 ELSE n

\* Number.Value: NULL for a nil number, else the decimal text.
Value(n) == IF n = Nil THEN Null ELSE [kind |-> "string", x |-> Text(n, 10)]

\* Number.Scan into a number whose value is cur: NULL leaves it alone, a
\* string goes through NumberFromBase10, an int64 or uint64 through
\* NumberFromInt64 or NumberFromUint64; any other type is an error.
Scan(cur, v) ==
  IF v = Null THEN [ok |-> TRUE, n |-> cur]
  ELSE CASE v.kind = "string" -> NumberFromBase10(v.x)
         [] v.kind \in {"int64", "uint64"} -> [ok |-> TRUE, n |-> v.i]
         [] OTHER -> [ok |-> FALSE]

\* UnscaledNumber.Scan: NULL leaves it alone; anything else goes through
\* Number.Scan into a fresh Number, then UnscaledNumberFromBig(n.Big()).
UnscaledScan(cur, v) ==
  IF v = Null THEN [ok |-> TRUE, n |-> cur]
  ELSE LET r == Scan(Nil, v)
       IN IF r.ok THEN [ok |-> TRUE, n |-> NumberBig(r.n)] ELSE r

\* What a column written with value v reads back as: NULL stays NULL; text
\* the database accepts comes back as the text or, from an integer column,
\* as an int64; text it rejects fails the write, so nothing is read.
DbRead(v) ==
  IF v = Null THEN {Null}
  ELSE LET r == SetString(v.x, 10)
       IN IF r.ok THEN {v, [kind |-> "int64", i |-> r.v]} ELSE {}

\* strings.TrimPrefix.
TrimPrefix(s, p) ==
  IF Len(s) >= Len(p) /\ SubSeq(s, 1, Len(p)) = p THEN SubSeq(s, Len(p) + 1, Len(s)) ELSE s

\* Mutant: the result is parsed with its 0x prefix.
DeltaOfNoTrim(result) == NumberFromHex(result)

\* The worker's delta: NumberFromHex of the result without its 0x prefix.
DeltaOf(result) == NumberFromHex(TrimPrefix(result, <<"0", "x">>))

\* The result of positionLiquidity for a liquidity v: one hex ABI word.
WordResult(v) ==
  <<"0", "x">> \o [i \in 1..(WordDigits - Len(Magnitude(v, 16))) |-> "0"] \o Magnitude(v, 16)

-----------------------------------------------------------------------------
VARIABLE numInput   \* a number (kind "nil" for a nil one) or a result word

Init ==
  numInput \in [kind : {"nil"}, n : {0}] \cup [kind : {"number"}, n : -MaxInt..MaxInt]
               \cup [kind : {"result"}, v : 0..(16^WordDigits - 1)]
Next == UNCHANGED numInput
Spec == Init /\ [][Next]_numInput

\* A Number written to the database and read back, from a NUMERIC or an
\* integer column, into a fresh (nil) Number is the number written: nil
\* stays nil through NULL, and negative values (lower ticks) keep their sign.
NumberDbRoundTrip ==
  numInput.kind \in {"nil", "number"} =>
    LET n == IF numInput.kind = "nil" THEN Nil ELSE numInput.n
    IN /\ DbRead(Value(n)) # {}
       /\ \A v \in DbRead(Value(n)) : Scan(Nil, v) = [ok |-> TRUE, n |-> n]

\* An UnscaledNumber (every writer builds one from a *big.Int, so it is
\* never nil) written to the database and read back into a fresh one is the
\* number written: Value's decimal text, the driver's text or int64, and
\* Scan's detour through Number.Scan and Number.Big agree on every value.
UnscaledDbRoundTrip ==
  numInput.kind = "number" =>
    /\ DbRead(UnscaledValue(numInput.n)) # {}
    /\ \A v \in DbRead(UnscaledValue(numInput.n)) :
         UnscaledScan(Nil, v) = [ok |-> TRUE, n |-> numInput.n]

\* The worker's delta for a result word is the liquidity the word encodes.
ResultDecodesLiquidity ==
  numInput.kind = "result" => DeltaOf(WordResult(numInput.v)) = [ok |-> TRUE, n |-> numInput.v]
=============================================================================
