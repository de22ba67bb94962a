----------------------------- MODULE Addresses -----------------------------
(***************************************************************************)
(* lib/types' string wrappers Hash, Address and Data: the constructors     *)
(* lower-case their text, String lower-cases it again and Value writes     *)
(* String's text; a text column is scanned back into the wrapper as it is. *)
(* Data also converts to and from bytes through hex.  A string is a        *)
(* sequence of one-character strings over a small alphabet with both       *)
(* cases; a byte is an integer in 0..255.                                  *)
(*                                                                         *)
(* The ingestor sets Event.EmitterAddr, BlockHash and TransactionHash by   *)
(* reflection (setEventFields) with go-ethereum's texts, the emitter in    *)
(* its mixed-case checksum form, so those values never pass through a     *)
(* constructor.                                                            *)
(***************************************************************************)
EXTENDS Integers, Sequences, SequencesExt

CONSTANTS
  TextChars,   \* the characters of the texts the model feeds in
  TextLen,     \* their greatest length
  ByteValues,  \* the bytes of the byte strings the model feeds in
  ByteLen      \* their greatest length

ASSUME TextLen \in Nat /\ ByteLen \in Nat /\ ByteValues \subseteq 0..255

HexDigits == <<"0", "1", "2", "3", "4", "5", "6", "7", "8", "9", "a", "b", "c", "d", "e", "f">>

\* unicode.ToLower on the upper-case letters the texts may hold.
UpperCase == [c \in {"A", "B", "C", "D", "E", "F", "X"} |->
                CASE c = "A" -> "a" [] c = "B" -> "b" [] c = "C" -> "c"
                  [] c = "D" -> "d" [] c = "E" -> "e" [] c = "F" -> "f"
                  [] c = "X" -> "x"]

LowerChar(c) == IF c \in DOMAIN UpperCase THEN UpperCase[c] ELSE c

\* strings.ToLower.
ToLower(s) == [i \in 1..Len(s) |-> LowerChar(s[i])]

\* strings.TrimPrefix.
TrimPrefix(s, p) == IF IsPrefix(p, s) THEN SubSeq(s, Len(p) + 1, Len(s)) ELSE s

\* A text column read back into a Hash, Address or Data: the text itself.
DbText(v) == v.x

-----------------------------------------------------------------------------
\* HashFromString, Hash.String and Hash.Value.
HashFromString(s) == ToLower(s)
HashString(h) == ToLower(h)
HashValue(h) == [kind |-> "string", x |-> HashString(h)]

\* AddressFromString and Address.Value.
AddressFromString(s) == ToLower(s)

\* Address.String.
AddressString(a) == ToLower(a)

AddressValue(a) == [kind |-> "string", x |-> AddressString(a)]

-----------------------------------------------------------------------------
\* hex.EncodeToString: two lower-case digits per byte.
HexEncode(b) ==
  FoldLeft(LAMBDA acc, x : acc \o <<HexDigits[(x \div 16) + 1], HexDigits[(x % 16) + 1]>>, <<>>, b)

HexValue(c) == CHOOSE v \in 0..15 : HexDigits[v + 1] = LowerChar(c)

\* hex.DecodeString: an odd length or a character that is no hex digit of
\* either case is an error; otherwise one byte per pair of digits.
HexDecode(s) ==
  IF Len(s) % 2 = 1 \/ \E i \in 1..Len(s) : LowerChar(s[i]) \notin ToSet(HexDigits)
    THEN [ok |-> FALSE]
    ELSE [ok |-> TRUE, b |-> [i \in 1..(Len(s) \div 2) |-> 16 * HexValue(s[2 * i - 1]) + HexValue(s[2 * i])]]

\* DataFromBytes, Data.String and Data.Value.
DataFromBytes(b) == <<"0", "x">> \o HexEncode(b)
DataString(d) == ToLower(d)
DataValue(d) == [kind |-> "string", x |-> DataString(d)]

\* Mutant: the 0x prefix is decoded with the digits.
DataBytesNoTrim(d) == HexDecode(d)

\* Data.Bytes: hex.DecodeString of the text without its 0x prefix.
DataBytes(d) == HexDecode(TrimPrefix(d, <<"0", "x">>))

-----------------------------------------------------------------------------
VARIABLE textInput   \* a text, or a byte string

Init ==
  textInput \in [kind : {"text"}, s : BoundedSeq(TextChars, TextLen)]
                \cup [kind : {"bytes"}, b : BoundedSeq(ByteValues, ByteLen)]
Next == UNCHANGED textInput
Spec == Init /\ [][Next]_textInput

\* A Data built from bytes (a Leo campaign identifier), stored and read
\* back, gives the same bytes again through Data.Bytes.
DataDbRoundTrip ==
  textInput.kind = "bytes" =>
    DataBytes(DbText(DataValue(DataFromBytes(textInput.b)))) = [ok |-> TRUE, b |-> textInput.b]
====
