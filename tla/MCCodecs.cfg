\* Scaled widths: W32 = 2 and W64 = 3 keep int32 < int64 and leave room
\* above both packed Leo words (6 and 10 of 12 bits) for sign-filled bits.
\* Addresses of 2 hex digits (1 byte) in 2-byte words, ids below 2^6 (one
\* and two hex digits), and every string of up to 5 characters over a
\* 4-letter alphabet.  Square-root prices around the scale Q96 = 8 (prices
\* 1/4 to 9/4), so that every case of GetAmountsForLiq, equal boundaries,
\* boundaries given high-first and non-zero truncation remainders occur;
\* liquidity 0..3 and nil.  Numbers of one to three digits of either sign,
\* and every 2-digit result word.  GetSqrtRatioAtTick with a 14-bit
\* accumulator shifted by 4 bits and a price step of 1.1 (Ratio0 =
\* floor(2^14 / 1.1), OddFactor = floor(2^14 / sqrt 1.1)): ticks -12..12
\* use up to four loop rounds, both parities and both signs, and with these
\* widths the code's post-shift rounding differs from rounding the
\* unshifted value at ticks -11, -1 and 1.  Texts of up to 3 characters
\* over both cases of a hex letter, a digit and the x of a prefix; byte
\* strings of up to 2 bytes with both one-digit and two-digit hex bytes.
CONSTANTS
  W256 = 12
  W160 = 2
  W64 = 3
  W32 = 2
  Malformed = Malformed
  DecodeError = DecodeError
  AddrDigits = 2
  WordBytes = 2
  IdBits = 7
  Alphabet = {"0", "f", "x", "-"}
  Panic = Panic
  Q96 = 8
  Nil = Nil
  Ratios = {4, 5, 6, 7, 8, 9, 10, 11, 12}
  Liqs = {0, 1, 2, 3}
  Null = Null
  WordDigits = 2
  MaxInt = 120
  FracBits = 14
  OutShift = 4
  Ratio0 = 14894
  OddFactor = 15621
  MaxTick = 12
  TextChars = {"0", "a", "A", "x", "X"}
  TextLen = 3
  ByteValues = {0, 10, 171, 255}
  ByteLen = 2
SPECIFICATION Spec
INVARIANT DecodeExact KeyRoundTrip CalldataExact AmountsMatchReference NumberDbRoundTrip UnscaledDbRoundTrip ResultDecodesLiquidity SqrtRatioMonotonic DataDbRoundTrip
