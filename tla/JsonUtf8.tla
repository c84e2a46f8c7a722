------------------------------- MODULE JsonUtf8 -------------------------------
(***************************************************************************)
(* parson.c: which bytes are UTF-8, is_valid_utf8 and                      *)
(* verify_utf8_sequence, which guard the strings a caller passes, and the  *)
(* bytes that parse_utf16 writes.  A buffer ends with a byte 0; the caller *)
(* says how many of its bytes are the string.  A step adds a byte.         *)
(***************************************************************************)
EXTENDS Integers, Sequences, JsonNull

CONSTANTS Bytes,        \* the bytes to build buffers of, not 0
          CodePoints,   \* those to write, see EncodingsValid
          MaxBytes      \* bound: bytes in a buffer

VARIABLE buffer  \* NULL, or its bytes: only those are looked at

Byte(s, p) == IF p <= Len(s) THEN s[p] ELSE 0

\* IS_CONT.
IsCont(b) == b \div 64 = 2

NumBytesInSequence(c) ==
  IF c \in {192, 193} \/ c > 244 \/ IsCont(c) THEN 0
  ELSE CASE c < 128 -> 1
         [] c \div 32 = 6 -> 2
         [] c \div 16 = 14 -> 3
         [] c \div 8 = 30 -> 4

\* The code point that len bytes from p stand for: each byte behind the first
\* adds six bits.
CodePoint(s, p, len) ==
  LET Lead(bits) == Byte(s, p) % bits
      Next(cp, n) == cp * 64 + (Byte(s, p + n) % 64)
  IN  CASE len = 1 -> Byte(s, p)
        [] len = 2 -> Next(Lead(32), 1)
        [] len = 3 -> Next(Next(Lead(16), 1), 2)
        [] len = 4 -> Next(Next(Next(Lead(8), 1), 2), 3)

\* Faulty variant: only the overlong forms of two bytes are looked for.
OverlongInTwo(cp, len) == cp < 128 /\ len > 1

Overlong(cp, len) ==
  \/ cp < 128 /\ len > 1
  \/ cp < 2048 /\ len > 2
  \/ cp < 65536 /\ len > 3

\* verify_utf8_sequence: how many bytes are a character, 0 if none.
VerifySequence(s, p) ==
  LET len  == NumBytesInSequence(Byte(s, p))
      full == len > 0 /\ \A n \in 1 .. len - 1 : IsCont(Byte(s, p + n))
      cp   == CodePoint(s, p, len)
      ok   == ~Overlong(cp, len) /\ cp <= 1114111 /\ ~(55296 <= cp /\ cp <= 57343)
  IN  IF full THEN (IF ok THEN len ELSE 0) ELSE 0

\* The loop of is_valid_utf8: where it comes to behind the first n bytes of s
\* when it is at p, 0 when it meets a byte that is no character.
LoopEnd(s, n) ==
  LET end[p \in Nat \ {0}] ==
        IF p > n THEN p
        ELSE IF VerifySequence(s, p) = 0 THEN 0 ELSE end[p + VerifySequence(s, p)]
  IN  end

IsValidUtf8(s, n) == LoopEnd(s, n)[1] > 0

\* What parse_utf16 writes for a code point that is no surrogate.
Encode(cp) ==
  IF cp < 128 THEN <<cp>>
  ELSE IF cp < 2048 THEN <<192 + ((cp \div 64) % 32), 128 + (cp % 64)>>
  ELSE IF cp < 65536 THEN
    <<224 + ((cp \div 4096) % 16), 128 + ((cp \div 64) % 64), 128 + (cp % 64)>>
  ELSE
    <<240 + ((cp \div 262144) % 8), 128 + ((cp \div 4096) % 64),
      128 + ((cp \div 64) % 64), 128 + (cp % 64)>>

Utf8Init == buffer \in {NULL, <<>>}

AddByte(b) ==
  /\ buffer # NULL
  /\ Len(buffer) < MaxBytes
  /\ buffer' = Append(buffer, b)

Utf8Next == \E b \in Bytes : AddByte(b)
Utf8Spec == Utf8Init /\ [][Utf8Next]_buffer

-----------------------------------------------------------------------------
(* Properties.                                                             *)

Within(s, n, from, to) == n <= Len(s) /\ from <= s[n] /\ s[n] <= to
Tail80(s, n, m) == \A l \in n .. m : Within(s, l, 128, 191)

\* The well-formed characters of the Unicode standard (its table 3-7).
OneByte(s, p) == Within(s, p, 0, 127)
TwoBytes(s, p) == Within(s, p, 194, 223) /\ Tail80(s, p + 1, p + 1)
ThreeBytes(s, p) ==
  \/ Within(s, p, 224, 224) /\ Within(s, p + 1, 160, 191) /\ Tail80(s, p + 2, p + 2)
  \/ Within(s, p, 237, 237) /\ Within(s, p + 1, 128, 159) /\ Tail80(s, p + 2, p + 2)
  \/ Within(s, p, 225, 236) /\ Tail80(s, p + 1, p + 2)
  \/ Within(s, p, 238, 239) /\ Tail80(s, p + 1, p + 2)
FourBytes(s, p) ==
  \/ Within(s, p, 240, 240) /\ Within(s, p + 1, 144, 191) /\ Tail80(s, p + 2, p + 3)
  \/ Within(s, p, 244, 244) /\ Within(s, p + 1, 128, 143) /\ Tail80(s, p + 2, p + 3)
  \/ Within(s, p, 241, 243) /\ Tail80(s, p + 1, p + 3)

\* How many bytes the one at p has, 0 if there is none.
WellFormed(s, p) ==
  CASE OneByte(s, p) -> 1
    [] TwoBytes(s, p) -> 2
    [] ThreeBytes(s, p) -> 3
    [] FourBytes(s, p) -> 4
    [] OTHER -> 0

\* The bytes before p are a row of well-formed characters, which begin at the
\* positions in B.
Splits(s, p) ==
  \E B \in SUBSET (1 .. p) :
    /\ {1, p} \subseteq B
    /\ \A q \in B \ {p} : WellFormed(s, q) > 0 /\ q + WellFormed(s, q) \in B

\* Overlong forms, surrogates and what lies behind the last code point are
\* refused.  A length that cuts a character in two is not seen, because the rest
\* of it is read behind the length; it is never read behind the buffer.
StrictUtf8 ==
  /\ buffer \in Seq(Bytes)
  /\ \A n \in 0 .. Len(buffer) :
       IsValidUtf8(buffer, n) <=> \E p \in n + 1 .. Len(buffer) + 1 : Splits(buffer, p)

\* What parse_utf16 writes for a code point passes is_valid_utf8 as this code
\* point, behind any valid bytes: a string that was read can be passed on.
EncodingsValid ==
  Splits(buffer, Len(buffer) + 1) =>
    \A cp \in CodePoints :
      LET s == buffer \o Encode(cp)
          p == Len(buffer) + 1
      IN  IsValidUtf8(s, Len(s)) /\ CodePoint(s, p, VerifySequence(s, p)) = cp

\* is_valid_utf8 (parson.c:309-376) accepts the well-formed sequences and no other,
\* and parse_utf16 (parson.c:791-817) writes well-formed ones.
Utf8WellFormed == buffer # NULL => StrictUtf8 /\ EncodingsValid
=============================================================================
