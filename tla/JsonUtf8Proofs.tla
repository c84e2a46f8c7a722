---------------------------- MODULE JsonUtf8Proofs ----------------------------
(***************************************************************************)
(* Proofs about JsonUtf8, for buffers of any length over any bytes but 0   *)
(* and for every code point that parse_utf16 writes.                       *)
(***************************************************************************)
EXTENDS JsonUtf8, SequenceTheorems, WellFoundedInduction, TLAPS

ByteString == Seq(0 .. 255)

-----------------------------------------------------------------------------
(* One character.                                                          *)

\* IS_CONT by range.
LEMMA ContinuationByte ==
  ASSUME NEW b \in 0 .. 255
  PROVE  IsCont(b) <=> 128 <= b /\ b <= 191
BY SMT DEF IsCont

\* num_bytes_in_utf8_sequence by ranges of the first byte.
LEMMA LeadByte ==
  ASSUME NEW b \in 0 .. 255
  PROVE  /\ b < 128 => NumBytesInSequence(b) = 1
         /\ b \in 128 .. 193 \/ b > 244 => NumBytesInSequence(b) = 0
         /\ b \in 194 .. 223 => NumBytesInSequence(b) = 2
         /\ b \in 224 .. 239 => NumBytesInSequence(b) = 3
         /\ b \in 240 .. 244 => NumBytesInSequence(b) = 4
<1>1. b < 128 => NumBytesInSequence(b) = 1
  BY ContinuationByte, SMT DEF NumBytesInSequence
<1>2. b \in 128 .. 193 \/ b > 244 => NumBytesInSequence(b) = 0
  BY ContinuationByte, SMT DEF NumBytesInSequence
<1>3. b \in 194 .. 223 => NumBytesInSequence(b) = 2
  BY ContinuationByte, SMT DEF NumBytesInSequence
<1>4. b \in 224 .. 239 => NumBytesInSequence(b) = 3
  BY ContinuationByte, SMT DEF NumBytesInSequence
<1>5. b \in 240 .. 244 => NumBytesInSequence(b) = 4
  BY ContinuationByte, SMT DEF NumBytesInSequence
<1>. QED
  BY <1>1, <1>2, <1>3, <1>4, <1>5

\* What is read at a position is a byte; behind the buffer it is its byte 0.
LEMMA BytesRead ==
  ASSUME NEW s \in ByteString, NEW p \in Nat \ {0}
  PROVE  /\ Byte(s, p) \in 0 .. 255
         /\ Byte(s, p) # 0 => p <= Len(s)
         /\ p <= Len(s) => Byte(s, p) = s[p]
<1>1. Len(s) \in Nat /\ (p <= Len(s) => s[p] \in 0 .. 255)
  BY ElementOfSeq, LenProperties DEF ByteString
<1>. QED
  BY <1>1 DEF Byte

\* The ranges of the standard by the byte that is read.
LEMMA WithinByte ==
  ASSUME NEW s \in ByteString, NEW p \in Nat \ {0}, NEW from \in Nat, NEW to \in Nat,
         from > 0 \/ p <= Len(s)
  PROVE  Within(s, p, from, to) <=> from <= Byte(s, p) /\ Byte(s, p) <= to
<1>1. Len(s) \in Nat
  BY LenProperties DEF ByteString
<1>2. CASE p <= Len(s)
  BY <1>1, <1>2 DEF Byte, Within
<1>3. CASE ~ (p <= Len(s))
  BY <1>1, <1>3 DEF Byte, Within
<1>. QED
  BY <1>2, <1>3

\* The length of the character at a position, if at most one of the cases applies.
LEMMA WellFormedCases ==
  ASSUME NEW s, NEW p
  PROVE  /\ OneByte(s, p) /\ ~TwoBytes(s, p) /\ ~ThreeBytes(s, p) /\ ~FourBytes(s, p)
              => WellFormed(s, p) = 1
         /\ ~OneByte(s, p) /\ TwoBytes(s, p) /\ ~ThreeBytes(s, p) /\ ~FourBytes(s, p)
              => WellFormed(s, p) = 2
         /\ ~OneByte(s, p) /\ ~TwoBytes(s, p) /\ ThreeBytes(s, p) /\ ~FourBytes(s, p)
              => WellFormed(s, p) = 3
         /\ ~OneByte(s, p) /\ ~TwoBytes(s, p) /\ ~ThreeBytes(s, p) /\ FourBytes(s, p)
              => WellFormed(s, p) = 4
         /\ ~OneByte(s, p) /\ ~TwoBytes(s, p) /\ ~ThreeBytes(s, p) /\ ~FourBytes(s, p)
              => WellFormed(s, p) = 0
BY SMT DEF WellFormed

\* The characters by the bytes that are read from their position on.
One(b0) == b0 <= 127
Two(b0, b1) == 194 <= b0 /\ b0 <= 223 /\ IsCont(b1)
Three(b0, b1, b2) ==
  /\ 224 <= b0 /\ b0 <= 239 /\ IsCont(b1) /\ IsCont(b2)
  /\ b0 = 224 => b1 >= 160
  /\ b0 = 237 => b1 <= 159
Four(b0, b1, b2, b3) ==
  /\ 240 <= b0 /\ b0 <= 244 /\ IsCont(b1) /\ IsCont(b2) /\ IsCont(b3)
  /\ b0 = 240 => b1 >= 144
  /\ b0 = 244 => b1 <= 143

LEMMA CharactersByBytes ==
  ASSUME NEW s \in ByteString, NEW p \in 1 .. Len(s)
  PROVE  /\ OneByte(s, p) <=> One(Byte(s, p))
         /\ TwoBytes(s, p) <=> Two(Byte(s, p), Byte(s, p + 1))
         /\ ThreeBytes(s, p) <=> Three(Byte(s, p), Byte(s, p + 1), Byte(s, p + 2))
         /\ FourBytes(s, p) <=>
              Four(Byte(s, p), Byte(s, p + 1), Byte(s, p + 2), Byte(s, p + 3))
<1>. DEFINE b0 == Byte(s, p)
            b1 == Byte(s, p + 1)
            b2 == Byte(s, p + 2)
            b3 == Byte(s, p + 3)
<1>1. /\ Len(s) \in Nat /\ p \in Nat \ {0} /\ p + 1 \in Nat \ {0}
      /\ p + 2 \in Nat \ {0} /\ p + 3 \in Nat \ {0}
  BY LenProperties DEF ByteString
<1>2. b0 \in 0 .. 255 /\ b1 \in 0 .. 255 /\ b2 \in 0 .. 255 /\ b3 \in 0 .. 255
  BY <1>1, BytesRead
<1>3. s[p] = b0
  BY <1>1, BytesRead
<1>4. /\ Within(s, p, 0, 127) <=> 0 <= b0 /\ b0 <= 127
      /\ Within(s, p, 194, 223) <=> 194 <= b0 /\ b0 <= 223
      /\ Within(s, p, 224, 224) <=> 224 <= b0 /\ b0 <= 224
      /\ Within(s, p, 225, 236) <=> 225 <= b0 /\ b0 <= 236
      /\ Within(s, p, 237, 237) <=> 237 <= b0 /\ b0 <= 237
      /\ Within(s, p, 238, 239) <=> 238 <= b0 /\ b0 <= 239
      /\ Within(s, p, 240, 240) <=> 240 <= b0 /\ b0 <= 240
      /\ Within(s, p, 241, 243) <=> 241 <= b0 /\ b0 <= 243
      /\ Within(s, p, 244, 244) <=> 244 <= b0 /\ b0 <= 244
  BY <1>1, WithinByte
<1>5. /\ Within(s, p + 1, 160, 191) <=> 160 <= b1 /\ b1 <= 191
      /\ Within(s, p + 1, 128, 159) <=> 128 <= b1 /\ b1 <= 159
      /\ Within(s, p + 1, 144, 191) <=> 144 <= b1 /\ b1 <= 191
      /\ Within(s, p + 1, 128, 143) <=> 128 <= b1 /\ b1 <= 143
  BY <1>1, WithinByte
<1>6. /\ Within(s, p + 1, 128, 191) <=> IsCont(b1)
      /\ Within(s, p + 2, 128, 191) <=> IsCont(b2)
      /\ Within(s, p + 3, 128, 191) <=> IsCont(b3)
  <2>1. ASSUME NEW q \in Nat \ {0}
        PROVE  Within(s, q, 128, 191) <=> IsCont(Byte(s, q))
    <3>1. Byte(s, q) \in 0 .. 255
      BY BytesRead
    <3>2. Within(s, q, 128, 191) <=> 128 <= Byte(s, q) /\ Byte(s, q) <= 191
      BY WithinByte
    <3>. QED
      BY <3>1, <3>2, ContinuationByte
  <2>. QED
    BY <1>1, <2>1
<1>8. /\ Tail80(s, p + 1, p + 1) <=> IsCont(b1)
      /\ Tail80(s, p + 2, p + 2) <=> IsCont(b2)
      /\ Tail80(s, p + 1, p + 2) <=> IsCont(b1) /\ IsCont(b2)
      /\ Tail80(s, p + 2, p + 3) <=> IsCont(b2) /\ IsCont(b3)
      /\ Tail80(s, p + 1, p + 3) <=> IsCont(b1) /\ IsCont(b2) /\ IsCont(b3)
  <2>1. p + 1 .. p + 1 = {p + 1} /\ p + 2 .. p + 2 = {p + 2}
    BY <1>1
  <2>2. p + 1 .. p + 2 = {p + 1, p + 2} /\ p + 2 .. p + 3 = {p + 2, p + 3}
    BY <1>1
  <2>3. p + 1 .. p + 3 = {p + 1, p + 2, p + 3}
    BY <1>1
  <2>. QED
    BY <1>6, <2>1, <2>2, <2>3 DEF Tail80
<1>9. /\ IsCont(b1) <=> 128 <= b1 /\ b1 <= 191
      /\ IsCont(b2) <=> 128 <= b2 /\ b2 <= 191
      /\ IsCont(b3) <=> 128 <= b3 /\ b3 <= 191
  BY <1>2, ContinuationByte
<1>. DEFINE one == One(b0)
            two == Two(b0, b1)
            three == Three(b0, b1, b2)
            four == Four(b0, b1, b2, b3)
<1>7. /\ OneByte(s, p) <=> one
      /\ TwoBytes(s, p) <=> two
      /\ ThreeBytes(s, p) <=> three
      /\ FourBytes(s, p) <=> four
  <2>. HIDE DEF b0, b1, b2, b3, one, two, three, four
  <2>1. OneByte(s, p) <=> one
    BY <1>2, <1>4 DEF OneByte, one, One
  <2>2. TwoBytes(s, p) <=> two
    BY <1>2, <1>4, <1>8 DEF TwoBytes, two, Two
  <2>3. ThreeBytes(s, p) <=> three
    <3>1. CASE b0 = 224
      <4>1. Within(s, p, 224, 224) /\ ~Within(s, p, 237, 237) /\ ~Within(s, p, 225, 236) /\ ~Within(s, p, 238, 239)
        BY <1>2, <1>4, <3>1
      <4>2. Within(s, p + 1, 160, 191) <=> IsCont(b1) /\ b1 >= 160
        BY <1>2, <1>5, <1>9
      <4>3. three <=> IsCont(b1) /\ b1 >= 160 /\ IsCont(b2)
        BY <1>2, <3>1 DEF three, Three
      <4>. QED
        BY <1>8, <4>1, <4>2, <4>3, Zenon DEF ThreeBytes
    <3>2. CASE b0 = 237
      <4>1. Within(s, p, 237, 237) /\ ~Within(s, p, 224, 224) /\ ~Within(s, p, 225, 236) /\ ~Within(s, p, 238, 239)
        BY <1>2, <1>4, <3>2
      <4>2. Within(s, p + 1, 128, 159) <=> IsCont(b1) /\ b1 <= 159
        BY <1>2, <1>5, <1>9
      <4>3. three <=> IsCont(b1) /\ b1 <= 159 /\ IsCont(b2)
        BY <1>2, <3>2 DEF three, Three
      <4>. QED
        BY <1>8, <4>1, <4>2, <4>3, Zenon DEF ThreeBytes
    <3>3. CASE b0 \in 225 .. 236
      <4>1. Within(s, p, 225, 236) /\ ~Within(s, p, 224, 224) /\ ~Within(s, p, 237, 237) /\ ~Within(s, p, 238, 239)
        BY <1>2, <1>4, <3>3
      <4>2. three <=> IsCont(b1) /\ IsCont(b2)
        BY <1>2, <3>3 DEF three, Three
      <4>. QED
        BY <1>8, <4>1, <4>2, Zenon DEF ThreeBytes
    <3>4. CASE b0 \in 238 .. 239
      <4>1. Within(s, p, 238, 239) /\ ~Within(s, p, 224, 224) /\ ~Within(s, p, 237, 237) /\ ~Within(s, p, 225, 236)
        BY <1>2, <1>4, <3>4
      <4>2. three <=> IsCont(b1) /\ IsCont(b2)
        BY <1>2, <3>4 DEF three, Three
      <4>. QED
        BY <1>8, <4>1, <4>2, Zenon DEF ThreeBytes
    <3>5. CASE b0 \notin 224 .. 239
      <4>1. ~Within(s, p, 224, 224) /\ ~Within(s, p, 237, 237) /\ ~Within(s, p, 225, 236) /\ ~Within(s, p, 238, 239)
        BY <1>2, <1>4, <3>5
      <4>2. ~three
        BY <1>2, <3>5 DEF three, Three
      <4>. QED
        BY <4>1, <4>2 DEF ThreeBytes
    <3>. QED
      BY <1>2, <3>1, <3>2, <3>3, <3>4, <3>5
  <2>4. FourBytes(s, p) <=> four
    <3>1. CASE b0 = 240
      <4>1. Within(s, p, 240, 240) /\ ~Within(s, p, 244, 244) /\ ~Within(s, p, 241, 243)
        BY <1>2, <1>4, <3>1
      <4>2. Within(s, p + 1, 144, 191) <=> IsCont(b1) /\ b1 >= 144
        BY <1>2, <1>5, <1>9
      <4>3. four <=> IsCont(b1) /\ b1 >= 144 /\ IsCont(b2) /\ IsCont(b3)
        BY <1>2, <3>1 DEF four, Four
      <4>. QED
        BY <1>8, <4>1, <4>2, <4>3, Zenon DEF FourBytes
    <3>2. CASE b0 = 244
      <4>1. Within(s, p, 244, 244) /\ ~Within(s, p, 240, 240) /\ ~Within(s, p, 241, 243)
        BY <1>2, <1>4, <3>2
      <4>2. Within(s, p + 1, 128, 143) <=> IsCont(b1) /\ b1 <= 143
        BY <1>2, <1>5, <1>9
      <4>3. four <=> IsCont(b1) /\ b1 <= 143 /\ IsCont(b2) /\ IsCont(b3)
        BY <1>2, <3>2 DEF four, Four
      <4>. QED
        BY <1>8, <4>1, <4>2, <4>3, Zenon DEF FourBytes
    <3>3. CASE b0 \in 241 .. 243
      <4>1. Within(s, p, 241, 243) /\ ~Within(s, p, 240, 240) /\ ~Within(s, p, 244, 244)
        BY <1>2, <1>4, <3>3
      <4>2. four <=> IsCont(b1) /\ IsCont(b2) /\ IsCont(b3)
        BY <1>2, <3>3 DEF four, Four
      <4>. QED
        BY <1>8, <4>1, <4>2, Zenon DEF FourBytes
    <3>4. CASE b0 \notin 240 .. 244
      <4>1. ~Within(s, p, 240, 240) /\ ~Within(s, p, 244, 244) /\ ~Within(s, p, 241, 243)
        BY <1>2, <1>4, <3>4
      <4>2. ~four
        BY <1>2, <3>4 DEF four, Four
      <4>. QED
        BY <4>1, <4>2 DEF FourBytes
    <3>. QED
      BY <1>2, <3>1, <3>2, <3>3, <3>4
  <2>. QED
    BY <2>1, <2>2, <2>3, <2>4
<1>. QED
  BY <1>7 DEF b0, b1, b2, b3, one, two, three, four

\* The length of a character, and that it lies within the buffer.
LEMMA CharacterLengths ==
  ASSUME NEW s \in ByteString, NEW p \in 1 .. Len(s)
  PROVE  /\ One(Byte(s, p)) => WellFormed(s, p) = 1
         /\ Two(Byte(s, p), Byte(s, p + 1)) => WellFormed(s, p) = 2
         /\ Three(Byte(s, p), Byte(s, p + 1), Byte(s, p + 2)) => WellFormed(s, p) = 3
         /\ Four(Byte(s, p), Byte(s, p + 1), Byte(s, p + 2), Byte(s, p + 3))
              => WellFormed(s, p) = 4
         /\ WellFormed(s, p) # 0
              => \/ One(Byte(s, p)) \/ Two(Byte(s, p), Byte(s, p + 1))
                 \/ Three(Byte(s, p), Byte(s, p + 1), Byte(s, p + 2))
                 \/ Four(Byte(s, p), Byte(s, p + 1), Byte(s, p + 2), Byte(s, p + 3))
<1>. DEFINE b0 == Byte(s, p)
            b1 == Byte(s, p + 1)
            b2 == Byte(s, p + 2)
            b3 == Byte(s, p + 3)
<1>1. b0 \in 0 .. 255
  <2>1. p \in Nat \ {0}
    BY LenProperties DEF ByteString
  <2>. QED
    BY <2>1, BytesRead
<1>2. /\ OneByte(s, p) <=> One(b0)
      /\ TwoBytes(s, p) <=> Two(b0, b1)
      /\ ThreeBytes(s, p) <=> Three(b0, b1, b2)
      /\ FourBytes(s, p) <=> Four(b0, b1, b2, b3)
  BY CharactersByBytes
<1>. SUFFICES /\ One(b0) => WellFormed(s, p) = 1
              /\ Two(b0, b1) => WellFormed(s, p) = 2
              /\ Three(b0, b1, b2) => WellFormed(s, p) = 3
              /\ Four(b0, b1, b2, b3) => WellFormed(s, p) = 4
              /\ WellFormed(s, p) # 0
                   => One(b0) \/ Two(b0, b1) \/ Three(b0, b1, b2) \/ Four(b0, b1, b2, b3)
  OBVIOUS
<1>. HIDE DEF b0, b1, b2, b3
<1>3. /\ One(b0) => ~Two(b0, b1) /\ ~Three(b0, b1, b2) /\ ~Four(b0, b1, b2, b3)
      /\ Two(b0, b1) => ~Three(b0, b1, b2) /\ ~Four(b0, b1, b2, b3)
      /\ Three(b0, b1, b2) => ~Four(b0, b1, b2, b3)
  <2>1. One(b0) => b0 < 194
    BY <1>1, SMT DEF One
  <2>2. Two(b0, b1) => ~ (b0 < 194) /\ b0 < 224
    BY <1>1, SMT DEF Two
  <2>3. Three(b0, b1, b2) => ~ (b0 < 194) /\ ~ (b0 < 224) /\ b0 < 240
    BY <1>1, SMT DEF Three
  <2>4. Four(b0, b1, b2, b3) => ~ (b0 < 194) /\ ~ (b0 < 224) /\ ~ (b0 < 240)
    BY <1>1, SMT DEF Four
  <2>. QED
    BY <2>1, <2>2, <2>3, <2>4, Zenon
<1>4. /\ One(b0) => WellFormed(s, p) = 1
      /\ Two(b0, b1) => WellFormed(s, p) = 2
      /\ Three(b0, b1, b2) => WellFormed(s, p) = 3
      /\ Four(b0, b1, b2, b3) => WellFormed(s, p) = 4
      /\ ~ (One(b0) \/ Two(b0, b1) \/ Three(b0, b1, b2) \/ Four(b0, b1, b2, b3))
           => WellFormed(s, p) = 0
  BY <1>2, <1>3, WellFormedCases
<1>. QED
  BY <1>4, Zenon

\* verify_utf8_sequence accepts the characters of the standard, with their lengths, and
\* reads nothing behind the byte 0 of the buffer.
LEMMA VerifyIsStandard ==
  ASSUME NEW s \in ByteString, NEW p \in 1 .. Len(s)
  PROVE  /\ VerifySequence(s, p) = WellFormed(s, p)
         /\ VerifySequence(s, p) \in 0 .. 4
         /\ p + VerifySequence(s, p) <= Len(s) + 1
<1>. DEFINE b0 == Byte(s, p)
            b1 == Byte(s, p + 1)
            b2 == Byte(s, p + 2)
            b3 == Byte(s, p + 3)
<1>1. /\ Len(s) \in Nat /\ p \in Nat \ {0} /\ p + 1 \in Nat \ {0}
      /\ p + 2 \in Nat \ {0} /\ p + 3 \in Nat \ {0}
  BY LenProperties DEF ByteString
<1>2. b0 \in 0 .. 255 /\ b1 \in 0 .. 255 /\ b2 \in 0 .. 255 /\ b3 \in 0 .. 255
  BY <1>1, BytesRead
<1>4. /\ IsCont(b1) => p + 1 <= Len(s) /\ b1 % 64 = b1 - 128
      /\ IsCont(b2) => p + 2 <= Len(s) /\ b2 % 64 = b2 - 128
      /\ IsCont(b3) => p + 3 <= Len(s) /\ b3 % 64 = b3 - 128
  <2>1. /\ IsCont(b1) => 128 <= b1 /\ b1 <= 191
        /\ IsCont(b2) => 128 <= b2 /\ b2 <= 191
        /\ IsCont(b3) => 128 <= b3 /\ b3 <= 191
    BY <1>2, ContinuationByte
  <2>2. /\ b1 # 0 => p + 1 <= Len(s)
        /\ b2 # 0 => p + 2 <= Len(s)
        /\ b3 # 0 => p + 3 <= Len(s)
    BY <1>1, BytesRead
  <2>. HIDE DEF b1, b2, b3
  <2>3. /\ IsCont(b1) => b1 % 64 = b1 - 128
        /\ IsCont(b2) => b2 % 64 = b2 - 128
        /\ IsCont(b3) => b3 % 64 = b3 - 128
    BY <1>2, <2>1
  <2>. QED
    BY <1>2, <2>1, <2>2, <2>3
<1>5. /\ IsCont(b1) <=> 128 <= b1 /\ b1 <= 191
      /\ IsCont(b2) <=> 128 <= b2 /\ b2 <= 191
      /\ IsCont(b3) <=> 128 <= b3 /\ b3 <= 191
  BY <1>2, ContinuationByte
<1>. DEFINE nb == NumBytesInSequence(b0)
            cont == nb > 0 /\ \A n \in 1 .. nb - 1 : IsCont(Byte(s, p + n))
            code == CodePoint(s, p, nb)
            legal == ~Overlong(code, nb) /\ code <= 1114111 /\ ~(55296 <= code /\ code <= 57343)
<1>. DEFINE one == One(b0)
            two == Two(b0, b1)
            three == Three(b0, b1, b2)
            four == Four(b0, b1, b2, b3)
<1>3. /\ one => WellFormed(s, p) = 1
      /\ two => WellFormed(s, p) = 2
      /\ three => WellFormed(s, p) = 3
      /\ four => WellFormed(s, p) = 4
      /\ ~one /\ ~two /\ ~three /\ ~four => WellFormed(s, p) = 0
  BY CharacterLengths
<1>6. VerifySequence(s, p) = IF cont /\ legal THEN nb ELSE 0
  BY SMT DEF VerifySequence, b0
<1>. HIDE DEF b0, b1, b2, b3, nb, cont, code, legal, one, two, three, four
<1>7. CASE b0 < 128
  <2>1. nb = 1
    BY <1>2, <1>7, LeadByte DEF nb
  <2>2. cont
    BY <2>1 DEF cont
  <2>3. code = b0
    BY <2>1 DEF code, CodePoint, b0
  <2>4. legal
    <3>1. ~Overlong(b0, 1)
      BY DEF Overlong
    <3>. QED
      BY ONLY SMT, <1>2, <1>7, <2>1, <2>3, <3>1 DEF legal
  <2>5. WellFormed(s, p) = 1
    BY <1>2, <1>7, <1>3 DEF one, One
  <2>. QED
    BY <1>1, <1>6, <2>1, <2>2, <2>4, <2>5
<1>8. CASE b0 \in 128 .. 193 \/ b0 > 244
  <2>1. nb = 0
    BY <1>2, <1>8, LeadByte DEF nb
  <2>2. WellFormed(s, p) = 0
    BY <1>2, <1>8, <1>3 DEF one, two, three, four, One, Two, Three, Four
  <2>. QED
    BY <1>1, <1>6, <2>1, <2>2
<1>9. CASE b0 \in 194 .. 223
  <2>1. nb = 2
    BY <1>2, <1>9, LeadByte DEF nb
  <2>0. b0 % 32 = b0 - 192
    BY <1>2, <1>9
  <2>2. cont <=> IsCont(b1)
    BY <2>1 DEF cont, b1
  <2>3. cont => legal
    <3>1. cont => code = (b0 - 192) * 64 + (b1 - 128)
      BY <1>4, <2>0, <2>1, <2>2 DEF code, CodePoint, b0, b1
    <3>. QED
      BY <1>2, <1>5, <1>9, <2>1, <2>2, <3>1 DEF legal, Overlong
  <2>4. WellFormed(s, p) = IF IsCont(b1) THEN 2 ELSE 0
    <3>1. ~one /\ ~three /\ ~four
      BY <1>2, <1>9 DEF one, three, four, One, Three, Four
    <3>. QED
      BY <1>9, <1>3, <3>1 DEF two, Two
  <2>. QED
    BY <1>1, <1>4, <1>6, <2>1, <2>2, <2>3, <2>4
<1>10. CASE b0 \in 224 .. 239
  <2>1. nb = 3
    BY <1>2, <1>10, LeadByte DEF nb
  <2>0. b0 % 16 = b0 - 224
    BY <1>2, <1>10
  <2>2. cont <=> IsCont(b1) /\ IsCont(b2)
    <3>1. 1 .. nb - 1 = {1, 2}
      BY <2>1
    <3>. QED
      BY <2>1, <3>1 DEF cont, b1, b2
  <2>3. cont => code = ((b0 - 224) * 64 + (b1 - 128)) * 64 + (b2 - 128)
    BY <1>4, <2>0, <2>1, <2>2 DEF code, CodePoint, b0, b1, b2
  <2>4. cont => (legal <=> (b0 = 224 => b1 >= 160) /\ (b0 = 237 => b1 <= 159))
    BY <1>2, <1>5, <1>10, <2>1, <2>2, <2>3 DEF legal, Overlong
  <2>5. WellFormed(s, p) =
          IF IsCont(b1) /\ IsCont(b2) /\ (b0 = 224 => b1 >= 160) /\ (b0 = 237 => b1 <= 159)
          THEN 3 ELSE 0
    <3>1. ~one /\ ~two /\ ~four
      BY <1>2, <1>10 DEF one, two, four, One, Two, Four
    <3>. QED
      BY <1>10, <1>3, <3>1 DEF three, Three
  <2>. QED
    BY <1>1, <1>4, <1>6, <2>1, <2>2, <2>4, <2>5
<1>11. CASE b0 \in 240 .. 244
  <2>1. nb = 4
    BY <1>2, <1>11, LeadByte DEF nb
  <2>0. b0 % 8 = b0 - 240
    BY <1>2, <1>11
  <2>2. cont <=> IsCont(b1) /\ IsCont(b2) /\ IsCont(b3)
    <3>1. 1 .. nb - 1 = {1, 2, 3}
      BY <2>1
    <3>. QED
      BY <2>1, <3>1 DEF cont, b1, b2, b3
  <2>3. cont => code = (((b0 - 240) * 64 + (b1 - 128)) * 64 + (b2 - 128)) * 64 + (b3 - 128)
    BY <1>4, <2>0, <2>1, <2>2 DEF code, CodePoint, b0, b1, b2, b3
  <2>4. cont => (legal <=> (b0 = 240 => b1 >= 144) /\ (b0 = 244 => b1 <= 143))
    BY <1>2, <1>5, <1>11, <2>1, <2>2, <2>3 DEF legal, Overlong
  <2>5. WellFormed(s, p) =
          IF /\ IsCont(b1) /\ IsCont(b2) /\ IsCont(b3)
             /\ b0 = 240 => b1 >= 144
             /\ b0 = 244 => b1 <= 143
          THEN 4 ELSE 0
    <3>1. ~one /\ ~two /\ ~three
      BY <1>2, <1>11 DEF one, two, three, One, Two, Three
    <3>. QED
      BY <1>11, <1>3, <3>1 DEF four, Four
  <2>. QED
    BY <1>1, <1>4, <1>6, <2>1, <2>2, <2>4, <2>5
<1>. QED
  BY <1>2, <1>7, <1>8, <1>9, <1>10, <1>11

-----------------------------------------------------------------------------
(* The loop of is_valid_utf8.                                              *)

LEMMA LeastNatural ==
  ASSUME NEW D, D \subseteq Nat, D # {}
  PROVE  \E d \in D : \A e \in D : d <= e
<1>1. PICK d \in D : \A e \in D : ~ (<<e, d>> \in OpToRel(<, Nat))
  BY NatLessThanWellFounded, WFMin
<1>2. \A e \in D : ~(e < d)
  BY <1>1 DEF OpToRel
<1>. QED
  BY <1>2

LEMMA GreatestUpTo ==
  ASSUME NEW M \in Nat, NEW S, S \subseteq 0 .. M, S # {}
  PROVE  \E m \in S : \A k \in S : k <= m
<1>. DEFINE D == {d \in 0 .. M : M - d \in S}
<1>1. D \subseteq Nat /\ D # {}
  <2>1. PICK k \in S : TRUE
    OBVIOUS
  <2>2. M - k \in 0 .. M /\ M - (M - k) = k
    OBVIOUS
  <2>3. M - k \in D
    BY <2>2
  <2>4. D \subseteq Nat
    OBVIOUS
  <2>. QED
    BY <2>3, <2>4
<1>2. PICK d \in D : \A e \in D : d <= e
  BY <1>1, LeastNatural
<1>3. ASSUME NEW k \in S
      PROVE  k <= M - d
  <2>1. M - k \in 0 .. M /\ M - (M - k) = k
    OBVIOUS
  <2>2. M - k \in D
    BY <2>1
  <2>3. d <= M - k
    BY <1>2, <2>2
  <2>. QED
    BY <2>1, <2>3
<1>. QED
  BY <1>3

Positions == Nat \ {0}

\* A character leads the loop on.
LEMMA Advance ==
  ASSUME NEW p \in Positions, NEW v \in 0 .. 4
  PROVE  /\ p + v \in Positions
         /\ v # 0 => \A q \in Positions : p >= q => p + v # q
BY DEF Positions

\* A pass of the loop at p, when end says where it comes to from every position.
Pass(s, n, end, p) ==
  IF p > n THEN p
  ELSE IF VerifySequence(s, p) = 0 THEN 0 ELSE end[p + VerifySequence(s, p)]

\* The loop ends: there is a function that says where it comes to.
LEMMA LoopEnds ==
  ASSUME NEW s \in ByteString, NEW n \in 0 .. Len(s)
  PROVE  \E end : end = [p \in Positions |-> Pass(s, n, end, p)]
<1>. DEFINE Solves(g, m) == \A p \in Positions : p >= m => g[p] = Pass(s, n, g, p)
            D == {m \in Positions : \E g \in [Positions -> Nat] : Solves(g, m)}
<1>1. Len(s) \in Nat /\ n \in Nat /\ n + 1 \in Positions
  BY LenProperties DEF ByteString, Positions
<1>2. \A p \in 1 .. n : VerifySequence(s, p) \in 0 .. 4
  <2>1. \A p \in 1 .. n : p \in 1 .. Len(s)
    BY <1>1
  <2>. QED
    BY <2>1, VerifyIsStandard
<1>3. n + 1 \in D
  <2>. DEFINE g == [p \in Positions |-> p]
  <2>1. g \in [Positions -> Nat]
    BY DEF Positions
  <2>2. Solves(g, n + 1)
    BY <1>1 DEF Pass, Positions
  <2>. QED
    BY <1>1, <2>1, <2>2
<1>4. PICK m \in D : \A k \in D : m <= k
  <2>1. D \subseteq Nat
    BY DEF Positions
  <2>. QED
    BY <1>3, <2>1, LeastNatural
<1>5. m \in Positions /\ m <= n + 1
  BY <1>3, <1>4
<1>6. PICK g \in [Positions -> Nat] : Solves(g, m)
  BY <1>4
<1>7. m = 1
  <2>. SUFFICES ASSUME m # 1
                PROVE  FALSE
    OBVIOUS
  <2>. DEFINE q == m - 1
              h == [g EXCEPT ![q] = Pass(s, n, g, q)]
  <2>1. q \in 1 .. n /\ q \in Positions
    BY <1>1, <1>5 DEF Positions
  <2>2. VerifySequence(s, q) \in 0 .. 4
    BY <1>2, <2>1
  <2>3. Pass(s, n, g, q) \in Nat
    <3>1. CASE VerifySequence(s, q) = 0
      BY <1>1, <2>1, <3>1 DEF Pass
    <3>2. CASE VerifySequence(s, q) # 0
      <4>1. q + VerifySequence(s, q) \in Positions
        BY <2>1, <2>2, Advance
      <4>2. g[q + VerifySequence(s, q)] \in Nat
        BY <4>1
      <4>. QED
        BY <1>1, <2>1, <3>2, <4>2 DEF Pass
    <3>. QED
      BY <3>1, <3>2
  <2>4. h \in [Positions -> Nat]
    BY <2>1, <2>3
  <2>5. ASSUME NEW p \in Positions, p >= q
        PROVE  h[p] = Pass(s, n, h, p)
    <3>1. Pass(s, n, h, p) = Pass(s, n, g, p)
      <4>1. CASE p > n
        BY <4>1 DEF Pass
      <4>2. CASE ~ (p > n)
        <5>1. VerifySequence(s, p) \in 0 .. 4
          BY <1>1, <1>2, <4>2 DEF Positions
        <5>2. VerifySequence(s, p) # 0
                => p + VerifySequence(s, p) \in Positions /\ p + VerifySequence(s, p) # q
          BY <2>1, <2>5, <5>1, Advance
        <5>. QED
          BY <2>1, <4>2, <5>2 DEF Pass
      <4>. QED
        BY <4>1, <4>2
    <3>2. h[p] = Pass(s, n, g, p)
      <4>1. CASE p = q
        BY <2>1, <4>1
      <4>2. CASE p # q
        <5>1. p >= m
          BY <1>5, <2>5, <4>2 DEF Positions
        <5>. QED
          BY <1>6, <4>2, <5>1
      <4>. QED
        BY <4>1, <4>2
    <3>. QED
      BY <3>1, <3>2
  <2>6. q \in D
    BY <2>1, <2>4, <2>5
  <2>7. m <= q
    BY <1>4, <2>6
  <2>. QED
    BY <1>5, <2>7 DEF Positions
<1>8. g = [p \in Positions |-> Pass(s, n, g, p)]
  <2>1. \A p \in Positions : g[p] = Pass(s, n, g, p)
    BY <1>6, <1>7 DEF Positions
  <2>. QED
    BY <2>1
<1>. QED
  BY <1>8

\* LoopEnd is such a function.
LEMMA LoopUnfolds ==
  ASSUME NEW s \in ByteString, NEW n \in 0 .. Len(s), NEW p \in Positions
  PROVE  LoopEnd(s, n)[p] = Pass(s, n, LoopEnd(s, n), p)
<1>1. PICK g : g = [q \in Positions |-> Pass(s, n, g, q)]
  BY LoopEnds
<1>2. LoopEnd(s, n) = [q \in Positions |-> Pass(s, n, LoopEnd(s, n), q)]
  BY <1>1, Zenon DEF LoopEnd, Pass, Positions
<1>. QED
  BY <1>2

-----------------------------------------------------------------------------
(* is_valid_utf8 accepts the rows of characters of the standard.           *)

\* A row of characters and one more are a row of characters.
LEMMA SplitsExtended ==
  ASSUME NEW s \in ByteString, NEW p \in 1 .. Len(s), Splits(s, p), WellFormed(s, p) > 0
  PROVE  Splits(s, p + WellFormed(s, p))
<1>. DEFINE w == WellFormed(s, p)
            r == p + w
<1>1. w \in 1 .. 4 /\ p \in Positions /\ r \in Positions /\ p < r
  <2>1. w \in 0 .. 4
    BY VerifyIsStandard
  <2>2. Len(s) \in Nat
    BY LenProperties DEF ByteString
  <2>. QED
    BY <2>1, <2>2 DEF Positions
<1>2. PICK B \in SUBSET (1 .. p) :
        /\ {1, p} \subseteq B
        /\ \A q \in B \ {p} : WellFormed(s, q) > 0 /\ q + WellFormed(s, q) \in B
  BY DEF Splits
<1>. DEFINE C == B \union {r}
<1>. HIDE DEF w
<1>3. C \in SUBSET (1 .. r) /\ {1, r} \subseteq C
  BY <1>1, <1>2 DEF Positions
<1>4. ASSUME NEW q \in C \ {r}
      PROVE  WellFormed(s, q) > 0 /\ q + WellFormed(s, q) \in C
  <2>1. CASE q = p
    BY <2>1 DEF w
  <2>2. CASE q # p
    BY <1>2, <2>2
  <2>. QED
    BY <2>1, <2>2
<1>5. Splits(s, r)
  BY <1>3, <1>4 DEF Splits
<1>. QED
  BY <1>5 DEF w

\* If the loop accepts, it stands behind a row of characters.
LEMMA AcceptedSplits ==
  ASSUME NEW s \in ByteString, NEW n \in 0 .. Len(s), IsValidUtf8(s, n)
  PROVE  \E p \in n + 1 .. Len(s) + 1 : Splits(s, p)
<1>. DEFINE end == LoopEnd(s, n)
            Q == {q \in 1 .. Len(s) + 1 : end[q] > 0 /\ Splits(s, q)}
<1>1. Len(s) \in Nat /\ n \in Nat
  BY LenProperties DEF ByteString
<1>2. 1 \in Q
  <2>1. Splits(s, 1)
    <3>1. {1} \in SUBSET (1 .. 1) /\ {1, 1} \subseteq {1}
      OBVIOUS
    <3>2. \A q \in {1} \ {1} : WellFormed(s, q) > 0 /\ q + WellFormed(s, q) \in {1}
      OBVIOUS
    <3>. QED
      BY <3>1, <3>2 DEF Splits
  <2>. QED
    BY <1>1, <2>1 DEF IsValidUtf8
<1>3. PICK q \in Q : \A k \in Q : k <= q
  <2>1. Q \subseteq 0 .. Len(s) + 1 /\ Len(s) + 1 \in Nat
    BY <1>1
  <2>. HIDE DEF Q
  <2>. QED
    BY <1>2, <2>1, GreatestUpTo
<1>4. q \in 1 .. Len(s) + 1 /\ end[q] > 0 /\ Splits(s, q)
  OBVIOUS
<1>5. q > n
  <2>. SUFFICES ASSUME ~ (q > n)
                PROVE  FALSE
    OBVIOUS
  <2>1. q \in 1 .. Len(s) /\ q \in Positions
    BY <1>1, <1>4 DEF Positions
  <2>2. /\ VerifySequence(s, q) = WellFormed(s, q)
        /\ VerifySequence(s, q) \in 0 .. 4
        /\ q + VerifySequence(s, q) <= Len(s) + 1
    BY <2>1, VerifyIsStandard
  <2>3. end[q] = IF VerifySequence(s, q) = 0 THEN 0 ELSE end[q + VerifySequence(s, q)]
    BY <2>1, LoopUnfolds DEF Pass
  <2>. HIDE DEF end
  <2>4. VerifySequence(s, q) # 0 /\ end[q + VerifySequence(s, q)] > 0
    BY <1>4, <2>3
  <2>5. WellFormed(s, q) \in 1 .. 4 /\ q + WellFormed(s, q) <= Len(s) + 1
    BY <2>2, <2>4
  <2>6. Splits(s, q + WellFormed(s, q)) /\ end[q + WellFormed(s, q)] > 0
    BY <1>4, <2>1, <2>2, <2>4, <2>5, SplitsExtended
  <2>7. q + WellFormed(s, q) \in 1 .. Len(s) + 1 /\ ~ (q + WellFormed(s, q) <= q)
    BY <1>1, <2>1, <2>5
  <2>8. q + WellFormed(s, q) \in Q
    BY <2>6, <2>7
  <2>. QED
    BY <1>3, <2>7, <2>8
<1>. QED
  BY <1>1, <1>4, <1>5

\* A row of characters that covers the length is accepted.
LEMMA SplitsAccepted ==
  ASSUME NEW s \in ByteString, NEW n \in 0 .. Len(s),
         NEW p \in n + 1 .. Len(s) + 1, Splits(s, p)
  PROVE  IsValidUtf8(s, n)
<1>. DEFINE end == LoopEnd(s, n)
<1>1. Len(s) \in Nat /\ n \in Nat /\ p \in Nat
  BY LenProperties DEF ByteString
<1>2. PICK B \in SUBSET (1 .. p) :
        /\ {1, p} \subseteq B
        /\ \A q \in B \ {p} : WellFormed(s, q) > 0 /\ q + WellFormed(s, q) \in B
  BY DEF Splits
<1>. DEFINE S == {q \in B : ~ (end[q] > 0)}
<1>3. S = {}
  <2>. SUFFICES ASSUME S # {}
                PROVE  FALSE
    OBVIOUS
  <2>1. PICK q \in S : \A k \in S : k <= q
    <3>1. S \subseteq 0 .. p
      <4>1. S \subseteq B /\ B \subseteq 1 .. p
        OBVIOUS
      <4>2. 1 .. p \subseteq 0 .. p
        BY <1>1
      <4>. QED
        BY <4>1, <4>2, Zenon
    <3>. HIDE DEF S
    <3>. QED
      BY <1>1, <3>1, GreatestUpTo
  <2>2. q \in B /\ q \in 1 .. p /\ q \in Positions /\ ~ (end[q] > 0)
    BY <1>1 DEF Positions
  <2>3. end[q] = Pass(s, n, end, q)
    BY <2>2, LoopUnfolds
  <2>. HIDE DEF end
  <2>4. ~ (q > n)
    BY <1>1, <2>2, <2>3 DEF Pass
  <2>5. q # p /\ q \in 1 .. Len(s)
    BY <1>1, <2>2, <2>4
  <2>6. WellFormed(s, q) > 0 /\ q + WellFormed(s, q) \in B
    BY <1>2, <2>2, <2>5
  <2>7. VerifySequence(s, q) = WellFormed(s, q) /\ WellFormed(s, q) \in 1 .. 4
    <3>1. VerifySequence(s, q) = WellFormed(s, q) /\ VerifySequence(s, q) \in 0 .. 4
      BY <2>5, VerifyIsStandard
    <3>. QED
      BY <2>6, <3>1
  <2>8. end[q] = end[q + WellFormed(s, q)]
    BY <2>3, <2>4, <2>7 DEF Pass
  <2>9. q + WellFormed(s, q) \in S
    BY <2>2, <2>6, <2>8
  <2>. QED
    BY <2>1, <2>2, <2>7, <2>9
<1>. QED
  BY <1>2, <1>3 DEF IsValidUtf8

\* Bytes behind a buffer change none of its characters.
LEMMA CharacterKept ==
  ASSUME NEW s \in ByteString, NEW e \in ByteString, NEW p \in 1 .. Len(s),
         WellFormed(s, p) > 0
  PROVE  WellFormed(s \o e, p) = WellFormed(s, p)
<1>. DEFINE t == s \o e
<1>1. /\ t \in ByteString /\ Len(s) \in Nat /\ Len(t) \in Nat /\ Len(s) <= Len(t)
      /\ \A q \in 1 .. Len(s) : t[q] = s[q]
  <2>1. Len(s) \in Nat /\ Len(e) \in Nat
    BY LenProperties DEF ByteString
  <2>2. t \in ByteString /\ Len(t) = Len(s) + Len(e)
    BY ConcatProperties DEF ByteString
  <2>3. \A q \in 1 .. Len(s) + Len(e) : t[q] = IF q <= Len(s) THEN s[q] ELSE e[q - Len(s)]
    BY ConcatProperties DEF ByteString
  <2>. QED
    BY <2>1, <2>2, <2>3
<1>2. p \in 1 .. Len(t) /\ p \in Nat \ {0}
  BY <1>1
<1>. HIDE DEF t
<1>3. ASSUME NEW q \in Nat \ {0}, Byte(s, q) # 0
      PROVE  Byte(t, q) = Byte(s, q)
  <2>1. q \in 1 .. Len(s) /\ q <= Len(t)
    BY <1>1, <1>3, BytesRead
  <2>. QED
    BY <1>1, <2>1, BytesRead
<1>. DEFINE b0 == Byte(s, p)
            b1 == Byte(s, p + 1)
            b2 == Byte(s, p + 2)
            b3 == Byte(s, p + 3)
            c0 == Byte(t, p)
            c1 == Byte(t, p + 1)
            c2 == Byte(t, p + 2)
            c3 == Byte(t, p + 3)
<1>4. /\ p + 1 \in Nat \ {0} /\ p + 2 \in Nat \ {0} /\ p + 3 \in Nat \ {0}
      /\ b0 \in 0 .. 255 /\ b1 \in 0 .. 255 /\ b2 \in 0 .. 255 /\ b3 \in 0 .. 255
  <2>1. p + 1 \in Nat \ {0} /\ p + 2 \in Nat \ {0} /\ p + 3 \in Nat \ {0}
    BY <1>2
  <2>. QED
    BY <1>2, <2>1, BytesRead
<1>5. c0 = b0
  BY <1>1, <1>2, BytesRead
<1>6. /\ IsCont(b1) => c1 = b1
      /\ IsCont(b2) => c2 = b2
      /\ IsCont(b3) => c3 = b3
  <2>1. /\ IsCont(b1) => b1 # 0
        /\ IsCont(b2) => b2 # 0
        /\ IsCont(b3) => b3 # 0
    <3>1. ASSUME NEW b \in 0 .. 255, IsCont(b)
          PROVE  b # 0
      BY <3>1, ContinuationByte
    <3>. QED
      BY <1>4, <3>1
  <2>. QED
    BY <1>3, <1>4, <2>1
<1>7. /\ One(b0) => WellFormed(s, p) = 1
      /\ Two(b0, b1) => WellFormed(s, p) = 2
      /\ Three(b0, b1, b2) => WellFormed(s, p) = 3
      /\ Four(b0, b1, b2, b3) => WellFormed(s, p) = 4
      /\ One(b0) \/ Two(b0, b1) \/ Three(b0, b1, b2) \/ Four(b0, b1, b2, b3)
  BY CharacterLengths
<1>8. /\ One(c0) => WellFormed(t, p) = 1
      /\ Two(c0, c1) => WellFormed(t, p) = 2
      /\ Three(c0, c1, c2) => WellFormed(t, p) = 3
      /\ Four(c0, c1, c2, c3) => WellFormed(t, p) = 4
  BY <1>1, <1>2, CharacterLengths
<1>. HIDE DEF b0, b1, b2, b3, c0, c1, c2, c3
<1>9. /\ Two(b0, b1) => c1 = b1
      /\ Three(b0, b1, b2) => c1 = b1 /\ c2 = b2
      /\ Four(b0, b1, b2, b3) => c1 = b1 /\ c2 = b2 /\ c3 = b3
  BY <1>6, Zenon DEF Two, Three, Four
<1>10. WellFormed(t, p) = WellFormed(s, p)
  BY <1>5, <1>7, <1>8, <1>9, Zenon
<1>. QED
  BY <1>10 DEF t

\* So a row of characters stays one.
LEMMA SplitsKept ==
  ASSUME NEW s \in ByteString, NEW e \in ByteString, Splits(s, Len(s) + 1)
  PROVE  Splits(s \o e, Len(s) + 1)
<1>. DEFINE p == Len(s) + 1
<1>1. Len(s) \in Nat
  BY LenProperties DEF ByteString
<1>2. PICK B \in SUBSET (1 .. p) :
        /\ {1, p} \subseteq B
        /\ \A q \in B \ {p} : WellFormed(s, q) > 0 /\ q + WellFormed(s, q) \in B
  BY DEF Splits
<1>3. ASSUME NEW q \in B \ {p}
      PROVE  WellFormed(s \o e, q) > 0 /\ q + WellFormed(s \o e, q) \in B
  <2>1. q \in 1 .. Len(s)
    BY <1>1
  <2>2. WellFormed(s, q) > 0 /\ q + WellFormed(s, q) \in B
    BY <1>2
  <2>. QED
    BY <2>1, <2>2, CharacterKept
<1>. QED
  BY <1>2, <1>3 DEF Splits

-----------------------------------------------------------------------------
(* What parse_utf16 writes.                                                *)

\* The code points but the surrogates.
Scalar(cp) == cp <= 1114111 /\ ~ (55296 <= cp /\ cp <= 57343)

\* The last six bits of a number and those before.
Low(x) == x % 64
High(x) == x \div 64

LEMMA Sixes ==
  ASSUME NEW x \in Nat
  PROVE  /\ High(x) \in Nat /\ Low(x) \in 0 .. 63 /\ x = 64 * High(x) + Low(x)
         /\ x \div 4096 = High(High(x))
         /\ x \div 262144 = High(High(High(x)))
BY SMT DEF Low, High

\* The bits that a byte carries.
LEMMA CarriedBits ==
  /\ \A x \in 0 .. 63 : (128 + x) % 64 = x
  /\ \A x \in 0 .. 31 : (192 + x) % 32 = x /\ x % 32 = x
  /\ \A x \in 0 .. 15 : (224 + x) % 16 = x /\ x % 16 = x
  /\ \A x \in 0 .. 7 : (240 + x) % 8 = x /\ x % 8 = x
BY SMT

\* A code point by the bits its bytes carry.
LEMMA EncodedInTwo ==
  ASSUME NEW cp \in Nat, 128 <= cp, cp < 2048,
         NEW u, u = High(cp), NEW v, v = Low(cp)
  PROVE  /\ u \in Nat /\ 2 <= u /\ u <= 31 /\ v \in Nat /\ v <= 63
         /\ Encode(cp) = <<192 + u, 128 + v>>
         /\ cp = u * 64 + v
<1>2. u \in Nat /\ v \in 0 .. 63 /\ cp = 64 * u + v
  BY Sixes, SMT
<1>3. u \in 2 .. 31 /\ cp = u * 64 + v
  BY <1>2, SMT
<1>4. u % 32 = u
  BY <1>3, SMT
<1>5. Encode(cp) = <<192 + (u % 32), 128 + v>>
  <2>1. ~ (cp < 128) /\ cp < 2048
    BY SMT
  <2>. QED
    BY <2>1, SMT DEF Encode, High, Low
<1>. QED
  BY <1>2, <1>3, <1>4, <1>5, SMT

LEMMA EncodedInThree ==
  ASSUME NEW cp \in Nat, 2048 <= cp, cp < 65536,
         NEW u, u = High(High(cp)), NEW v, v = Low(High(cp)), NEW w, w = Low(cp)
  PROVE  /\ u \in Nat /\ u <= 15 /\ v \in Nat /\ v <= 63 /\ w \in Nat /\ w <= 63
         /\ Encode(cp) = <<224 + u, 128 + v, 128 + w>>
         /\ cp = (u * 64 + v) * 64 + w
<1>2. /\ High(cp) \in Nat /\ w \in 0 .. 63 /\ cp = 64 * High(cp) + w
      /\ cp \div 4096 = u
  BY Sixes, SMT
<1>3. u \in Nat /\ v \in 0 .. 63 /\ High(cp) = 64 * u + v
  BY <1>2, Sixes, SMT
<1>4. Encode(cp) = <<224 + ((cp \div 4096) % 16), 128 + v, 128 + w>>
  <2>1. ~ (cp < 128) /\ ~ (cp < 2048) /\ cp < 65536
    BY SMT
  <2>. QED
    BY <2>1, SMT DEF Encode, High, Low
<1>5. u \in 0 .. 15 /\ cp = (u * 64 + v) * 64 + w
  BY <1>2, <1>3, SMT
<1>6. u % 16 = u
  BY <1>5, SMT
<1>7. Encode(cp) = <<224 + u, 128 + v, 128 + w>>
  BY <1>2, <1>4, <1>6, SMT
<1>8. u \in Nat /\ u <= 15 /\ v \in Nat /\ v <= 63 /\ w \in Nat /\ w <= 63
  <2>1. w \in Nat /\ w <= 63
    BY ONLY <1>2, SMT
  <2>2. v \in Nat /\ v <= 63
    BY ONLY <1>3, SMT
  <2>3. u \in Nat /\ u <= 15
    BY ONLY <1>5, SMT
  <2>. QED
    BY ONLY <2>1, <2>2, <2>3, SMT
<1>. QED
  BY ONLY <1>5, <1>7, <1>8, SMT

LEMMA EncodedInFour ==
  ASSUME NEW cp \in Nat, 65536 <= cp, Scalar(cp),
         NEW t, t = High(High(High(cp))), NEW u, u = Low(High(High(cp))),
         NEW v, v = Low(High(cp)), NEW w, w = Low(cp)
  PROVE  /\ t \in Nat /\ t <= 4 /\ u \in Nat /\ u <= 63
         /\ v \in Nat /\ v <= 63 /\ w \in Nat /\ w <= 63
         /\ Encode(cp) = <<240 + t, 128 + u, 128 + v, 128 + w>>
         /\ cp = ((t * 64 + u) * 64 + v) * 64 + w
<1>2. /\ High(cp) \in Nat /\ w \in 0 .. 63 /\ cp = 64 * High(cp) + w
      /\ cp \div 4096 = High(High(cp)) /\ cp \div 262144 = t
  BY Sixes, SMT
<1>3. High(High(cp)) \in Nat /\ v \in 0 .. 63 /\ High(cp) = 64 * High(High(cp)) + v
  BY <1>2, Sixes, SMT
<1>4. t \in Nat /\ u \in 0 .. 63 /\ High(High(cp)) = 64 * t + u
  BY <1>3, Sixes, SMT
<1>5. Encode(cp) = <<240 + ((cp \div 262144) % 8), 128 + ((cp \div 4096) % 64),
                     128 + v, 128 + w>>
  <2>1. ~ (cp < 128) /\ ~ (cp < 2048) /\ ~ (cp < 65536)
    BY SMT
  <2>. QED
    BY <2>1, SMT DEF Encode, High, Low
<1>6. (cp \div 4096) % 64 = u
  BY <1>2, SMT DEF Low
<1>7. t \in 0 .. 4 /\ cp = ((t * 64 + u) * 64 + v) * 64 + w
  <2>. DEFINE h == High(cp)
              g == High(High(cp))
  <2>1. /\ h \in Nat /\ w \in Nat /\ cp = 64 * h + w
        /\ g \in Nat /\ v \in Nat /\ h = 64 * g + v
        /\ t \in Nat /\ u \in Nat /\ g = 64 * t + u
        /\ cp <= 1114111
    BY <1>2, <1>3, <1>4, SMT DEF Scalar
  <2>. HIDE DEF h, g
  <2>2. t <= 4
    <3>. SUFFICES ASSUME ~ (t <= 4)
                  PROVE  FALSE
      OBVIOUS
    <3>1. g >= 320
      BY ONLY <2>1, ~ (t <= 4), SMT
    <3>2. h >= 20480
      BY ONLY <2>1, <3>1, SMT
    <3>. QED
      BY ONLY <2>1, <3>2, SMT
  <2>3. cp = ((t * 64 + u) * 64 + v) * 64 + w
    BY ONLY <2>1, SMT
  <2>. QED
    BY ONLY <2>1, <2>2, <2>3, SMT
<1>8. t % 8 = t
  BY <1>7, SMT
<1>9. Encode(cp) = <<240 + t, 128 + u, 128 + v, 128 + w>>
  BY <1>2, <1>5, <1>6, <1>8, SMT
<1>10. /\ t \in Nat /\ t <= 4 /\ u \in Nat /\ u <= 63
       /\ v \in Nat /\ v <= 63 /\ w \in Nat /\ w <= 63
  <2>1. w \in Nat /\ w <= 63
    BY ONLY <1>2, SMT
  <2>2. v \in Nat /\ v <= 63
    BY ONLY <1>3, SMT
  <2>3. u \in Nat /\ u <= 63
    BY ONLY <1>4, SMT
  <2>4. t \in Nat /\ t <= 4
    BY ONLY <1>7, SMT
  <2>. QED
    BY ONLY <2>1, <2>2, <2>3, <2>4, SMT
<1>. QED
  BY ONLY <1>7, <1>9, <1>10, SMT

\* The byte behind a buffer and i more is a byte of what is appended.
LEMMA AppendedBytes ==
  ASSUME NEW s \in ByteString, NEW e \in ByteString, NEW i \in Nat, i < Len(e)
  PROVE  /\ s \o e \in ByteString
         /\ Len(s \o e) = Len(s) + Len(e)
         /\ Len(s) \in Nat /\ Len(e) \in Nat
         /\ Len(s) + 1 \in 1 .. Len(s \o e)
         /\ Byte(s \o e, Len(s) + 1 + i) = e[i + 1]
<1>. DEFINE t == s \o e
            q == Len(s) + 1 + i
<1>1. Len(s) \in Nat /\ Len(e) \in Nat
  BY LenProperties DEF ByteString
<1>2. t \in ByteString /\ Len(t) = Len(s) + Len(e)
  BY ConcatProperties DEF ByteString
<1>3. \A k \in 1 .. Len(s) + Len(e) : t[k] = IF k <= Len(s) THEN s[k] ELSE e[k - Len(s)]
  BY ConcatProperties DEF ByteString
<1>4. q \in 1 .. Len(s) + Len(e) /\ ~ (q <= Len(s)) /\ q - Len(s) = i + 1
  BY <1>1
<1>5. t[q] = e[i + 1]
  BY <1>3, <1>4
<1>6. Byte(t, q) = t[q]
  BY <1>2, <1>4 DEF Byte
<1>. HIDE DEF t, q
<1>7. Byte(t, q) = e[i + 1]
  BY <1>5, <1>6
<1>8. Len(s) + 1 \in 1 .. Len(t)
  BY <1>1, <1>2
<1>. QED
  BY <1>1, <1>2, <1>7, <1>8 DEF t, q

\* A code point of two to four bytes by the bits they carry.
LEMMA CodePointBits ==
  ASSUME NEW s, NEW p
  PROVE  /\ CodePoint(s, p, 1) = Byte(s, p)
         /\ CodePoint(s, p, 2) = (Byte(s, p) % 32) * 64 + (Byte(s, p + 1) % 64)
         /\ CodePoint(s, p, 3) =
              ((Byte(s, p) % 16) * 64 + (Byte(s, p + 1) % 64)) * 64 + (Byte(s, p + 2) % 64)
         /\ CodePoint(s, p, 4) =
              (((Byte(s, p) % 8) * 64 + (Byte(s, p + 1) % 64)) * 64
                 + (Byte(s, p + 2) % 64)) * 64 + (Byte(s, p + 3) % 64)
<1>1. CodePoint(s, p, 1) = Byte(s, p)
  BY SMT DEF CodePoint
<1>2. CodePoint(s, p, 2) = (Byte(s, p) % 32) * 64 + (Byte(s, p + 1) % 64)
  BY SMT DEF CodePoint
<1>3. CodePoint(s, p, 3) =
        ((Byte(s, p) % 16) * 64 + (Byte(s, p + 1) % 64)) * 64 + (Byte(s, p + 2) % 64)
  BY SMT DEF CodePoint
<1>4. CodePoint(s, p, 4) =
        (((Byte(s, p) % 8) * 64 + (Byte(s, p + 1) % 64)) * 64
           + (Byte(s, p + 2) % 64)) * 64 + (Byte(s, p + 3) % 64)
  BY SMT DEF CodePoint
<1>. QED
  BY <1>1, <1>2, <1>3, <1>4

\* A byte that carries six bits.
Carries(v) == 128 + v \in 0 .. 255 /\ IsCont(128 + v) /\ (128 + v) % 64 = v

LEMMA Carrier ==
  ASSUME NEW v \in Nat, v <= 63
  PROVE  Carries(v)
<1>1. v \in 0 .. 63
  OBVIOUS
<1>2. 128 + v \in 0 .. 255 /\ 128 <= 128 + v /\ 128 + v <= 191
  BY <1>1
<1>. QED
  BY <1>1, <1>2, ContinuationByte, CarriedBits DEF Carries

\* t is s and the character e behind it, which begins at p and stands for cp.
CharacterRead(e, s, t, p, cp) ==
  /\ e \in ByteString /\ t \in ByteString /\ p \in 1 .. Len(t)
  /\ Len(t) = Len(s) + Len(e) /\ Len(e) \in 1 .. 4
  /\ WellFormed(t, p) = Len(e)
  /\ CodePoint(t, p, Len(e)) = cp

\* Behind a buffer, what parse_utf16 writes is a character of the standard, and it
\* stands for the code point.
LEMMA EncodedCharacter ==
  ASSUME NEW s \in ByteString,
         NEW cp \in Nat, Scalar(cp)
  PROVE  CharacterRead(Encode(cp), s, s \o Encode(cp), Len(s) + 1, cp)
<1>. PICK e : e = Encode(cp)
  OBVIOUS
<1>. PICK t : t = s \o e
  OBVIOUS
<1>. PICK p : p = Len(s) + 1
  OBVIOUS
<1>. DEFINE b0 == Byte(t, p)
            b1 == Byte(t, p + 1)
            b2 == Byte(t, p + 2)
            b3 == Byte(t, p + 3)
<1>1. ASSUME e \in ByteString, Len(e) \in 1 .. 4
      PROVE  /\ t \in ByteString /\ Len(t) = Len(s) + Len(e) /\ p \in 1 .. Len(t)
             /\ b0 = e[1]
             /\ 1 < Len(e) => b1 = e[2]
             /\ 2 < Len(e) => b2 = e[3]
             /\ 3 < Len(e) => b3 = e[4]
  <2>1. ASSUME NEW i \in 0 .. 3, i < Len(e)
        PROVE  /\ t \in ByteString /\ Len(t) = Len(s) + Len(e) /\ Len(s) \in Nat
               /\ p \in 1 .. Len(t) /\ Byte(t, p + i) = e[i + 1]
    <3>1. i \in Nat
      OBVIOUS
    <3>2. /\ s \o e \in ByteString /\ Len(s \o e) = Len(s) + Len(e) /\ Len(s) \in Nat
          /\ Len(s) + 1 \in 1 .. Len(s \o e)
          /\ Byte(s \o e, Len(s) + 1 + i) = e[i + 1]
      BY <1>1, <2>1, <3>1, AppendedBytes, Zenon
    <3>. QED
      BY <3>2, Zenon
  <2>2. /\ t \in ByteString /\ Len(t) = Len(s) + Len(e) /\ p \in 1 .. Len(t)
        /\ Byte(t, p + 0) = e[0 + 1]
    <3>1. 0 \in 0 .. 3 /\ 0 < Len(e)
      BY ONLY <1>1, SMT
    <3>. QED
      BY <2>1, <3>1, Zenon
  <2>3. p + 0 = p
    BY <2>2
  <2>4. 1 < Len(e) => Byte(t, p + 1) = e[1 + 1]
    BY <2>1
  <2>5. 2 < Len(e) => Byte(t, p + 2) = e[2 + 1]
    BY <2>1
  <2>6. 3 < Len(e) => Byte(t, p + 3) = e[3 + 1]
    BY <2>1
  <2>. QED
    BY <2>2, <2>3, <2>4, <2>5, <2>6
<1>2. ASSUME NEW k \in 1 .. 4, e \in ByteString, Len(e) = k,
             t \in ByteString /\ p \in 1 .. Len(t)
               => WellFormed(t, p) = k /\ CodePoint(t, p, k) = cp
      PROVE  CharacterRead(e, s, t, p, cp)
  <2>1. t \in ByteString /\ Len(t) = Len(s) + Len(e) /\ p \in 1 .. Len(t)
    BY <1>2, <1>1
  <2>. QED
    BY <1>2, <2>1 DEF CharacterRead
<1>3. CASE cp < 128
  <2>1. e = <<cp>> /\ cp \in 0 .. 255
    BY <1>3, SMT DEF Encode
  <2>2. e \in ByteString /\ Len(e) = 1 /\ e[1] = cp
    BY ONLY <2>1, SMT DEF ByteString
  <2>3. t \in ByteString /\ p \in 1 .. Len(t) /\ b0 = cp
    <3>1. Len(e) \in 1 .. 4
      BY <2>2
    <3>. QED
      BY <1>1, <2>2, <3>1, SMT
  <2>4. WellFormed(t, p) = 1
    <3>1. One(b0)
      BY <1>3, <2>3, SMT DEF One
    <3>. QED
      BY <2>3, <3>1, CharacterLengths
  <2>5. CodePoint(t, p, 1) = cp
    BY <2>3, CodePointBits
  <2>. QED
    BY <1>2, <2>2, <2>4, <2>5
<1>4. CASE 128 <= cp /\ cp < 2048
  <2>. DEFINE u == High(cp)
              v == Low(cp)
  <2>0. /\ u \in Nat /\ v \in Nat
        /\ 2 <= u /\ u <= 31 /\ v <= 63
        /\ Encode(cp) = <<192 + u, 128 + v>>
        /\ cp = u * 64 + v
    BY <1>4, EncodedInTwo, SMT
  <2>. HIDE DEF u, v
  <2>1. 192 + u \in 0 .. 255 /\ (192 + u) % 32 = u
    <3>1. u \in Nat /\ u <= 31
      BY <2>0, Zenon
    <3>. QED
      BY ONLY <3>1, SMT
  <2>2. /\ 128 + v \in 0 .. 255 /\ IsCont(128 + v) /\ (128 + v) % 64 = v
    <3>1. v \in Nat /\ v <= 63
      BY <2>0, Zenon
    <3>2. Carries(v)
      BY ONLY <3>1, Carrier, Zenon
    <3>. QED
      BY <3>2, Zenon DEF Carries
  <2>3. /\ e \in ByteString /\ Len(e) = 2
        /\ e[1] = 192 + u /\ e[2] = 128 + v
    <3>1. e = <<192 + u, 128 + v>>
      BY <2>0, Zenon
    <3>2. <<192 + u, 128 + v>> \in Seq(0 .. 255) /\ Len(<<192 + u, 128 + v>>) = 2
      BY <2>1, <2>2, SMT
    <3>. QED
      BY <3>1, <3>2 DEF ByteString
  <2>4. /\ t \in ByteString /\ p \in 1 .. Len(t)
        /\ b0 = 192 + u /\ b1 = 128 + v
    <3>1. Len(e) \in 1 .. 4 /\ 1 < Len(e)
      BY <2>3
    <3>. QED
      BY <1>1, <2>3, <3>1, SMT
  <2>5. WellFormed(t, p) = 2
    <3>1. Two(192 + u, 128 + v)
      BY <1>4, <2>0, <2>2, SMT DEF Two, Scalar
    <3>2. Two(b0, b1)
      BY <2>4, <3>1, Zenon
    <3>. QED
      BY <2>4, <3>2, CharacterLengths
  <2>6. CodePoint(t, p, 2) = cp
    <3>1. CodePoint(t, p, 2) = (b0 % 32) * 64 + (b1 % 64)
      BY CodePointBits
    <3>2. b0 % 32 = u /\ b1 % 64 = v
      BY <2>1, <2>2, <2>4, Zenon
    <3>. QED
      BY <2>0, <3>1, <3>2, ZenonT(60)
  <2>. QED
    BY <1>2, <2>3, <2>5, <2>6
<1>5. CASE 2048 <= cp /\ cp < 65536
  <2>. DEFINE u == High(High(cp))
              v == Low(High(cp))
              w == Low(cp)
  <2>0. /\ u \in Nat /\ v \in Nat /\ w \in Nat
        /\ u <= 15 /\ v <= 63 /\ w <= 63
        /\ Encode(cp) = <<224 + u, 128 + v, 128 + w>>
        /\ cp = (u * 64 + v) * 64 + w
    BY <1>5, EncodedInThree, SMT
  <2>. HIDE DEF u, v, w
  <2>1. 224 + u \in 0 .. 255 /\ (224 + u) % 16 = u
    <3>1. u \in Nat /\ u <= 15
      BY <2>0, Zenon
    <3>. QED
      BY ONLY <3>1, SMT
  <2>2. /\ 128 + v \in 0 .. 255 /\ IsCont(128 + v) /\ (128 + v) % 64 = v
        /\ 128 + w \in 0 .. 255 /\ IsCont(128 + w) /\ (128 + w) % 64 = w
    <3>1. v \in Nat /\ v <= 63 /\ w \in Nat /\ w <= 63
      BY <2>0, Zenon
    <3>2. Carries(v) /\ Carries(w)
      BY ONLY <3>1, Carrier, Zenon
    <3>. QED
      BY <3>2, Zenon DEF Carries
  <2>3. /\ e \in ByteString /\ Len(e) = 3
        /\ e[1] = 224 + u /\ e[2] = 128 + v /\ e[3] = 128 + w
    <3>1. e = <<224 + u, 128 + v, 128 + w>>
      BY <2>0, Zenon
    <3>2. <<224 + u, 128 + v, 128 + w>> \in Seq(0 .. 255) /\ Len(<<224 + u, 128 + v, 128 + w>>) = 3
      BY <2>1, <2>2, SMT
    <3>. QED
      BY <3>1, <3>2 DEF ByteString
  <2>4. /\ t \in ByteString /\ p \in 1 .. Len(t)
        /\ b0 = 224 + u /\ b1 = 128 + v /\ b2 = 128 + w
    <3>1. Len(e) \in 1 .. 4 /\ 1 < Len(e) /\ 2 < Len(e)
      BY <2>3
    <3>. QED
      BY <1>1, <2>3, <3>1, SMT
  <2>5. WellFormed(t, p) = 3
    <3>1. Three(224 + u, 128 + v, 128 + w)
      BY <1>5, <2>0, <2>2, SMT DEF Three, Scalar
    <3>2. Three(b0, b1, b2)
      BY <2>4, <3>1, Zenon
    <3>. QED
      BY <2>4, <3>2, CharacterLengths
  <2>6. CodePoint(t, p, 3) = cp
    <3>1. CodePoint(t, p, 3) = ((b0 % 16) * 64 + (b1 % 64)) * 64 + (b2 % 64)
      BY CodePointBits
    <3>2. b0 % 16 = u /\ b1 % 64 = v /\ b2 % 64 = w
      BY <2>1, <2>2, <2>4, Zenon
    <3>. QED
      BY <2>0, <3>1, <3>2, ZenonT(60)
  <2>. QED
    BY <1>2, <2>3, <2>5, <2>6
<1>6. CASE 65536 <= cp
  <2>. DEFINE r == High(High(High(cp)))
              u == Low(High(High(cp)))
              v == Low(High(cp))
              w == Low(cp)
  <2>0. /\ r \in Nat /\ u \in Nat /\ v \in Nat /\ w \in Nat
        /\ r <= 4 /\ u <= 63 /\ v <= 63 /\ w <= 63
        /\ Encode(cp) = <<240 + r, 128 + u, 128 + v, 128 + w>>
        /\ cp = ((r * 64 + u) * 64 + v) * 64 + w
    BY <1>6, EncodedInFour, SMT
  <2>. HIDE DEF r, u, v, w
  <2>1. 240 + r \in 0 .. 255 /\ (240 + r) % 8 = r
    <3>1. r \in Nat /\ r <= 4
      BY <2>0, Zenon
    <3>. QED
      BY ONLY <3>1, SMT
  <2>2. /\ 128 + u \in 0 .. 255 /\ IsCont(128 + u) /\ (128 + u) % 64 = u
        /\ 128 + v \in 0 .. 255 /\ IsCont(128 + v) /\ (128 + v) % 64 = v
        /\ 128 + w \in 0 .. 255 /\ IsCont(128 + w) /\ (128 + w) % 64 = w
    <3>1. u \in Nat /\ u <= 63 /\ v \in Nat /\ v <= 63 /\ w \in Nat /\ w <= 63
      BY <2>0, Zenon
    <3>2. Carries(u) /\ Carries(v) /\ Carries(w)
      BY ONLY <3>1, Carrier, Zenon
    <3>. QED
      BY <3>2, Zenon DEF Carries
  <2>3. /\ e \in ByteString /\ Len(e) = 4
        /\ e[1] = 240 + r /\ e[2] = 128 + u /\ e[3] = 128 + v /\ e[4] = 128 + w
    <3>1. e = <<240 + r, 128 + u, 128 + v, 128 + w>>
      BY <2>0, Zenon
    <3>2. <<240 + r, 128 + u, 128 + v, 128 + w>> \in Seq(0 .. 255) /\ Len(<<240 + r, 128 + u, 128 + v, 128 + w>>) = 4
      BY <2>1, <2>2, SMT
    <3>. QED
      BY <3>1, <3>2 DEF ByteString
  <2>4. /\ t \in ByteString /\ p \in 1 .. Len(t)
        /\ b0 = 240 + r /\ b1 = 128 + u /\ b2 = 128 + v /\ b3 = 128 + w
    <3>1. Len(e) \in 1 .. 4 /\ 1 < Len(e) /\ 2 < Len(e) /\ 3 < Len(e)
      BY <2>3
    <3>. QED
      BY <1>1, <2>3, <3>1, SMT
  <2>5. WellFormed(t, p) = 4
    <3>1. Four(240 + r, 128 + u, 128 + v, 128 + w)
      BY <1>6, <2>0, <2>2, SMT DEF Four, Scalar
    <3>2. Four(b0, b1, b2, b3)
      BY <2>4, <3>1, Zenon
    <3>. QED
      BY <2>4, <3>2, CharacterLengths
  <2>6. CodePoint(t, p, 4) = cp
    <3>1. CodePoint(t, p, 4) = (((b0 % 8) * 64 + (b1 % 64)) * 64 + (b2 % 64)) * 64 + (b3 % 64)
      BY CodePointBits
    <3>2. b0 % 8 = r /\ b1 % 64 = u /\ b2 % 64 = v /\ b3 % 64 = w
      BY <2>1, <2>2, <2>4, Zenon
    <3>. QED
      BY <2>0, <3>1, <3>2, ZenonT(60)
  <2>. QED
    BY <1>2, <2>3, <2>5, <2>6
<1>7. CharacterRead(e, s, t, p, cp)
  BY <1>3, <1>4, <1>5, <1>6, SMT
<1>. QED
  BY <1>7, Zenon

\* t is valid, and cp is read at p.
CodePointRead(t, p, cp) ==
  IsValidUtf8(t, Len(t)) /\ CodePoint(t, p, VerifySequence(t, p)) = cp

\* A valid buffer stays valid when a code point is written behind it, and the code
\* point is what is read back.
LEMMA CodePointAdded ==
  ASSUME NEW s \in ByteString, Splits(s, Len(s) + 1),
         NEW cp \in Nat, Scalar(cp)
  PROVE  CodePointRead(s \o Encode(cp), Len(s) + 1, cp)
<1>. PICK e : e = Encode(cp)
  OBVIOUS
<1>. PICK t : t = s \o e
  OBVIOUS
<1>. PICK p : p = Len(s) + 1
  OBVIOUS
<1>1. /\ e \in ByteString /\ t \in ByteString /\ p \in 1 .. Len(t)
      /\ Len(t) = Len(s) + Len(e) /\ Len(e) \in 1 .. 4
      /\ WellFormed(t, p) = Len(e)
      /\ CodePoint(t, p, Len(e)) = cp
  <2>1. CharacterRead(Encode(cp), s, s \o Encode(cp), Len(s) + 1, cp)
    BY EncodedCharacter, Zenon
  <2>2. CharacterRead(e, s, t, p, cp)
    BY <2>1, Zenon
  <2>. QED
    BY <2>2, Zenon DEF CharacterRead
<1>2. VerifySequence(t, p) = Len(e)
  BY <1>1, VerifyIsStandard, Zenon
<1>3. Splits(t, p + Len(e))
  <2>1. Splits(t, p)
    BY <1>1, SplitsKept, Zenon
  <2>2. WellFormed(t, p) > 0
    BY <1>1
  <2>. QED
    BY <1>1, <2>1, <2>2, SplitsExtended, Zenon
<1>4. /\ Len(t) \in 0 .. Len(t)
      /\ p + Len(e) \in Len(t) + 1 .. Len(t) + 1
  <2>1. Len(s) \in Nat /\ Len(t) \in Nat
    BY <1>1, LenProperties DEF ByteString
  <2>. QED
    BY <1>1, <2>1
<1>5. IsValidUtf8(t, Len(t))
  BY <1>1, <1>3, <1>4, SplitsAccepted, Zenon
<1>6. CodePointRead(t, p, cp)
  BY <1>1, <1>2, <1>5, Zenon DEF CodePointRead
<1>. QED
  BY <1>6, Zenon

-----------------------------------------------------------------------------
(* The buffers that are reached.                                           *)

\* However a buffer is put together, is_valid_utf8 accepts exactly the rows of
\* characters of the standard, for each length it is told, and what parse_utf16
\* writes behind valid bytes is valid and read back as the code point
\* (parson.c:309-376, 791-817).
THEOREM Utf8StaysWellFormed ==
  ASSUME Bytes \subseteq 0 .. 255,
         CodePoints \subseteq Nat, \A cp \in CodePoints : Scalar(cp)
  PROVE  Utf8Spec => []Utf8WellFormed
<1>. DEFINE Inv == buffer # NULL => buffer \in Seq(Bytes) /\ buffer \in ByteString
<1>1. Utf8Init => Inv
  <2>1. <<>> \in Seq(Bytes) /\ <<>> \in ByteString
    BY DEF ByteString
  <2>2. Utf8Init /\ buffer # NULL => buffer = <<>>
    BY DEF Utf8Init
  <2>. QED
    BY <2>1, <2>2, Zenon
<1>2. Inv /\ [Utf8Next]_buffer => Inv'
  <2>. SUFFICES ASSUME Inv, [Utf8Next]_buffer
                PROVE  Inv'
    OBVIOUS
  <2>1. CASE Utf8Next
    <3>1. PICK b \in Bytes : buffer # NULL /\ buffer' = Append(buffer, b)
      BY <2>1 DEF Utf8Next, AddByte
    <3>. QED
      BY <3>1, AppendProperties DEF ByteString
  <2>2. CASE UNCHANGED buffer
    BY <2>2
  <2>. QED
    BY <2>1, <2>2
<1>3. Inv => Utf8WellFormed
  <2>. SUFFICES ASSUME buffer \in Seq(Bytes), buffer \in ByteString
                PROVE  StrictUtf8 /\ EncodingsValid
    BY Zenon DEF Utf8WellFormed
  <2>1. StrictUtf8
    <3>1. ASSUME NEW n \in 0 .. Len(buffer)
          PROVE  IsValidUtf8(buffer, n)
                   <=> \E p \in n + 1 .. Len(buffer) + 1 : Splits(buffer, p)
      BY AcceptedSplits, SplitsAccepted, Zenon
    <3>. QED
      BY <3>1, Zenon DEF StrictUtf8
  <2>2. EncodingsValid
    <3>. SUFFICES ASSUME Splits(buffer, Len(buffer) + 1), NEW cp \in CodePoints
                  PROVE  CodePointRead(buffer \o Encode(cp), Len(buffer) + 1, cp)
      BY Zenon DEF EncodingsValid, CodePointRead
    <3>1. cp \in Nat /\ Scalar(cp)
      OBVIOUS
    <3>. QED
      BY <3>1, CodePointAdded, Zenon
  <2>. QED
    BY <2>1, <2>2
<1>. QED
  BY <1>1, <1>2, <1>3, PTL DEF Utf8Spec
=============================================================================
