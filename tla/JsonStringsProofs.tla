-------------------------- MODULE JsonStringsProofs --------------------------
(***************************************************************************)
(* Proofs about JsonStrings, for texts of any length.                      *)
(***************************************************************************)
EXTENDS JsonStrings, SequenceTheorems, WellFoundedInduction, TLAPS

CharText == Seq(Chars)

LEMMA CharsKnown ==
  /\ END \notin Chars
  /\ NULL \notin Chars
  /\ {"quote", "\\", "/", "n", "u", "x", "ctl", "nl", "nul", "cp2", "cp3", "cp4"} \subseteq Chars
  /\ Quads \subseteq Chars
  /\ \A c \in Chars : Width(c) \in 1 .. 4
  /\ \A c \in {"quote", "\\", "/", "n", "u", "ctl", "nl", "nul"} : Width(c) = 1
  /\ Width("cp2") = 2 /\ Width("cp3") = 3 /\ Width("cp4") = 4
  /\ \A c \in Quads : Width(c) = 4
<1>1. END \notin Chars
  BY DEF END, Chars, Tokens, Quads, Characters
<1>2. NULL \notin Chars
  BY StringAssumption
<1>3. {"quote", "\\", "/", "n", "u", "x", "ctl", "nl", "nul", "cp2", "cp3", "cp4"} \subseteq Chars
  BY DEF Chars, Tokens, Characters
<1>4. \A c \in Chars : Width(c) \in 1 .. 4
  BY DEF Width
<1>5. Quads \subseteq Chars
  BY DEF Chars, Tokens
<1>6. \A c \in {"quote", "\\", "/", "n", "u", "ctl", "nl", "nul"} : Width(c) = 1
  BY DEF Width, Quads
<1>7. Width("cp2") = 2 /\ Width("cp3") = 3 /\ Width("cp4") = 4
  BY DEF Width, Quads
<1>8. \A c \in Quads : Width(c) = 4
  BY DEF Width, Quads
<1>. QED
  BY <1>1, <1>2, <1>3, <1>4, <1>5, <1>6, <1>7, <1>8

\* What is read at a position; behind the text it is its terminator.
LEMMA TokensRead ==
  ASSUME NEW t \in CharText, NEW p \in Cursors
  PROVE  /\ Len(t) \in Nat
         /\ p <= Len(t) => At(t, p) = t[p] /\ t[p] \in Chars /\ At(t, p) # END
         /\ p > Len(t) => At(t, p) = END
<1>1. DOMAIN t = 1 .. Len(t) /\ Len(t) \in Nat
  BY LenProperties DEF CharText
<1>2. p <= Len(t) => t[p] \in Chars
  BY <1>1, ElementOfSeq DEF CharText, Cursors
<1>. QED
  BY <1>1, <1>2, CharsKnown DEF At, Cursors

-----------------------------------------------------------------------------
(* Loops over a cursor that only moves forward.                            *)

LEMMA LeastCursor ==
  ASSUME NEW D, D \subseteq Nat, D # {}
  PROVE  \E d \in D : \A e \in D : d <= e
<1>1. PICK d \in D : \A e \in D : ~ (<<e, d>> \in OpToRel(<, Nat))
  BY NatLessThanWellFounded, WFMin
<1>2. \A e \in D : ~(e < d)
  BY <1>1 DEF OpToRel
<1>. QED
  BY <1>2

\* What holds behind a position holds from it on: so it holds everywhere.
LEMMA Backward ==
  ASSUME NEW M \in Nat, NEW D, M + 1 \in D,
         \A p \in 1 .. M : (\A q \in p + 1 .. M + 1 : q \in D) => p \in D
  PROVE  \A p \in 1 .. M + 1 : p \in D
<1>. SUFFICES ASSUME NEW b \in 1 .. M + 1, b \notin D
              PROVE  FALSE
  OBVIOUS
<1>. DEFINE S == {d \in 0 .. M : M + 1 - d \notin D}
<1>1. M + 1 - b \in S
  <2>1. M + 1 - b \in 0 .. M /\ M + 1 - (M + 1 - b) = b
    <3>1. b # M + 1
      OBVIOUS
    <3>. QED
      BY <3>1
  <2>. QED
    BY <2>1
<1>2. PICK d \in S : \A e \in S : d <= e
  <2>1. S \subseteq Nat
    OBVIOUS
  <2>2. S # {}
    BY <1>1
  <2>. QED
    BY <2>1, <2>2, LeastCursor
<1>3. M + 1 - d \in 1 .. M + 1 /\ M + 1 - d \notin D
  BY <1>2
<1>4. M + 1 - d \in 1 .. M
  BY <1>3
<1>5. ASSUME NEW q \in M + 1 - d + 1 .. M + 1
      PROVE  q \in D
  <2>. SUFFICES ASSUME q \notin D
                PROVE  FALSE
    OBVIOUS
  <2>1. M + 1 - q \in 0 .. M /\ M + 1 - (M + 1 - q) = q
    BY <1>2
  <2>2. M + 1 - q \in S
    BY <2>1
  <2>3. d <= M + 1 - q
    BY <1>2, <2>2
  <2>. QED
    BY <1>2, <2>3
<1>. QED
  BY <1>3, <1>4, <1>5

\* F is one pass of a loop that starts at a cursor: its outcome at p depends on the
\* outcomes behind p only, and on none when p is behind M.
MovesForward(F, V, M, base) ==
  /\ M \in Nat
  /\ base \in [Cursors -> V]
  /\ F \in [[Cursors -> V] -> [Cursors -> V]]
  /\ \A g \in [Cursors -> V] : \A p \in Cursors : p > M => F[g][p] = base[p]
  /\ \A g, h \in [Cursors -> V] : \A p \in Cursors :
       (\A q \in Cursors : q > p => g[q] = h[q]) => F[g][p] = F[h][p]

\* Such a loop has an outcome from every position.
LEMMA Unfolding ==
  ASSUME NEW V, NEW M, NEW base, NEW F, MovesForward(F, V, M, base)
  PROVE  \E g \in [Cursors -> V] : g = F[g]
<1>. USE DEF MovesForward
<1>. DEFINE D == {m \in Cursors : \E g \in [Cursors -> V] :
                    \A p \in Cursors : p >= m => g[p] = F[g][p]}
<1>1. M + 1 \in D
  <2>1. \A p \in Cursors : p >= M + 1 => base[p] = F[base][p]
    BY DEF Cursors
  <2>. QED
    BY <2>1 DEF Cursors
<1>2. PICK m \in D : \A e \in D : m <= e
  <2>1. D \subseteq Nat /\ D # {}
    BY <1>1 DEF Cursors
  <2>. QED
    BY <2>1, LeastCursor
<1>3. PICK g \in [Cursors -> V] : \A p \in Cursors : p >= m => g[p] = F[g][p]
  BY <1>2
<1>4. m = 1
  <2>. SUFFICES ASSUME m # 1
                PROVE  FALSE
    OBVIOUS
  <2>. DEFINE k == m - 1
              h == [g EXCEPT ![k] = F[g][k]]
  <2>1. k \in Cursors /\ m \in Cursors /\ k < m
    BY <1>2 DEF Cursors
  <2>2. h \in [Cursors -> V]
    BY <2>1
  <2>3. \A q \in Cursors : q # k => h[q] = g[q]
    BY <2>1
  <2>4. h[k] = F[g][k]
    BY <2>1
  <2>. HIDE DEF h
  <2>5. ASSUME NEW p \in Cursors, p >= k
        PROVE  h[p] = F[h][p]
    <3>1. \A q \in Cursors : q > p => h[q] = g[q]
      BY <2>1, <2>3, <2>5 DEF Cursors
    <3>2. F[h][p] = F[g][p]
      BY <2>2, <3>1
    <3>3. h[p] = F[g][p]
      <4>1. CASE p = k
        BY <2>4, <4>1
      <4>2. CASE p # k
        <5>1. p >= m
          BY <2>1, <2>5, <4>2 DEF Cursors
        <5>. QED
          BY <1>3, <2>3, <4>2, <5>1
      <4>. QED
        BY <4>1, <4>2
    <3>. QED
      BY <3>2, <3>3
  <2>6. k \in D
    BY <2>1, <2>2, <2>5
  <2>. HIDE DEF D, k
  <2>7. m <= k
    BY <1>2, <2>6
  <2>. QED
    BY <2>1, <2>7 DEF Cursors
<1>5. \A p \in Cursors : g[p] = F[g][p]
  BY <1>3, <1>4 DEF Cursors
<1>6. F[g] \in [Cursors -> V]
  OBVIOUS
<1>7. g = F[g]
  BY <1>5, <1>6
<1>. QED
  BY <1>7

-----------------------------------------------------------------------------
(* The four loops of the model, one pass each.                             *)

ClosingPass(t, quote, p) ==
  CASE At(t, p) = END -> 0
    [] At(t, p) = "quote" -> p
    [] At(t, p) = "\\" /\ At(t, p + 1) = END -> 0
    [] OTHER -> quote[p + ToSkip(At(t, p), At(t, p + 1))]

\* The loop of skip_quotes returns from every position of every text.
LEMMA ClosingUnfolds ==
  ASSUME NEW t \in CharText
  PROVE  /\ ClosingFrom(t) \in [Cursors -> Nat]
         /\ \A p \in Cursors : ClosingFrom(t)[p] = ClosingPass(t, ClosingFrom(t), p)
<1>. DEFINE M == Len(t)
            base == [p \in Cursors |-> 0]
            F == [g \in [Cursors -> Nat] |-> [p \in Cursors |-> ClosingPass(t, g, p)]]
<1>0. M \in Nat
  BY LenProperties DEF CharText
<1>1. \A p \in Cursors : p + ToSkip(At(t, p), At(t, p + 1)) \in Cursors
                         /\ p + ToSkip(At(t, p), At(t, p + 1)) > p
  BY DEF ToSkip, Cursors
<1>2. F \in [[Cursors -> Nat] -> [Cursors -> Nat]]
  <2>1. \A g \in [Cursors -> Nat] : \A p \in Cursors : ClosingPass(t, g, p) \in Nat
    BY <1>1 DEF ClosingPass, Cursors
  <2>. QED
    BY <2>1
<1>3. \A p \in Cursors : \A g : p > M => ClosingPass(t, g, p) = 0
  <2>1. \A p \in Cursors : p > M => At(t, p) = END
    BY TokensRead
  <2>2. ASSUME NEW p \in Cursors, NEW g, p > M
        PROVE  ClosingPass(t, g, p) = 0
    <3>1. At(t, p) = END
      BY <2>1, <2>2
    <3>. QED
      BY <3>1, CharsKnown DEF ClosingPass
  <2>. QED
    BY <2>2
<1>4. \A g \in [Cursors -> Nat] : \A p \in Cursors : p > M => F[g][p] = base[p]
  BY <1>3
<1>5. \A g, h \in [Cursors -> Nat] : \A p \in Cursors :
        (\A q \in Cursors : q > p => g[q] = h[q]) => F[g][p] = F[h][p]
  <2>1. \A g, h \in [Cursors -> Nat] : \A p \in Cursors :
        (\A q \in Cursors : q > p => g[q] = h[q]) => ClosingPass(t, g, p) = ClosingPass(t, h, p)
    BY <1>1 DEF ClosingPass
  <2>. QED
    BY <2>1
<1>6. \E g \in [Cursors -> Nat] : g = F[g]
  <2>1. base \in [Cursors -> Nat]
    OBVIOUS
  <2>2. MovesForward(F, Nat, M, base)
    <3>. HIDE DEF F, base, M
    <3>. QED
      BY <1>0, <1>2, <1>4, <1>5, <2>1 DEF MovesForward
  <2>. HIDE DEF F, base, M
  <2>. QED
    BY <2>2, Unfolding
<1>7. \E g : g = [p \in Cursors |-> ClosingPass(t, g, p)]
  BY <1>6
<1>8. ClosingFrom(t) = [p \in Cursors |-> ClosingPass(t, ClosingFrom(t), p)]
  BY <1>7 DEF ClosingFrom, ClosingPass
<1>9. \A p \in Cursors : ClosingFrom(t)[p] = ClosingPass(t, ClosingFrom(t), p)
  BY <1>8
<1>10. \A p \in Cursors : p > M => ClosingFrom(t)[p] = 0
  BY <1>3, <1>9
<1>11. \A p \in Cursors : ClosingFrom(t)[p] \in Nat
  <2>. DEFINE D == {p \in Cursors : ClosingFrom(t)[p] \in Nat}
  <2>1. M + 1 \in D
    BY <1>0, <1>10 DEF Cursors
  <2>2. ASSUME NEW p \in 1 .. M, \A q \in p + 1 .. M + 1 : q \in D
        PROVE  p \in D
    <3>1. \A q \in Cursors : q > p => ClosingFrom(t)[q] \in Nat
      BY <1>0, <1>10, <2>2 DEF Cursors
    <3>2. p \in Cursors
      BY <1>0 DEF Cursors
    <3>3. ClosingPass(t, ClosingFrom(t), p) \in Nat
      BY <1>1, <3>1, <3>2 DEF ClosingPass, Cursors
    <3>. QED
      BY <1>9, <3>2, <3>3
  <2>3. \A p \in 1 .. M + 1 : p \in D
    <3>. HIDE DEF D, M
    <3>. QED
      BY <1>0, <2>1, <2>2, Backward
  <2>. QED
    BY <1>0, <1>10, <2>3 DEF Cursors
<1>. QED
  BY <1>8, <1>9, <1>11

\* What is written for a character.
LEMMA EscapedTyped ==
  /\ <<"quote">> \in CharText
  /\ \A c \in Chars : \A slashes \in BOOLEAN : Escaped(c, slashes) \in CharText
<1>1. \A c, d \in Chars : <<c>> \in CharText /\ <<c, d>> \in CharText
  BY DEF CharText
<1>2. <<"\\", "u", "0000">> \in CharText /\ <<"\\", "u", "0001">> \in CharText
  BY CharsKnown DEF CharText, Quads
<1>3. "quote" \in Chars /\ "\\" \in Chars /\ "n" \in Chars /\ "/" \in Chars
  BY CharsKnown
<1>4. ASSUME NEW c \in Chars, NEW slashes \in BOOLEAN
      PROVE  Escaped(c, slashes) \in CharText
  <2>1. Escaped(c, slashes) \in {<<"\\", c>>, <<"\\", "n">>, <<"\\", "u", "0000">>,
                                 <<"\\", "u", "0001">>, <<"\\", "/">>, <<c>>}
    BY DEF Escaped
  <2>. QED
    BY <1>1, <1>2, <1>3, <2>1
<1>. QED
  BY <1>1, <1>3, <1>4

BytesPass(s, bytes, p) == IF p > Len(s) THEN 0 ELSE Width(s[p]) + bytes[p + 1]

LEMMA BytesUnfolds ==
  ASSUME NEW s \in CharText
  PROVE  /\ BytesFrom(s) \in [Cursors -> Nat]
         /\ \A p \in Cursors : BytesFrom(s)[p] = BytesPass(s, BytesFrom(s), p)
<1>. DEFINE M == Len(s)
            base == [p \in Cursors |-> 0]
            F == [g \in [Cursors -> Nat] |-> [p \in Cursors |-> BytesPass(s, g, p)]]
<1>0. M \in Nat
  BY LenProperties DEF CharText
<1>1. \A p \in Cursors : p + 1 \in Cursors /\ (p <= M => Width(s[p]) \in Nat)
  <2>1. \A p \in Cursors : p <= M => s[p] \in Chars
    BY TokensRead
  <2>. QED
    BY <2>1, CharsKnown DEF Cursors
<1>2. F \in [[Cursors -> Nat] -> [Cursors -> Nat]]
  <2>1. ASSUME NEW g \in [Cursors -> Nat], NEW p \in Cursors
        PROVE  BytesPass(s, g, p) \in Nat
    <3>1. g[p + 1] \in Nat /\ p \in Nat
      BY <1>1 DEF Cursors
    <3>2. CASE p > M
      BY <3>2 DEF BytesPass
    <3>3. CASE ~(p > M)
      <4>1. Width(s[p]) \in Nat
        <5>. HIDE DEF M
        <5>1. p <= M
          BY <1>0, <3>1, <3>3
        <5>. QED
          BY <1>1, <5>1
      <4>2. BytesPass(s, g, p) = Width(s[p]) + g[p + 1]
        BY <3>3 DEF BytesPass
      <4>. QED
        BY <3>1, <4>1, <4>2
    <3>. QED
      BY <3>2, <3>3
  <2>. QED
    BY <2>1
<1>3. ASSUME NEW p \in Cursors, NEW g, p > M
      PROVE  BytesPass(s, g, p) = 0
  BY <1>3 DEF BytesPass
<1>4. \A g \in [Cursors -> Nat] : \A p \in Cursors : p > M => F[g][p] = base[p]
  BY <1>3
<1>5. \A g, h \in [Cursors -> Nat] : \A p \in Cursors :
        (\A q \in Cursors : q > p => g[q] = h[q]) => F[g][p] = F[h][p]
  <2>1. \A g, h \in [Cursors -> Nat] : \A p \in Cursors :
          (\A q \in Cursors : q > p => g[q] = h[q]) => BytesPass(s, g, p) = BytesPass(s, h, p)
    BY <1>1 DEF BytesPass, Cursors
  <2>. QED
    BY <2>1
<1>6. \E g \in [Cursors -> Nat] : g = F[g]
  <2>1. base \in [Cursors -> Nat]
    OBVIOUS
  <2>2. MovesForward(F, Nat, M, base)
    <3>. HIDE DEF F, base, M
    <3>. QED
      BY <1>0, <1>2, <1>4, <1>5, <2>1 DEF MovesForward
  <2>. HIDE DEF F, base, M
  <2>. QED
    BY <2>2, Unfolding
<1>7. \E g : g = [p \in Cursors |-> BytesPass(s, g, p)]
  BY <1>6
<1>8. BytesFrom(s) = [p \in Cursors |-> BytesPass(s, BytesFrom(s), p)]
  BY <1>7 DEF BytesFrom, BytesPass
<1>9. \A p \in Cursors : BytesFrom(s)[p] = BytesPass(s, BytesFrom(s), p)
  BY <1>8
<1>10. \A p \in Cursors : p > M => BytesFrom(s)[p] \in Nat
  BY <1>3, <1>9
<1>11. \A p \in Cursors : BytesFrom(s)[p] \in Nat
  <2>. DEFINE D == {p \in Cursors : BytesFrom(s)[p] \in Nat}
  <2>1. M + 1 \in D
    BY <1>0, <1>10 DEF Cursors
  <2>2. ASSUME NEW p \in 1 .. M, \A q \in p + 1 .. M + 1 : q \in D
        PROVE  p \in D
    <3>1. BytesFrom(s)[p + 1] \in Nat /\ p \in Cursors
      BY <1>0, <2>2 DEF Cursors
    <3>2. BytesPass(s, BytesFrom(s), p) \in Nat
      BY <1>0, <1>1, <3>1 DEF BytesPass
    <3>. QED
      BY <1>9, <3>1, <3>2
  <2>3. \A p \in 1 .. M + 1 : p \in D
    <3>. HIDE DEF D, M
    <3>. QED
      BY <1>0, <2>1, <2>2, Backward
  <2>. QED
    BY <1>0, <1>10, <2>3 DEF Cursors
<1>. QED
  BY <1>8, <1>9, <1>11

LEMMA BytesCounted ==
  ASSUME NEW s \in CharText
  PROVE  BytesOf(s) \in Nat
<1>1. 1 \in Cursors
  BY DEF Cursors
<1>. QED
  BY <1>1, BytesUnfolds DEF BytesOf

WrittenPass(s, slashes, written, n) ==
  IF n > Len(s) THEN <<"quote">> ELSE Escaped(s[n], slashes) \o written[n + 1]

LEMMA WrittenUnfolds ==
  ASSUME NEW s \in CharText, NEW slashes \in BOOLEAN
  PROVE  /\ WrittenFrom(s, slashes) \in [Cursors -> CharText]
         /\ \A n \in Cursors :
              WrittenFrom(s, slashes)[n] = WrittenPass(s, slashes, WrittenFrom(s, slashes), n)
<1>. DEFINE M == Len(s)
            W == WrittenFrom(s, slashes)
            base == [n \in Cursors |-> <<"quote">>]
            F == [g \in [Cursors -> CharText] |->
                   [n \in Cursors |-> WrittenPass(s, slashes, g, n)]]
<1>0. M \in Nat
  BY LenProperties DEF CharText
<1>1. \A n \in Cursors : n + 1 \in Cursors /\ (n <= M => Escaped(s[n], slashes) \in CharText)
  <2>1. \A n \in Cursors : n <= M => s[n] \in Chars
    BY TokensRead
  <2>. QED
    BY <2>1, EscapedTyped DEF Cursors
<1>2. F \in [[Cursors -> CharText] -> [Cursors -> CharText]]
  <2>1. \A g \in [Cursors -> CharText] : \A n \in Cursors :
          WrittenPass(s, slashes, g, n) \in CharText
    <3>. SUFFICES ASSUME NEW g \in [Cursors -> CharText], NEW n \in Cursors
                  PROVE  WrittenPass(s, slashes, g, n) \in CharText
      OBVIOUS
    <3>1. g[n + 1] \in CharText
      BY <1>1
    <3>2. n <= M => Escaped(s[n], slashes) \o g[n + 1] \in CharText
      BY <1>1, <3>1, ConcatProperties DEF CharText
    <3>. QED
      BY <1>0, <3>2, EscapedTyped DEF WrittenPass, Cursors
  <2>. QED
    BY <2>1
<1>3. ASSUME NEW n \in Cursors, NEW g, n > M
      PROVE  WrittenPass(s, slashes, g, n) = <<"quote">>
  BY <1>3 DEF WrittenPass
<1>4. \A g \in [Cursors -> CharText] : \A n \in Cursors : n > M => F[g][n] = base[n]
  BY <1>3
<1>5. \A g, h \in [Cursors -> CharText] : \A n \in Cursors :
        (\A q \in Cursors : q > n => g[q] = h[q]) => F[g][n] = F[h][n]
  <2>1. \A g, h \in [Cursors -> CharText] : \A n \in Cursors :
          (\A q \in Cursors : q > n => g[q] = h[q])
            => WrittenPass(s, slashes, g, n) = WrittenPass(s, slashes, h, n)
    BY <1>1 DEF WrittenPass, Cursors
  <2>. QED
    BY <2>1
<1>6. \E g \in [Cursors -> CharText] : g = F[g]
  <2>1. base \in [Cursors -> CharText]
    BY EscapedTyped
  <2>2. MovesForward(F, CharText, M, base)
    <3>. HIDE DEF F, base, M
    <3>. QED
      BY <1>0, <1>2, <1>4, <1>5, <2>1, SMTT(30) DEF MovesForward
  <2>. HIDE DEF F, base, M
  <2>. QED
    BY <2>2, Unfolding
<1>7. \E g : g = [n \in Cursors |-> WrittenPass(s, slashes, g, n)]
  BY <1>6
<1>8. W = [n \in Cursors |-> WrittenPass(s, slashes, W, n)]
  BY <1>7 DEF WrittenFrom, WrittenPass
<1>. HIDE DEF W
<1>9. \A n \in Cursors : W[n] = WrittenPass(s, slashes, W, n)
  BY <1>8
<1>10. \A n \in Cursors : n > M => W[n] \in CharText
  BY <1>3, <1>9, EscapedTyped
<1>11. \A n \in Cursors : W[n] \in CharText
  <2>. DEFINE D == {n \in Cursors : W[n] \in CharText}
  <2>1. M + 1 \in D
    BY <1>0, <1>10 DEF Cursors
  <2>2. ASSUME NEW n \in 1 .. M, \A q \in n + 1 .. M + 1 : q \in D
        PROVE  n \in D
    <3>1. W[n + 1] \in CharText /\ n \in Cursors /\ n <= M
      BY <1>0, <2>2 DEF Cursors
    <3>2. Escaped(s[n], slashes) \o W[n + 1] \in CharText
      BY <1>1, <3>1, ConcatProperties DEF CharText
    <3>3. WrittenPass(s, slashes, W, n) \in CharText
      BY <1>0, <3>1, <3>2 DEF WrittenPass, Cursors
    <3>. QED
      BY <1>9, <3>1, <3>3
  <2>3. \A n \in 1 .. M + 1 : n \in D
    <3>. HIDE DEF D, M
    <3>. QED
      BY <1>0, <2>1, <2>2, Backward
  <2>. QED
    BY <1>0, <1>10, <2>3 DEF Cursors
<1>. QED
  BY <1>8, <1>9, <1>11 DEF W

-----------------------------------------------------------------------------
(* What one iteration of process_string reads.                             *)

Plain(t, p, next) ==
  /\ t[p] \notin {"\\", "ctl"}
  /\ next = Read(t[p], p + 1)

Letter(t, p, next) ==
  /\ t[p] = "\\"
  /\ \/ At(t, p + 1) \in {"quote", "\\", "/"} /\ next = Read(At(t, p + 1), p + 2)
     \/ At(t, p + 1) = "n" /\ next = Read("nl", p + 2)

Quad(t, p, next) ==
  /\ t[p] = "\\" /\ At(t, p + 1) = "u"
  /\ \/ At(t, p + 2) = "0000" /\ next = Read("nul", p + 3)
     \/ At(t, p + 2) = "0001" /\ next = Read("ctl", p + 3)
     \/ At(t, p + 2) = "00e9" /\ next = Read("cp2", p + 3)
     \/ At(t, p + 2) = "20ac" /\ next = Read("cp3", p + 3)

Pair(t, p, next) ==
  /\ t[p] = "\\" /\ At(t, p + 1) = "u" /\ At(t, p + 2) = "lead"
  /\ At(t, p + 3) = "\\" /\ At(t, p + 4) = "u" /\ At(t, p + 5) = "trail"
  /\ next = Read("cp4", p + 6)

\* A character without escape, an escape of one letter, one of four digits, a pair
\* of them, or a failure.
LEMMA ReadCharCases ==
  ASSUME NEW t \in CharText, NEW p \in 1 .. Len(t)
  PROVE  \/ ReadChar(t, p).char = NULL
         \/ Plain(t, p, ReadChar(t, p))
         \/ Letter(t, p, ReadChar(t, p))
         \/ Quad(t, p, ReadChar(t, p))
         \/ Pair(t, p, ReadChar(t, p))
<1>1. p \in Cursors /\ p + 1 \in Cursors /\ p <= Len(t)
  BY LenProperties DEF CharText, Cursors
<1>2. t[p] \in Chars
  BY <1>1, TokensRead
<1>3. At(t, p + 1) # END => t[p + 1] = At(t, p + 1)
  BY <1>1, TokensRead DEF At
<1>4. p + 1 + 1 = p + 2 /\ p + 1 + 2 = p + 3 /\ p + 1 + 3 = p + 4 /\ p + 1 + 4 = p + 5
      /\ p + 1 + 5 = p + 6
  BY <1>1 DEF Cursors
<1>5. \A at : Read(NULL, at).char = NULL
  BY DEF Read
<1>6. CASE t[p] = "\\" /\ At(t, p + 1) \in {"quote", "\\", "/"}
  <2>1. ReadChar(t, p) = Read(At(t, p + 1), p + 2)
    BY <1>3, <1>6, CharsKnown DEF ReadChar, END
  <2>. QED
    BY <1>6, <2>1 DEF Letter
<1>7. CASE t[p] = "\\" /\ At(t, p + 1) = "n"
  <2>1. ReadChar(t, p) = Read("nl", p + 2)
    BY <1>7 DEF ReadChar
  <2>. QED
    BY <1>7, <2>1 DEF Letter
<1>8. CASE t[p] = "\\" /\ At(t, p + 1) = "u"
  <2>1. ReadChar(t, p) = ParseUtf16(t, p + 1)
    BY <1>8 DEF ReadChar
  <2>2. CASE At(t, p + 2) \in {"0000", "0001", "00e9", "20ac"}
    <3>1. Quad(t, p, ParseUtf16(t, p + 1))
      BY <1>4, <1>8, <2>2 DEF ParseUtf16, Quad
    <3>. QED
      BY <2>1, <3>1
  <2>3. CASE At(t, p + 2) = "lead" /\ IsPair(t, p + 1)
    <3>1. ParseUtf16(t, p + 1) = Read("cp4", p + 6)
      BY <1>4, <2>3 DEF ParseUtf16
    <3>2. Pair(t, p, ParseUtf16(t, p + 1))
      BY <1>4, <1>8, <2>3, <3>1 DEF IsPair, Pair
    <3>. QED
      BY <2>1, <3>2
  <2>4. CASE ~(At(t, p + 2) \in {"0000", "0001", "00e9", "20ac"})
             /\ ~(At(t, p + 2) = "lead" /\ IsPair(t, p + 1))
    <3>1. ParseUtf16(t, p + 1) = Read(NULL, p + 1)
      BY <1>4, <2>4 DEF ParseUtf16
    <3>. QED
      BY <1>5, <2>1, <3>1
  <2>. QED
    BY <2>2, <2>3, <2>4
<1>9. CASE t[p] \notin {"\\", "ctl"}
  <2>1. ReadChar(t, p) = Read(t[p], p + 1)
    BY <1>9 DEF ReadChar
  <2>. QED
    BY <1>9, <2>1 DEF Plain
<1>10. CASE /\ ~(t[p] = "\\" /\ At(t, p + 1) \in {"quote", "\\", "/", "n", "u"})
            /\ ~(t[p] \notin {"\\", "ctl"})
  <2>1. ReadChar(t, p) = Read(NULL, p)
    BY <1>10 DEF ReadChar
  <2>. QED
    BY <1>5, <2>1
<1>. QED
  BY <1>6, <1>7, <1>8, <1>9, <1>10

\* A character that is read is known and moves the cursor.
LEMMA ReadCharTyped ==
  ASSUME NEW t \in CharText, NEW p \in 1 .. Len(t), ReadChar(t, p).char # NULL
  PROVE  /\ ReadChar(t, p).char \in Chars
         /\ ReadChar(t, p).at \in p + 1 .. p + 6
         /\ ReadChar(t, p).at \in Cursors
<1>1. p \in Cursors /\ p \in Nat /\ t[p] \in Chars
  BY LenProperties, TokensRead DEF CharText, Cursors
<1>2. \A c, at : Read(c, at).char = c /\ Read(c, at).at = at
  BY DEF Read
<1>. DEFINE next == ReadChar(t, p)
<1>3. Plain(t, p, next) \/ Letter(t, p, next) \/ Quad(t, p, next) \/ Pair(t, p, next)
  BY ReadCharCases
<1>. HIDE DEF next
<1>4. next.char \in Chars /\ next.at \in {p + 1, p + 2, p + 3, p + 6}
  <2>1. CASE Plain(t, p, next)
    BY <1>1, <1>2, <2>1 DEF Plain
  <2>2. CASE Letter(t, p, next)
    BY <1>2, <2>2, CharsKnown DEF Letter
  <2>3. CASE Quad(t, p, next)
    BY <1>2, <2>3, CharsKnown DEF Quad
  <2>4. CASE Pair(t, p, next)
    BY <1>2, <2>4, CharsKnown DEF Pair
  <2>. QED
    BY <1>3, <2>1, <2>2, <2>3, <2>4
<1>5. next.at \in p + 1 .. p + 6 /\ next.at \in Cursors
  BY <1>1, <1>4 DEF Cursors
<1>. QED
  BY <1>4, <1>5 DEF next

Outputs == [output : CharText \union {NULL}, at : Cursors]

ReadPass(t, end, read, p) ==
  IF p >= end THEN [output |-> <<>>, at |-> p]
  ELSE LET next == ReadChar(t, p)
       IN  IF next.char = NULL THEN [output |-> NULL, at |-> p]
           ELSE Behind(next.char, read[next.at])

\* A character before what has been read.
LEMMA BehindTyped ==
  ASSUME NEW c \in Chars, NEW rest \in Outputs
  PROVE  /\ Behind(c, rest) \in Outputs
         /\ Behind(c, rest).at = rest.at
         /\ Behind(c, rest).output = NULL <=> rest.output = NULL
         /\ rest.output # NULL => rest.output \in CharText
                                  /\ Behind(c, rest).output = <<c>> \o rest.output
<1>1. NULL \notin CharText
  BY StringAssumption DEF CharText
<1>2. rest.output # NULL => rest.output \in CharText
  BY DEF Outputs
<1>3. rest.output # NULL => <<c>> \o rest.output \in CharText
  BY <1>2, ConcatProperties DEF CharText
<1>4. rest.at \in Cursors
  BY DEF Outputs
<1>5. CASE rest.output = NULL
  BY <1>5 DEF Behind
<1>6. CASE rest.output # NULL
  <2>1. Behind(c, rest) = [output |-> <<c>> \o rest.output, at |-> rest.at]
    BY <1>6 DEF Behind
  <2>2. Behind(c, rest).at = rest.at /\ Behind(c, rest).output = <<c>> \o rest.output
    BY <2>1
  <2>3. Behind(c, rest) \in Outputs
    BY <1>3, <1>4, <1>6, <2>1 DEF Outputs
  <2>4. Behind(c, rest).output # NULL
    BY <1>1, <1>3, <1>6, <2>2
  <2>. QED
    BY <1>2, <1>6, <2>2, <2>3, <2>4
<1>. QED
  BY <1>5, <1>6

\* The loop of process_string returns from every position, in a text that reaches
\* to its end.
LEMMA ReadUnfolds ==
  ASSUME NEW t \in CharText, NEW end \in 1 .. Len(t) + 1
  PROVE  /\ ReadFrom(t, end) \in [Cursors -> Outputs]
         /\ \A p \in Cursors : ReadFrom(t, end)[p] = ReadPass(t, end, ReadFrom(t, end), p)
<1>. DEFINE M == end - 1
            R == ReadFrom(t, end)
            base == [p \in Cursors |-> [output |-> <<>>, at |-> p]]
            F == [g \in [Cursors -> Outputs] |-> [p \in Cursors |-> ReadPass(t, end, g, p)]]
<1>0. M \in Nat /\ M <= Len(t) /\ end = M + 1 /\ Len(t) \in Nat
  BY LenProperties DEF CharText
<1>1. \A p \in Cursors : [output |-> <<>>, at |-> p] \in Outputs
      /\ [output |-> NULL, at |-> p] \in Outputs
  BY DEF Outputs, CharText
<1>2. ASSUME NEW p \in Cursors, p < end, ReadChar(t, p).char # NULL
      PROVE  /\ ReadChar(t, p).char \in Chars
             /\ ReadChar(t, p).at \in Cursors /\ ReadChar(t, p).at > p
  <2>1. p \in 1 .. Len(t)
    BY <1>0, <1>2 DEF Cursors
  <2>2. ReadChar(t, p).at \in p + 1 .. p + 6
    BY <1>2, <2>1, ReadCharTyped
  <2>3. ReadChar(t, p).char \in Chars /\ ReadChar(t, p).at \in Cursors
    BY <1>2, <2>1, ReadCharTyped
  <2>. QED
    BY <2>1, <2>2, <2>3
<1>3. ASSUME NEW g, NEW p \in Cursors,
             \A q \in Cursors : q > p => g[q] \in Outputs
      PROVE  ReadPass(t, end, g, p) \in Outputs
  <2>1. CASE p >= end \/ ReadChar(t, p).char = NULL
    BY <1>1, <2>1 DEF ReadPass
  <2>2. CASE ~(p >= end) /\ ReadChar(t, p).char # NULL
    <3>1. p < end
      BY <1>0, <2>2 DEF Cursors
    <3>2. g[ReadChar(t, p).at] \in Outputs /\ ReadChar(t, p).char \in Chars
      BY <1>2, <1>3, <2>2, <3>1
    <3>3. Behind(ReadChar(t, p).char, g[ReadChar(t, p).at]) \in Outputs
      BY <3>2, BehindTyped
    <3>. QED
      BY <2>2, <3>3 DEF ReadPass
  <2>. QED
    BY <2>1, <2>2
<1>4. F \in [[Cursors -> Outputs] -> [Cursors -> Outputs]]
  <2>1. \A g \in [Cursors -> Outputs] : \A p \in Cursors : ReadPass(t, end, g, p) \in Outputs
    BY <1>3
  <2>. QED
    BY <2>1
<1>5. ASSUME NEW p \in Cursors, NEW g, p > M
      PROVE  ReadPass(t, end, g, p) = [output |-> <<>>, at |-> p]
  BY <1>0, <1>5 DEF ReadPass, Cursors
<1>6. \A g \in [Cursors -> Outputs] : \A p \in Cursors : p > M => F[g][p] = base[p]
  BY <1>5
<1>7. \A g, h \in [Cursors -> Outputs] : \A p \in Cursors :
        (\A q \in Cursors : q > p => g[q] = h[q]) => F[g][p] = F[h][p]
  <2>1. ASSUME NEW g \in [Cursors -> Outputs], NEW h \in [Cursors -> Outputs],
               NEW p \in Cursors, \A q \in Cursors : q > p => g[q] = h[q]
        PROVE  ReadPass(t, end, g, p) = ReadPass(t, end, h, p)
    <3>1. CASE p >= end \/ ReadChar(t, p).char = NULL
      BY <3>1 DEF ReadPass
    <3>2. CASE ~(p >= end) /\ ReadChar(t, p).char # NULL
      <4>1. p < end
        BY <1>0, <3>2 DEF Cursors
      <4>2. g[ReadChar(t, p).at] = h[ReadChar(t, p).at]
        BY <1>2, <2>1, <3>2, <4>1
      <4>. QED
        BY <3>2, <4>2 DEF ReadPass
    <3>. QED
      BY <3>1, <3>2
  <2>. QED
    BY <2>1
<1>8. \E g \in [Cursors -> Outputs] : g = F[g]
  <2>1. base \in [Cursors -> Outputs]
    BY <1>1
  <2>2. MovesForward(F, Outputs, M, base)
    <3>. HIDE DEF F, base, M
    <3>. QED
      BY <1>0, <1>4, <1>6, <1>7, <2>1 DEF MovesForward
  <2>. HIDE DEF F, base, M
  <2>. QED
    BY <2>2, Unfolding
<1>9. \E g : g = [p \in Cursors |-> ReadPass(t, end, g, p)]
  BY <1>8
<1>10. R = [p \in Cursors |-> ReadPass(t, end, R, p)]
  BY <1>9 DEF ReadFrom, ReadPass
<1>. HIDE DEF R
<1>11. \A p \in Cursors : R[p] = ReadPass(t, end, R, p)
  BY <1>10
<1>12. \A p \in Cursors : p > M => R[p] \in Outputs
  BY <1>1, <1>5, <1>11
<1>13. \A p \in Cursors : R[p] \in Outputs
  <2>. DEFINE D == {p \in Cursors : R[p] \in Outputs}
  <2>1. M + 1 \in D
    BY <1>0, <1>12 DEF Cursors
  <2>2. ASSUME NEW p \in 1 .. M, \A q \in p + 1 .. M + 1 : q \in D
        PROVE  p \in D
    <3>1. \A q \in Cursors : q > p => R[q] \in Outputs
      BY <1>0, <1>12, <2>2 DEF Cursors
    <3>2. p \in Cursors
      BY <1>0 DEF Cursors
    <3>3. ReadPass(t, end, R, p) \in Outputs
      BY <1>3, <3>1, <3>2
    <3>. QED
      BY <1>11, <3>2, <3>3
  <2>3. \A p \in 1 .. M + 1 : p \in D
    <3>. HIDE DEF D, M
    <3>. QED
      BY <1>0, <2>1, <2>2, Backward
  <2>. QED
    BY <1>0, <1>12, <2>3 DEF Cursors
<1>. QED
  BY <1>10, <1>11, <1>13 DEF R

-----------------------------------------------------------------------------
(* Positions in a text of which a part has been read.                      *)

\* skip_quotes stops at a quote that is not before its start.
LEMMA ClosingAhead ==
  ASSUME NEW t \in CharText, NEW p \in Cursors, ClosingFrom(t)[p] # 0
  PROVE  /\ ClosingFrom(t)[p] \in p .. Len(t)
         /\ At(t, ClosingFrom(t)[p]) = "quote"
<1>. DEFINE M == Len(t)
            C == ClosingFrom(t)
            D == {q \in Cursors : C[q] # 0 => C[q] \in q .. M /\ At(t, C[q]) = "quote"}
<1>1. M \in Nat
  BY LenProperties DEF CharText
<1>2. \A q \in Cursors : q > M => At(t, q) = END
  BY TokensRead
<1>3. \A q \in Cursors : C[q] = ClosingPass(t, C, q)
  BY ClosingUnfolds
<1>4. \A q \in Cursors : q > M => C[q] = 0
  BY <1>2, <1>3, CharsKnown DEF ClosingPass
<1>5. M + 1 \in D
  BY <1>1, <1>4 DEF Cursors
<1>6. ASSUME NEW q \in 1 .. M, \A r \in q + 1 .. M + 1 : r \in D
      PROVE  q \in D
  <2>1. q \in Cursors /\ q \in Nat
    BY <1>1 DEF Cursors
  <2>. SUFFICES ASSUME C[q] # 0
                PROVE  C[q] \in q .. M /\ At(t, C[q]) = "quote"
    BY <2>1
  <2>2. CASE At(t, q) = "quote"
    BY <1>3, <2>1, <2>2, CharsKnown DEF ClosingPass
  <2>3. CASE At(t, q) # "quote"
    <3>. DEFINE r == q + ToSkip(At(t, q), At(t, q + 1))
    <3>1. r \in {q + 1, q + 2} /\ C[q] = C[r]
      <4>1. C[q] = ClosingPass(t, C, q)
        BY <1>3, <2>1
      <4>2. C[q] = C[r]
        BY <2>3, <4>1 DEF ClosingPass
      <4>3. r \in {q + 1, q + 2}
        BY DEF ToSkip
      <4>. QED
        BY <4>2, <4>3
    <3>. HIDE DEF r
    <3>2. r \in Cursors /\ r > q
      BY <2>1, <3>1 DEF Cursors
    <3>3. r <= M
      BY <1>1, <1>4, <3>1, <3>2 DEF Cursors
    <3>4. r \in D
      <4>1. r \in q + 1 .. M + 1
        BY <1>1, <3>2, <3>3 DEF Cursors
      <4>. QED
        BY <1>6, <4>1
    <3>5. C[r] \in r .. M /\ At(t, C[r]) = "quote"
      BY <3>1, <3>4
    <3>. QED
      BY <1>1, <2>1, <3>1, <3>2, <3>5 DEF Cursors
  <2>. QED
    BY <2>2, <2>3
<1>7. \A q \in 1 .. M + 1 : q \in D
  <2>. HIDE DEF D, M
  <2>. QED
    BY <1>1, <1>5, <1>6, Backward
<1>8. p \in 1 .. M + 1
  BY <1>1, <1>4 DEF Cursors
<1>. QED
  BY <1>7, <1>8

\* skip_quotes sees no quote inside what process_string reads as one character.
LEMMA SameQuote ==
  ASSUME NEW t \in CharText, NEW p \in 1 .. Len(t), t[p] # "quote",
         ReadChar(t, p).char # NULL
  PROVE  ClosingFrom(t)[p] = ClosingFrom(t)[ReadChar(t, p).at]
<1>. DEFINE C == ClosingFrom(t)
            next == ReadChar(t, p)
<1>1. p \in Cursors /\ p \in Nat /\ At(t, p) = t[p] /\ t[p] # END /\ t[p] \in Chars
  BY LenProperties, TokensRead DEF CharText, Cursors
<1>2. \A q \in Cursors : C[q] = ClosingPass(t, C, q)
  BY ClosingUnfolds
<1>3. \A c, at : Read(c, at).at = at
  BY DEF Read
<1>4. ASSUME NEW q \in Cursors, At(t, q) \notin {END, "quote", "\\"}
      PROVE  C[q] = C[q + 1]
  <2>1. C[q] = ClosingPass(t, C, q)
    BY <1>2
  <2>2. ToSkip(At(t, q), At(t, q + 1)) = 1
    BY <1>4 DEF ToSkip
  <2>. QED
    BY <1>4, <2>1, <2>2 DEF ClosingPass
<1>5. ASSUME NEW q \in Cursors, At(t, q) = "\\", At(t, q + 1) # END
      PROVE  C[q] = C[q + 2]
  <2>1. C[q] = ClosingPass(t, C, q)
    BY <1>2
  <2>2. ToSkip(At(t, q), At(t, q + 1)) = 2
    BY <1>5 DEF ToSkip
  <2>. QED
    BY <1>5, <2>1, <2>2, CharsKnown DEF ClosingPass
<1>6. p + 2 \in Cursors /\ p + 3 \in Cursors /\ p + 5 \in Cursors
      /\ p + 2 + 1 = p + 3 /\ p + 3 + 1 = p + 4 /\ p + 3 + 2 = p + 5 /\ p + 5 + 1 = p + 6
  BY <1>1 DEF Cursors
<1>7. Plain(t, p, next) \/ Letter(t, p, next) \/ Quad(t, p, next) \/ Pair(t, p, next)
  BY ReadCharCases
<1>. HIDE DEF next, C
<1>8. CASE Plain(t, p, next)
  <2>1. next.at = p + 1 /\ t[p] # "\\"
    BY <1>3, <1>8 DEF Plain
  <2>. QED
    BY <1>1, <1>4, <2>1 DEF C, next
<1>9. CASE Letter(t, p, next)
  <2>1. next.at = p + 2 /\ t[p] = "\\" /\ At(t, p + 1) # END
    BY <1>3, <1>9, CharsKnown DEF Letter, END
  <2>. QED
    BY <1>1, <1>5, <2>1 DEF C, next
<1>10. CASE Quad(t, p, next)
  <2>1. next.at = p + 3 /\ t[p] = "\\" /\ At(t, p + 1) # END
        /\ At(t, p + 2) \notin {END, "quote", "\\"}
    BY <1>3, <1>10 DEF Quad, END
  <2>2. C[p] = C[p + 2]
    BY <1>1, <1>5, <2>1
  <2>3. C[p + 2] = C[p + 3]
    BY <1>4, <1>6, <2>1
  <2>. QED
    BY <2>1, <2>2, <2>3 DEF C, next
<1>11. CASE Pair(t, p, next)
  <2>1. next.at = p + 6 /\ t[p] = "\\" /\ At(t, p + 1) # END
        /\ At(t, p + 2) \notin {END, "quote", "\\"}
        /\ At(t, p + 3) = "\\" /\ At(t, p + 4) # END
        /\ At(t, p + 5) \notin {END, "quote", "\\"}
    BY <1>3, <1>11 DEF Pair, END
  <2>2. C[p] = C[p + 2]
    BY <1>1, <1>5, <2>1
  <2>3. C[p + 2] = C[p + 3]
    BY <1>4, <1>6, <2>1
  <2>4. C[p + 3] = C[p + 5]
    BY <1>5, <1>6, <2>1
  <2>5. C[p + 5] = C[p + 6]
    BY <1>4, <1>6, <2>1
  <2>. QED
    BY <2>1, <2>2, <2>3, <2>4, <2>5 DEF C, next
<1>. QED
  BY <1>7, <1>8, <1>9, <1>10, <1>11

\* The bytes behind a part of a text are those of the rest.
LEMMA BytesBehind ==
  ASSUME NEW e \in CharText, NEW s \in CharText
  PROVE  \A n \in 1 .. Len(s) + 1 : BytesFrom(e \o s)[Len(e) + n] = BytesFrom(s)[n]
<1>. DEFINE M == Len(s)
            k == Len(e)
            D == {n \in Cursors : BytesFrom(e \o s)[k + n] = BytesFrom(s)[n]}
<1>1. M \in Nat /\ k \in Nat /\ e \o s \in CharText /\ Len(e \o s) = k + M
      /\ \A n \in 1 .. M : (e \o s)[k + n] = s[n]
  BY LenProperties, ConcatProperties DEF CharText
<1>2. \A n \in Cursors : BytesFrom(s)[n] = BytesPass(s, BytesFrom(s), n)
  BY BytesUnfolds
<1>3. \A n \in Cursors : BytesFrom(e \o s)[n] = BytesPass(e \o s, BytesFrom(e \o s), n)
  BY <1>1, BytesUnfolds
<1>4. \A n \in Cursors : k + n \in Cursors
  BY <1>1 DEF Cursors
<1>5. M + 1 \in D
  <2>1. M + 1 \in Cursors /\ k + (M + 1) > k + M /\ M + 1 > M
    BY <1>1 DEF Cursors
  <2>2. BytesFrom(s)[M + 1] = 0
    BY <1>2, <2>1 DEF BytesPass
  <2>3. BytesFrom(e \o s)[k + (M + 1)] = 0
    BY <1>1, <1>3, <1>4, <2>1 DEF BytesPass
  <2>. QED
    BY <2>1, <2>2, <2>3
<1>6. ASSUME NEW n \in 1 .. M, \A q \in n + 1 .. M + 1 : q \in D
      PROVE  n \in D
  <2>1. n \in Cursors /\ n + 1 \in D /\ ~(n > M) /\ ~(k + n > k + M) /\ k + n + 1 = k + (n + 1)
    BY <1>1, <1>6 DEF Cursors
  <2>2. BytesFrom(s)[n] = Width(s[n]) + BytesFrom(s)[n + 1]
    BY <1>2, <2>1 DEF BytesPass
  <2>3. BytesFrom(e \o s)[k + n] = Width(s[n]) + BytesFrom(e \o s)[k + (n + 1)]
    BY <1>1, <1>3, <1>4, <2>1 DEF BytesPass
  <2>. QED
    BY <2>1, <2>2, <2>3
<1>7. \A n \in 1 .. M + 1 : n \in D
  <2>. HIDE DEF D, M
  <2>. QED
    BY <1>1, <1>5, <1>6, Backward
<1>. QED
  BY <1>7

\* A character more.
LEMMA BytesPrepended ==
  ASSUME NEW c \in Chars, NEW s \in CharText
  PROVE  /\ <<c>> \o s \in CharText
         /\ BytesOf(<<c>> \o s) = Width(c) + BytesOf(s)
<1>1. <<c>> \in CharText /\ Len(<<c>>) = 1 /\ <<c>> \o s \in CharText
      /\ Len(<<c>> \o s) = 1 + Len(s) /\ (<<c>> \o s)[1] = c /\ Len(s) \in Nat
  BY LenProperties, ConcatProperties DEF CharText
<1>. DEFINE e == <<c>>
            w == e \o s
<1>2. BytesFrom(w)[Len(e) + 1] = BytesFrom(s)[1]
  <2>1. 1 \in 1 .. Len(s) + 1 /\ e \in CharText
    BY <1>1
  <2>. HIDE DEF e
  <2>. QED
    BY <2>1, BytesBehind
<1>3. BytesFrom(w)[1] = BytesPass(w, BytesFrom(w), 1)
  <2>1. 1 \in Cursors /\ w \in CharText
    BY <1>1 DEF Cursors
  <2>. HIDE DEF w
  <2>. QED
    BY <2>1, BytesUnfolds
<1>4. ~(1 > Len(w)) /\ w[1] = c /\ Len(e) + 1 = 1 + 1
  BY <1>1
<1>5. BytesFrom(w)[1] = Width(c) + BytesFrom(s)[1]
  <2>. HIDE DEF w, e
  <2>. QED
    BY <1>2, <1>3, <1>4 DEF BytesPass
<1>. QED
  BY <1>1, <1>5 DEF BytesOf

\* A character has no more bytes than what it is read from.
LEMMA NoMoreBytes ==
  ASSUME NEW t \in CharText, NEW c \in 1 .. Len(t), NEW p \in 1 .. c - 1,
         ReadChar(t, p).char # NULL, ReadChar(t, p).at <= c
  PROVE  Width(ReadChar(t, p).char) + BytesFrom(SubSeq(t, 1, c - 1))[ReadChar(t, p).at]
           <= BytesFrom(SubSeq(t, 1, c - 1))[p]
<1>. DEFINE u == SubSeq(t, 1, c - 1)
            B == BytesFrom(u)
            next == ReadChar(t, p)
<1>1. Len(t) \in Nat /\ c \in Nat /\ p \in Nat /\ p < c /\ c <= Len(t) /\ p \in 1 .. Len(t)
      /\ p \in Cursors
  BY LenProperties DEF CharText, Cursors
<1>2. u \in CharText /\ Len(u) = c - 1 /\ \A q \in 1 .. c - 1 : u[q] = t[q]
  BY <1>1, SubSeqProperties DEF CharText
<1>3. B \in [Cursors -> Nat] /\ \A q \in Cursors : B[q] = BytesPass(u, B, q)
  BY <1>2, BytesUnfolds
<1>4. \A q \in Cursors : q <= Len(t) => At(t, q) = t[q] /\ t[q] \in Chars
  BY TokensRead
<1>. HIDE DEF B, u
<1>5. ASSUME NEW q \in Cursors, q < c
      PROVE  B[q] = Width(At(t, q)) + B[q + 1] /\ B[q] \in Nat /\ B[q + 1] \in Nat
             /\ Width(At(t, q)) \in 1 .. 4
  <2>1. q \in 1 .. c - 1 /\ ~(q > Len(u)) /\ q + 1 \in Cursors /\ q <= Len(t)
    BY <1>1, <1>2, <1>5 DEF Cursors
  <2>2. u[q] = At(t, q) /\ At(t, q) \in Chars
    BY <1>2, <1>4, <2>1
  <2>3. B[q] = Width(u[q]) + B[q + 1]
    BY <1>3, <2>1 DEF BytesPass
  <2>4. Width(At(t, q)) \in 1 .. 4
    BY <2>2, CharsKnown
  <2>. QED
    BY <1>3, <2>1, <2>2, <2>3, <2>4
<1>6. \A q \in Cursors : q < c => B[q + 1] < B[q] /\ B[q] \in Nat /\ B[q + 1] \in Nat
  BY <1>5
<1>7. \A ch, at : Read(ch, at).at = at /\ Read(ch, at).char = ch
  BY DEF Read
<1>8. Plain(t, p, next) \/ Letter(t, p, next) \/ Quad(t, p, next) \/ Pair(t, p, next)
  BY <1>1, ReadCharCases
<1>9. next.at <= c
  OBVIOUS
<1>. HIDE DEF next
<1>10. Width(next.char) + B[next.at] <= B[p]
  <2>1. CASE Plain(t, p, next)
    <3>1. next.at = p + 1 /\ next.char = At(t, p)
      BY <1>1, <1>4, <1>7, <2>1 DEF Plain
    <3>. QED
      BY <1>1, <1>5, <3>1
  <2>2. CASE Letter(t, p, next)
    <3>1. next.at = p + 2 /\ Width(next.char) = 1
      BY <1>7, <2>2, CharsKnown DEF Letter
    <3>2. p + 1 \in Cursors /\ p + 1 < c /\ p + 1 + 1 = p + 2
      BY <1>1, <1>9, <3>1 DEF Cursors
    <3>3. B[p + 1] < B[p] /\ B[p + 2] < B[p + 1]
      BY <1>1, <1>6, <3>2
    <3>4. 1 + B[p + 2] <= B[p]
      BY <1>1, <1>6, <3>2, <3>3
    <3>. QED
      BY <3>1, <3>4
  <2>3. CASE Quad(t, p, next)
    <3>1. next.at = p + 3 /\ Width(next.char) \in 1 .. 4 /\ At(t, p + 2) \in Quads
      BY <1>7, <2>3, CharsKnown DEF Quad, Quads
    <3>2. /\ p + 1 \in Cursors /\ p + 1 < c /\ p + 1 + 1 = p + 2
          /\ p + 2 \in Cursors /\ p + 2 < c /\ p + 2 + 1 = p + 3
      BY <1>1, <1>9, <3>1 DEF Cursors
    <3>3. B[p + 1] < B[p] /\ B[p + 2] < B[p + 1] /\ B[p] \in Nat /\ B[p + 1] \in Nat
          /\ B[p + 2] \in Nat
      BY <1>1, <1>6, <3>2
    <3>4. B[p + 2] = 4 + B[p + 3] /\ B[p + 3] \in Nat
      BY <1>5, <3>1, <3>2, CharsKnown
    <3>5. 4 + B[p + 3] <= B[p]
      BY <3>3, <3>4
    <3>. DEFINE w == Width(next.char)  b == B[p + 3]
    <3>6. w \in 1 .. 4 /\ b \in Nat /\ B[p] \in Nat /\ 4 + b <= B[p]
      BY <3>1, <3>3, <3>4, <3>5
    <3>7. w + b <= B[p]
      <4>. HIDE DEF w, b
      <4>. QED
        BY <3>6
    <3>. QED
      BY <3>1, <3>7
  <2>4. CASE Pair(t, p, next)
    <3>1. next.at = p + 6 /\ Width(next.char) = 4
      BY <1>7, <2>4, CharsKnown DEF Pair
    <3>2. /\ p + 1 \in Cursors /\ p + 1 < c /\ p + 1 + 1 = p + 2
          /\ p + 2 \in Cursors /\ p + 2 < c /\ p + 2 + 1 = p + 3
          /\ p + 3 \in Cursors /\ p + 3 < c /\ p + 3 + 1 = p + 4
          /\ p + 4 \in Cursors /\ p + 4 < c /\ p + 4 + 1 = p + 5
          /\ p + 5 \in Cursors /\ p + 5 < c /\ p + 5 + 1 = p + 6
      BY <1>1, <1>9, <3>1 DEF Cursors
    <3>3. B[p + 1] < B[p] /\ B[p] \in Nat /\ B[p + 1] \in Nat
      BY <1>1, <1>6
    <3>4. B[p + 2] < B[p + 1] /\ B[p + 2] \in Nat
      BY <1>6, <3>2
    <3>5. B[p + 3] < B[p + 2] /\ B[p + 3] \in Nat
      BY <1>6, <3>2
    <3>6. B[p + 4] < B[p + 3] /\ B[p + 4] \in Nat
      BY <1>6, <3>2
    <3>7. B[p + 5] < B[p + 4] /\ B[p + 5] \in Nat
      BY <1>6, <3>2
    <3>8. B[p + 6] < B[p + 5] /\ B[p + 6] \in Nat
      BY <1>6, <3>2
    <3>. DEFINE b0 == B[p]      b1 == B[p + 1]  b2 == B[p + 2]  b3 == B[p + 3]
                b4 == B[p + 4]  b5 == B[p + 5]  b6 == B[p + 6]
    <3>9. /\ b0 \in Nat /\ b1 \in Nat /\ b2 \in Nat /\ b3 \in Nat
          /\ b4 \in Nat /\ b5 \in Nat /\ b6 \in Nat
          /\ b6 < b5 /\ b5 < b4 /\ b4 < b3 /\ b3 < b2 /\ b2 < b1 /\ b1 < b0
      BY <3>3, <3>4, <3>5, <3>6, <3>7, <3>8
    <3>10. 4 + b6 <= b0
      <4>. HIDE DEF b0, b1, b2, b3, b4, b5, b6
      <4>. QED
        BY <3>9
    <3>. QED
      BY <3>1, <3>10
  <2>. QED
    BY <1>8, <2>1, <2>2, <2>3, <2>4
<1>. QED
  BY <1>10 DEF next, B, u

-----------------------------------------------------------------------------
(* What is read between the quotes.                                        *)

\* process_string, which looks for the end that skip_quotes has found, stops there
\* and has written no more bytes than it has read.
LEMMA ReadToQuote ==
  ASSUME NEW t \in CharText, NEW c, c = SkipQuotes(t), c # 0,
         ProcessString(t, c).output # NULL
  PROVE  /\ c \in 1 .. Len(t)
         /\ ProcessString(t, c).at = c
         /\ ProcessString(t, c).output \in CharText
         /\ BytesOf(ProcessString(t, c).output) <= BytesOf(SubSeq(t, 1, c - 1))
<1>. DEFINE C == ClosingFrom(t)
            R == ReadFrom(t, c)
            u == SubSeq(t, 1, c - 1)
            B == BytesFrom(u)
            M == c - 1
            D == {p \in Cursors : C[p] = c /\ R[p].output # NULL =>
                                    /\ R[p].at = c
                                    /\ R[p].output \in CharText
                                    /\ BytesOf(R[p].output) <= B[p]}
<1>1. 1 \in Cursors /\ C[1] = c /\ C[1] # 0
  BY DEF SkipQuotes, Cursors
<1>2. c \in 1 .. Len(t) /\ At(t, c) = "quote" /\ Len(t) \in Nat
  BY <1>1, ClosingAhead, LenProperties DEF CharText
<1>3. M \in Nat /\ M + 1 = c /\ c \in Cursors /\ c <= Len(t) /\ c \in 1 .. Len(t) + 1
  BY <1>2 DEF Cursors
<1>4. R \in [Cursors -> Outputs] /\ \A p \in Cursors : R[p] = ReadPass(t, c, R, p)
  BY <1>3, ReadUnfolds
<1>5. u \in CharText /\ Len(u) = c - 1
  BY <1>2, <1>3, SubSeqProperties DEF CharText
<1>6. B \in [Cursors -> Nat]
  BY <1>5, BytesUnfolds
<1>7. BytesOf(<<>>) = 0 /\ <<>> \in CharText
  <2>1. <<>> \in CharText /\ Len(<<>>) = 0 /\ 1 \in Cursors
    BY DEF CharText, Cursors
  <2>2. BytesFrom(<<>>)[1] = BytesPass(<<>>, BytesFrom(<<>>), 1)
    BY <2>1, BytesUnfolds
  <2>. QED
    BY <2>1, <2>2 DEF BytesOf, BytesPass
<1>8. c \in D
  <2>1. R[c] = [output |-> <<>>, at |-> c]
    BY <1>3, <1>4 DEF ReadPass, Cursors
  <2>2. B[c] >= 0
    BY <1>3, <1>6
  <2>. QED
    BY <1>3, <1>7, <2>1, <2>2
<1>9. ASSUME NEW p \in 1 .. M, \A q \in p + 1 .. M + 1 : q \in D
      PROVE  p \in D
  <2>. DEFINE next == ReadChar(t, p)
              rest == R[next.at]
  <2>1. p \in Cursors /\ p \in 1 .. Len(t) /\ p < c /\ p \in 1 .. c - 1
    BY <1>2, <1>3 DEF Cursors
  <2>. SUFFICES ASSUME C[p] = c, R[p].output # NULL
                PROVE  /\ R[p].at = c
                       /\ R[p].output \in CharText
                       /\ BytesOf(R[p].output) <= B[p]
    BY <2>1
  <2>2. R[p] = ReadPass(t, c, R, p) /\ ~(p >= c)
    BY <1>3, <1>4, <2>1 DEF Cursors
  <2>3. next.char # NULL
    BY <2>2 DEF ReadPass
  <2>4. R[p] = Behind(next.char, rest)
    BY <2>2, <2>3 DEF ReadPass
  <2>5. next.char \in Chars /\ next.at \in p + 1 .. p + 6 /\ next.at \in Cursors
    BY <2>1, <2>3, ReadCharTyped
  <2>6. t[p] # "quote"
    <3>. SUFFICES ASSUME t[p] = "quote"
                  PROVE  FALSE
      OBVIOUS
    <3>1. At(t, p) = "quote"
      BY <2>1, TokensRead DEF Cursors
    <3>2. C[p] = ClosingPass(t, C, p)
      BY <2>1, ClosingUnfolds
    <3>3. C[p] = p
      BY <3>1, <3>2, CharsKnown DEF ClosingPass
    <3>. QED
      BY <2>1, <3>3
  <2>7. C[next.at] = c
    BY <2>1, <2>3, <2>6, SameQuote
  <2>. HIDE DEF C, R, u, B, D, M
  <2>8. next.at <= c
    <3>1. c \in next.at .. Len(t)
      <4>1. ClosingFrom(t)[next.at] = c /\ c # 0
        BY <1>1, <2>7 DEF C
      <4>. HIDE DEF next
      <4>. QED
        BY <2>5, <4>1, ClosingAhead
    <3>. QED
      BY <1>3, <2>5, <3>1 DEF Cursors
  <2>9. next.at \in D
    BY <1>3, <1>9, <2>1, <2>5, <2>8 DEF Cursors
  <2>10. rest \in Outputs /\ rest.output # NULL
    <3>1. rest \in Outputs
      BY <1>4, <2>5
    <3>2. Behind(next.char, rest).output # NULL
      BY <2>4
    <3>. HIDE DEF rest, next
    <3>. QED
      BY <2>5, <3>1, <3>2, BehindTyped
  <2>11. rest.at = c /\ rest.output \in CharText /\ BytesOf(rest.output) <= B[next.at]
    BY <2>7, <2>9, <2>10 DEF D
  <2>12. R[p].at = c /\ R[p].output = <<next.char>> \o rest.output
    <3>. HIDE DEF rest, next
    <3>. QED
      BY <2>4, <2>5, <2>10, <2>11, BehindTyped
  <2>13. R[p].output \in CharText
         /\ BytesOf(R[p].output) = Width(next.char) + BytesOf(rest.output)
    BY <2>5, <2>11, <2>12, BytesPrepended
  <2>14. Width(next.char) + B[next.at] <= B[p]
    BY <1>2, <2>1, <2>3, <2>8, NoMoreBytes DEF B, u
  <2>15. BytesOf(rest.output) \in Nat
    BY <2>11, BytesCounted
  <2>16. Width(next.char) \in 1 .. 4 /\ B[next.at] \in Nat /\ B[p] \in Nat
    BY <1>6, <2>1, <2>5, CharsKnown
  <2>17. BytesOf(R[p].output) <= B[p]
    <3>. DEFINE w == Width(next.char)
                x == BytesOf(rest.output)
                y == B[next.at]
    <3>1. w \in Nat /\ x \in Nat /\ y \in Nat /\ B[p] \in Nat /\ x <= y /\ w + y <= B[p]
      BY <2>11, <2>14, <2>15, <2>16
    <3>. HIDE DEF w, x, y
    <3>2. w + x <= B[p]
      BY <3>1
    <3>. QED
      BY <2>13, <3>2 DEF w, x
  <2>. QED
    BY <2>12, <2>13, <2>17
<1>10. \A p \in 1 .. M + 1 : p \in D
  <2>1. M + 1 \in D
    BY <1>3, <1>8
  <2>. HIDE DEF D, M
  <2>. QED
    BY <1>3, <1>9, <2>1, Backward
<1>11. 1 \in D
  BY <1>3, <1>10
<1>12. R[1].output # NULL
  BY DEF ProcessString
<1>13. R[1].at = c /\ R[1].output \in CharText /\ BytesOf(R[1].output) <= B[1]
  BY <1>1, <1>11, <1>12
<1>. QED
  BY <1>2, <1>13 DEF ProcessString, BytesOf

-----------------------------------------------------------------------------
(* A part of a text is read as the whole of it is.                         *)

LEMMA TextBehind ==
  ASSUME NEW e \in CharText, NEW s \in CharText
  PROVE  /\ e \o s \in CharText
         /\ Len(e) \in Nat /\ Len(s) \in Nat /\ Len(e \o s) = Len(e) + Len(s)
         /\ \A n \in 1 .. Len(e) : (e \o s)[n] = e[n]
         /\ \A n \in 1 .. Len(s) : (e \o s)[Len(e) + n] = s[n]
         /\ \A n \in Cursors : At(e \o s, Len(e) + n) = At(s, n)
<1>1. /\ e \o s \in CharText
      /\ Len(e) \in Nat /\ Len(s) \in Nat /\ Len(e \o s) = Len(e) + Len(s)
      /\ \A n \in 1 .. Len(e) : (e \o s)[n] = e[n]
      /\ \A n \in 1 .. Len(s) : (e \o s)[Len(e) + n] = s[n]
  BY LenProperties, ConcatProperties DEF CharText
<1>2. ASSUME NEW n \in Cursors
      PROVE  At(e \o s, Len(e) + n) = At(s, n)
  <2>1. Len(e) + n \in Cursors /\ (n > Len(s) <=> Len(e) + n > Len(e \o s))
    BY <1>1 DEF Cursors
  <2>2. CASE n > Len(s)
    <3>1. Len(e) + n > Len(e \o s)
      BY <2>1, <2>2
    <3>2. At(s, n) = END
      BY <2>2, TokensRead
    <3>3. At(e \o s, Len(e) + n) = END
      <4>. DEFINE w == e \o s
                  p == Len(e) + n
      <4>1. w \in CharText /\ p \in Cursors /\ p > Len(w)
        BY <1>1, <2>1, <3>1
      <4>. HIDE DEF w, p
      <4>2. At(w, p) = END
        BY <4>1, TokensRead
      <4>. QED
        BY <4>2 DEF w, p
    <3>. QED
      BY <3>2, <3>3
  <2>3. CASE ~(n > Len(s))
    <3>1. n \in 1 .. Len(s) /\ Len(e) + n \in 1 .. Len(e \o s)
      BY <1>1, <2>3 DEF Cursors
    <3>2. DOMAIN s = 1 .. Len(s) /\ DOMAIN (e \o s) = 1 .. Len(e \o s)
      BY <1>1, LenProperties DEF CharText
    <3>. QED
      BY <1>1, <3>1, <3>2 DEF At
  <2>. QED
    BY <2>2, <2>3
<1>. QED
  BY <1>1, <1>2

LEMMA QuoteBehind ==
  ASSUME NEW e \in CharText, NEW s \in CharText
  PROVE  \A n \in 1 .. Len(s) + 1 :
           /\ ClosingFrom(s)[n] = 0 => ClosingFrom(e \o s)[Len(e) + n] = 0
           /\ ClosingFrom(s)[n] # 0 =>
                ClosingFrom(e \o s)[Len(e) + n] = Len(e) + ClosingFrom(s)[n]
<1>. DEFINE M == Len(s)
            k == Len(e)
            w == e \o s
            C == ClosingFrom(s)
            B == ClosingFrom(w)
            D == {n \in Cursors : /\ C[n] = 0 => B[k + n] = 0
                                  /\ C[n] # 0 => B[k + n] = k + C[n]}
<1>1. M \in Nat /\ k \in Nat /\ w \in CharText
  BY TextBehind
<1>2. \A n \in Cursors : At(w, k + n) = At(s, n) /\ At(w, k + n + 1) = At(s, n + 1)
  <2>1. \A n \in Cursors : n + 1 \in Cursors /\ k + (n + 1) = k + n + 1
    BY <1>1 DEF Cursors
  <2>. QED
    BY <2>1, TextBehind
<1>3. \A n \in Cursors : C[n] = ClosingPass(s, C, n)
  BY ClosingUnfolds
<1>4. \A n \in Cursors : B[n] = ClosingPass(w, B, n)
  BY <1>1, ClosingUnfolds
<1>5. \A n \in Cursors : n > M => At(s, n) = END
  BY TokensRead
<1>6. \A n \in Cursors : k + n \in Cursors /\ k + n # 0 /\ n # 0
  BY <1>1 DEF Cursors
<1>. HIDE DEF w, C, B, M, k
<1>7. M + 1 \in D
  <2>1. M + 1 \in Cursors /\ M + 1 > M
    BY <1>1 DEF Cursors
  <2>2. At(s, M + 1) = END /\ At(w, k + (M + 1)) = END
    BY <1>2, <1>5, <2>1
  <2>3. C[M + 1] = 0
    BY <1>3, <2>1, <2>2, CharsKnown DEF ClosingPass
  <2>4. B[k + (M + 1)] = 0
    BY <1>4, <1>6, <2>1, <2>2, CharsKnown DEF ClosingPass
  <2>. QED
    BY <2>1, <2>3, <2>4
<1>8. ASSUME NEW n \in 1 .. M, \A q \in n + 1 .. M + 1 : q \in D
      PROVE  n \in D
  <2>1. n \in Cursors /\ n \in Nat
    BY <1>1 DEF Cursors
  <2>2. C[n] = ClosingPass(s, C, n) /\ B[k + n] = ClosingPass(w, B, k + n)
    BY <1>3, <1>4, <1>6, <2>1
  <2>3. At(w, k + n) = At(s, n) /\ At(w, k + n + 1) = At(s, n + 1)
    BY <1>2, <2>1
  <2>4. CASE At(s, n) = END \/ (At(s, n) = "\\" /\ At(s, n + 1) = END)
    <3>1. C[n] = 0 /\ B[k + n] = 0
      BY <2>2, <2>3, <2>4, CharsKnown DEF ClosingPass
    <3>. QED
      BY <2>1, <3>1
  <2>5. CASE At(s, n) = "quote"
    <3>1. C[n] = n /\ B[k + n] = k + n
      BY <2>2, <2>3, <2>5, CharsKnown DEF ClosingPass
    <3>. QED
      BY <1>6, <2>1, <3>1
  <2>6. CASE /\ At(s, n) # END /\ ~(At(s, n) = "\\" /\ At(s, n + 1) = END)
             /\ At(s, n) # "quote"
    <3>. DEFINE j == ToSkip(At(s, n), At(s, n + 1))
    <3>1. C[n] = C[n + j] /\ B[k + n] = B[k + n + j]
      <4>1. C[n] = C[n + j]
        BY <2>2, <2>6 DEF ClosingPass
      <4>2. B[k + n] = B[k + n + j]
        BY <2>2, <2>3, <2>6 DEF ClosingPass
      <4>. QED
        BY <4>1, <4>2
    <3>2. j \in {1, 2} /\ (j = 2 => At(s, n + 1) # END)
      BY <2>6 DEF ToSkip
    <3>. HIDE DEF j
    <3>3. n + j \in n + 1 .. M + 1
      <4>1. CASE j = 1
        BY <1>1, <2>1, <4>1
      <4>2. CASE j = 2
        <5>1. n + 1 \in Cursors
          BY <2>1 DEF Cursors
        <5>2. ~(n + 1 > M)
          BY <1>5, <3>2, <4>2, <5>1
        <5>. QED
          BY <1>1, <2>1, <4>2, <5>2
      <4>. QED
        BY <3>2, <4>1, <4>2
    <3>4. n + j \in D /\ k + n + j = k + (n + j)
      BY <1>1, <1>8, <2>1, <3>2, <3>3
    <3>. QED
      BY <2>1, <3>1, <3>4
  <2>. QED
    BY <2>4, <2>5, <2>6
<1>9. \A n \in 1 .. M + 1 : n \in D
  <2>. HIDE DEF D
  <2>. QED
    BY <1>1, <1>7, <1>8, Backward
<1>. QED
  BY <1>9 DEF M, k, w, C, B

LEMMA CharBehind ==
  ASSUME NEW e \in CharText, NEW s \in CharText, NEW n \in 1 .. Len(s)
  PROVE  ReadChar(e \o s, Len(e) + n) =
           Read(ReadChar(s, n).char, Len(e) + ReadChar(s, n).at)
<1>. DEFINE w == e \o s
            k == Len(e)
<1>1. k \in Nat /\ n \in Nat /\ n \in Cursors /\ w[k + n] = s[n]
  BY TextBehind DEF Cursors
<1>2. \A i \in 1 .. 5 : At(w, k + n + i) = At(s, n + i)
  <2>1. ASSUME NEW i \in 1 .. 5
        PROVE  At(w, k + n + i) = At(s, n + i)
    <3>. DEFINE m == n + i
    <3>1. m \in Cursors /\ k + m = k + n + i
      <4>. HIDE DEF w, k
      <4>1. k \in Nat /\ n \in Nat /\ n \in Cursors
        BY <1>1
      <4>. QED
        BY <4>1, SMTT(30) DEF Cursors
    <3>2. At(w, k + m) = At(s, m)
      <4>. HIDE DEF m
      <4>. QED
        BY <3>1, TextBehind
    <3>. QED
      BY <3>1, <3>2
  <2>. QED
    BY <2>1
<1>3. At(s, n + 1) # END => s[n + 1] = At(s, n + 1) /\ w[k + n + 1] = At(w, k + n + 1)
  BY <1>2 DEF At
<1>4. \A c, at : Read(c, at).char = c /\ Read(c, at).at = at
  BY DEF Read
<1>. HIDE DEF w, k
<1>5. ParseUtf16(w, k + n + 1) =
        Read(ParseUtf16(s, n + 1).char, k + ParseUtf16(s, n + 1).at)
  <2>1. /\ n + 1 + 1 = n + 2 /\ n + 1 + 2 = n + 3 /\ n + 1 + 3 = n + 4
        /\ n + 1 + 4 = n + 5 /\ n + 1 + 5 = n + 6
        /\ k + n + 1 + 1 = k + n + 2 /\ k + n + 1 + 2 = k + n + 3
        /\ k + n + 1 + 3 = k + n + 4 /\ k + n + 1 + 4 = k + n + 5
        /\ k + n + 1 + 5 = k + n + 6
        /\ k + (n + 3) = k + n + 3 /\ k + (n + 6) = k + n + 6 /\ k + (n + 1) = k + n + 1
    <3>1. \A a \in Nat : /\ a + 1 + 1 = a + 2 /\ a + 1 + 2 = a + 3 /\ a + 1 + 3 = a + 4
                         /\ a + 1 + 4 = a + 5 /\ a + 1 + 5 = a + 6
      OBVIOUS
    <3>2. k + n \in Nat
      BY <1>1
    <3>3. k + (n + 3) = k + n + 3 /\ k + (n + 6) = k + n + 6 /\ k + (n + 1) = k + n + 1
      BY <1>1
    <3>4. /\ k + n + 1 + 1 = k + n + 2 /\ k + n + 1 + 2 = k + n + 3
          /\ k + n + 1 + 3 = k + n + 4 /\ k + n + 1 + 4 = k + n + 5
          /\ k + n + 1 + 5 = k + n + 6
      BY <3>1, <3>2
    <3>. QED
      BY <1>1, <3>1, <3>3, <3>4
  <2>2. /\ At(w, k + n + 2) = At(s, n + 2) /\ At(w, k + n + 3) = At(s, n + 3)
        /\ At(w, k + n + 4) = At(s, n + 4) /\ At(w, k + n + 5) = At(s, n + 5)
    BY <1>2
  <2>. DEFINE pair == At(s, n + 2) = "lead" /\ IsPair(s, n + 1)
  <2>3. IsPair(w, k + n + 1) = IsPair(s, n + 1)
    BY <2>1, <2>2 DEF IsPair
  <2>4. ASSUME NEW c, NEW digits,
               <<digits, c>> \in {<<"0000", "nul">>, <<"0001", "ctl">>,
                                  <<"00e9", "cp2">>, <<"20ac", "cp3">>},
               At(s, n + 2) = digits
        PROVE  /\ ParseUtf16(s, n + 1) = Read(c, n + 3)
               /\ ParseUtf16(w, k + n + 1) = Read(c, k + n + 3)
    <3>1. At(s, n + 1 + 1) = digits /\ At(w, k + n + 1 + 1) = digits
      BY <2>1, <2>2, <2>4
    <3>2. ParseUtf16(s, n + 1) = Read(c, n + 3)
      BY <2>1, <2>4, <3>1 DEF ParseUtf16
    <3>3. ParseUtf16(w, k + n + 1) = Read(c, k + n + 3)
      BY <2>1, <2>4, <3>1 DEF ParseUtf16
    <3>. QED
      BY <3>2, <3>3
  <2>5. CASE At(s, n + 2) \in {"0000", "0001", "00e9", "20ac"}
    <3>1. \E c : /\ ParseUtf16(s, n + 1) = Read(c, n + 3)
                 /\ ParseUtf16(w, k + n + 1) = Read(c, k + n + 3)
      <4>1. CASE At(s, n + 2) = "0000"
        BY <2>4, <4>1
      <4>2. CASE At(s, n + 2) = "0001"
        BY <2>4, <4>2
      <4>3. CASE At(s, n + 2) = "00e9"
        BY <2>4, <4>3
      <4>4. CASE At(s, n + 2) = "20ac"
        BY <2>4, <4>4
      <4>. QED
        BY <2>5, <4>1, <4>2, <4>3, <4>4
    <3>2. PICK c : /\ ParseUtf16(s, n + 1) = Read(c, n + 3)
                  /\ ParseUtf16(w, k + n + 1) = Read(c, k + n + 3)
      BY <3>1
    <3>. QED
      BY <1>4, <2>1, <3>2
  <2>6. CASE pair
    <3>1. ParseUtf16(s, n + 1) = Read("cp4", n + 6)
      BY <2>1, <2>6 DEF ParseUtf16
    <3>2. ParseUtf16(w, k + n + 1) = Read("cp4", k + n + 6)
      BY <2>1, <2>2, <2>3, <2>6 DEF ParseUtf16
    <3>. QED
      BY <1>4, <2>1, <3>1, <3>2
  <2>7. CASE ~pair /\ At(s, n + 2) \notin {"0000", "0001", "00e9", "20ac"}
    <3>1. ParseUtf16(s, n + 1) = Read(NULL, n + 1)
      BY <2>1, <2>7 DEF ParseUtf16
    <3>2. ParseUtf16(w, k + n + 1) = Read(NULL, k + n + 1)
      BY <2>1, <2>2, <2>3, <2>7 DEF ParseUtf16
    <3>. QED
      BY <1>4, <2>1, <3>1, <3>2
  <2>. QED
    BY <2>5, <2>6, <2>7
<1>6. At(w, k + n + 1) = At(s, n + 1)
  BY <1>2
<1>7. k + (n + 2) = k + n + 2 /\ k + (n + 1) = k + n + 1
  BY <1>1
<1>8. ReadChar(w, k + n) = Read(ReadChar(s, n).char, k + ReadChar(s, n).at)
  <2>1. CASE s[n] = "\\" /\ At(s, n + 1) \in {"quote", "\\", "/"}
    <3>1. s[n + 1] = At(s, n + 1) /\ w[k + n + 1] = At(s, n + 1)
      BY <1>3, <1>6, <2>1 DEF END
    <3>2. ReadChar(s, n) = Read(At(s, n + 1), n + 2)
      BY <2>1, <3>1 DEF ReadChar
    <3>3. ReadChar(w, k + n) = Read(At(s, n + 1), k + n + 2)
      BY <1>1, <1>6, <2>1, <3>1 DEF ReadChar
    <3>. QED
      BY <1>4, <1>7, <3>2, <3>3
  <2>2. CASE s[n] = "\\" /\ At(s, n + 1) = "n"
    <3>1. ReadChar(s, n) = Read("nl", n + 2)
      BY <2>2 DEF ReadChar
    <3>2. ReadChar(w, k + n) = Read("nl", k + n + 2)
      BY <1>1, <1>6, <2>2 DEF ReadChar
    <3>. QED
      BY <1>4, <1>7, <3>1, <3>2
  <2>3. CASE s[n] = "\\" /\ At(s, n + 1) = "u"
    <3>1. ReadChar(s, n) = ParseUtf16(s, n + 1)
      BY <2>3 DEF ReadChar
    <3>2. ReadChar(w, k + n) = ParseUtf16(w, k + n + 1)
      BY <1>1, <1>6, <2>3 DEF ReadChar
    <3>. QED
      BY <1>5, <3>1, <3>2
  <2>4. CASE s[n] \notin {"\\", "ctl"}
    <3>1. ReadChar(s, n) = Read(s[n], n + 1)
      BY <2>4 DEF ReadChar
    <3>2. ReadChar(w, k + n) = Read(s[n], k + n + 1)
      BY <1>1, <2>4 DEF ReadChar
    <3>. QED
      BY <1>4, <1>7, <3>1, <3>2
  <2>5. CASE /\ ~(s[n] = "\\" /\ At(s, n + 1) \in {"quote", "\\", "/", "n", "u"})
             /\ ~(s[n] \notin {"\\", "ctl"})
    <3>1. ReadChar(s, n) = Read(NULL, n)
      BY <2>5 DEF ReadChar
    <3>2. ReadChar(w, k + n) = Read(NULL, k + n)
      BY <1>1, <1>6, <2>5 DEF ReadChar
    <3>. QED
      BY <1>4, <3>1, <3>2
  <2>. QED
    BY <2>1, <2>2, <2>3, <2>4, <2>5
<1>. QED
  BY <1>8 DEF w, k

LEMMA OutputBehind ==
  ASSUME NEW e \in CharText, NEW s \in CharText, NEW end \in 1 .. Len(s) + 1
  PROVE  \A n \in 1 .. end :
           /\ ReadFrom(e \o s, Len(e) + end)[Len(e) + n].output = ReadFrom(s, end)[n].output
           /\ ReadFrom(e \o s, Len(e) + end)[Len(e) + n].at = Len(e) + ReadFrom(s, end)[n].at
<1>. DEFINE M == end - 1
            k == Len(e)
            w == e \o s
            R == ReadFrom(s, end)
            Q == ReadFrom(w, k + end)
            Same(n) == Q[k + n].output = R[n].output /\ Q[k + n].at = k + R[n].at
            D == {n \in Cursors : Same(n)}
<1>1. k \in Nat /\ w \in CharText /\ Len(w) = k + Len(s) /\ Len(s) \in Nat
  BY TextBehind
<1>2. M \in Nat /\ M + 1 = end /\ end \in Cursors /\ k + end \in 1 .. Len(w) + 1
      /\ M <= Len(s) /\ end \in Nat
  <2>. HIDE DEF k, w
  <2>. QED
    BY <1>1 DEF Cursors
<1>3. R \in [Cursors -> Outputs] /\ \A n \in Cursors : R[n] = ReadPass(s, end, R, n)
  BY ReadUnfolds
<1>4. Q \in [Cursors -> Outputs] /\ \A n \in Cursors : Q[n] = ReadPass(w, k + end, Q, n)
  <2>. HIDE DEF w, k
  <2>. QED
    BY <1>1, <1>2, ReadUnfolds
<1>. HIDE DEF R, Q
<1>5. ASSUME NEW n \in Cursors, n >= end
      PROVE  Same(n)
  <2>. HIDE DEF k, w
  <2>1. k + n \in Cursors /\ k + n >= k + end
    BY <1>1, <1>2, <1>5 DEF Cursors
  <2>2. R[n] = [output |-> <<>>, at |-> n]
    BY <1>3, <1>5 DEF ReadPass
  <2>3. Q[k + n] = [output |-> <<>>, at |-> k + n]
    BY <1>4, <2>1 DEF ReadPass
  <2>. QED
    BY <2>2, <2>3
<1>6. ASSUME NEW n \in 1 .. M, \A q \in n + 1 .. M + 1 : q \in D
      PROVE  n \in D
  <2>. DEFINE next == ReadChar(s, n)
  <2>1. n \in Cursors /\ n \in 1 .. Len(s) /\ n < end
    BY <1>1, <1>2 DEF Cursors
  <2>2. ReadChar(w, k + n) = Read(next.char, k + next.at)
    BY <2>1, CharBehind
  <2>3. ReadChar(w, k + n).char = next.char /\ ReadChar(w, k + n).at = k + next.at
    BY <2>2 DEF Read
  <2>. HIDE DEF k, w
  <2>4. k + n \in Cursors /\ ~(k + n >= k + end) /\ ~(n >= end)
    BY <1>1, <1>2, <2>1 DEF Cursors
  <2>5. R[n] = ReadPass(s, end, R, n) /\ Q[k + n] = ReadPass(w, k + end, Q, k + n)
    BY <1>3, <1>4, <2>1, <2>4
  <2>6. CASE next.char = NULL
    <3>1. R[n] = [output |-> NULL, at |-> n]
      BY <2>4, <2>5, <2>6 DEF ReadPass
    <3>2. Q[k + n] = [output |-> NULL, at |-> k + n]
      BY <2>3, <2>4, <2>5, <2>6 DEF ReadPass
    <3>. QED
      BY <2>1, <3>1, <3>2
  <2>7. CASE next.char # NULL
    <3>1. next.char \in Chars /\ next.at \in n + 1 .. n + 6 /\ next.at \in Cursors
      BY <2>1, <2>7, ReadCharTyped
    <3>2. Same(next.at)
      <4>1. CASE next.at >= end
        BY <1>5, <3>1, <4>1
      <4>2. CASE ~(next.at >= end)
        <5>1. next.at \in n + 1 .. M + 1
          BY <1>2, <2>1, <3>1, <4>2
        <5>2. next.at \in D
          BY <1>6, <5>1
        <5>. QED
          BY <5>2
      <4>. QED
        BY <4>1, <4>2
    <3>. DEFINE r == R[next.at]
                q == Q[k + next.at]
    <3>3. R[n] = Behind(next.char, r)
      BY <2>4, <2>5, <2>7 DEF ReadPass
    <3>4. Q[k + n] = Behind(next.char, q)
      BY <2>3, <2>4, <2>5, <2>7 DEF ReadPass
    <3>5. q.output = r.output /\ q.at = k + r.at
      BY <3>2
    <3>. HIDE DEF q, r
    <3>6. Same(n)
      BY <3>3, <3>4, <3>5 DEF Behind
    <3>. QED
      BY <2>1, <3>6
  <2>. QED
    BY <2>6, <2>7
<1>7. \A n \in 1 .. M + 1 : n \in D
  <2>1. M + 1 \in D
    BY <1>2, <1>5 DEF Cursors
  <2>. HIDE DEF D, M
  <2>. QED
    BY <1>2, <1>6, <2>1, Backward
<1>. QED
  BY <1>2, <1>7 DEF R, Q

\* What json_serialize_string writes for a character is read as that character.
LEMMA EscapedIsRead ==
  ASSUME NEW c \in Chars, NEW slashes \in BOOLEAN, NEW s \in CharText
  PROVE  /\ Len(Escaped(c, slashes)) >= 1
         /\ (Escaped(c, slashes) \o s)[1] # "quote"
         /\ ReadChar(Escaped(c, slashes) \o s, 1) = Read(c, Len(Escaped(c, slashes)) + 1)
<1>. DEFINE e == Escaped(c, slashes)
            w == e \o s
<1>1. e \in CharText
  BY EscapedTyped
<1>2. w \in CharText /\ Len(e) \in Nat /\ Len(s) \in Nat /\ Len(w) = Len(e) + Len(s)
      /\ \A n \in 1 .. Len(e) : w[n] = e[n]
  BY <1>1, TextBehind
<1>3. DOMAIN w = 1 .. Len(w)
  BY <1>2, LenProperties DEF CharText
<1>. HIDE DEF w
<1>4. \A n \in 1 .. Len(e) : At(w, n) = e[n]
  BY <1>2, <1>3 DEF At
<1>5. CASE c \in {"quote", "\\"} \/ (c = "/" /\ slashes)
  <2>1. e = <<"\\", c>>
    BY <1>5 DEF Escaped
  <2>2. Len(e) = 2 /\ e[1] = "\\" /\ e[2] = c
    BY <2>1
  <2>. HIDE DEF e
  <2>3. w[1] = "\\" /\ At(w, 1 + 1) = c /\ w[1 + 1] = c /\ c \in {"quote", "\\", "/"}
    BY <1>2, <1>4, <1>5, <2>2
  <2>4. ReadChar(w, 1) = Read(c, 1 + 2)
    BY <2>3 DEF ReadChar
  <2>. QED
    BY <2>2, <2>3, <2>4 DEF w, e
<1>6. CASE c = "nl"
  <2>1. e = <<"\\", "n">>
    BY <1>6 DEF Escaped
  <2>2. Len(e) = 2 /\ e[1] = "\\" /\ e[2] = "n"
    BY <2>1
  <2>. HIDE DEF e
  <2>3. w[1] = "\\" /\ At(w, 1 + 1) = "n"
    BY <1>2, <1>4, <2>2
  <2>4. ReadChar(w, 1) = Read("nl", 1 + 2)
    BY <2>3 DEF ReadChar
  <2>. QED
    BY <1>6, <2>2, <2>3, <2>4, SMTT(30) DEF w, e
<1>7. CASE c \in {"nul", "ctl"}
  <2>. DEFINE digits == IF c = "nul" THEN "0000" ELSE "0001"
  <2>1. e = <<"\\", "u", digits>>
    BY <1>7 DEF Escaped
  <2>2. Len(e) = 3 /\ e[1] = "\\" /\ e[2] = "u" /\ e[3] = digits
    BY <2>1
  <2>. HIDE DEF e, digits
  <2>3. w[1] = "\\" /\ At(w, 1 + 1) = "u" /\ At(w, 1 + 1 + 1) = digits
    BY <1>2, <1>4, <2>2
  <2>4. ReadChar(w, 1) = ParseUtf16(w, 1 + 1)
    BY <2>3 DEF ReadChar
  <2>5. ParseUtf16(w, 1 + 1) = Read(c, 1 + 1 + 2)
    BY <1>7, <2>3 DEF ParseUtf16, digits
  <2>. QED
    BY <2>2, <2>3, <2>4, <2>5 DEF w, e
<1>8. CASE c \notin {"quote", "\\", "nl", "nul", "ctl"} /\ ~(c = "/" /\ slashes)
  <2>1. e = <<c>>
    BY <1>8 DEF Escaped
  <2>2. Len(e) = 1 /\ e[1] = c
    BY <2>1
  <2>. HIDE DEF e
  <2>3. w[1] = c
    BY <1>2, <2>2
  <2>4. ReadChar(w, 1) = Read(c, 1 + 1)
    BY <1>8, <2>3 DEF ReadChar
  <2>. QED
    BY <1>8, <2>2, <2>3, <2>4 DEF w, e
<1>. QED
  BY <1>5, <1>6, <1>7, <1>8

\* What json_serialize_string writes from a character on is read as the string from
\* that character on.
LEMMA WrittenIsRead ==
  ASSUME NEW s \in CharText, NEW slashes \in BOOLEAN
  PROVE  GetQuotedString(SerializeString(s, slashes)) =
           [output |-> s, at |-> Len(SerializeString(s, slashes))]
<1>. DEFINE M == Len(s)
            W == WrittenFrom(s, slashes)
            ReadBack(n) == /\ Len(W[n]) \in Nat \ {0}
                           /\ SkipQuotes(W[n]) = Len(W[n])
                           /\ ProcessString(W[n], Len(W[n])) =
                                [output |-> SubSeq(s, n, M), at |-> Len(W[n])]
            D == {n \in Cursors : ReadBack(n)}
<1>1. M \in Nat
  BY LenProperties DEF CharText
<1>2. W \in [Cursors -> CharText]
      /\ \A n \in Cursors : W[n] = WrittenPass(s, slashes, W, n)
  BY WrittenUnfolds
<1>3. 1 \in Cursors /\ M + 1 \in Cursors /\ \A n \in Cursors : n \in Nat
  BY <1>1 DEF Cursors
<1>. HIDE DEF W
<1>4. M + 1 \in D
  <2>. DEFINE v == W[M + 1]
  <2>1. v = <<"quote">> /\ v \in CharText
    <3>1. M + 1 > M
      BY <1>1
    <3>2. W[M + 1] = WrittenPass(s, slashes, W, M + 1) /\ W[M + 1] \in CharText
      BY <1>2, <1>3
    <3>. QED
      BY <3>1, <3>2 DEF WrittenPass
  <2>2. Len(v) = 1 /\ At(v, 1) = "quote"
    BY <2>1 DEF At
  <2>3. SkipQuotes(v) = 1
    <3>. HIDE DEF v
    <3>1. ClosingFrom(v)[1] = ClosingPass(v, ClosingFrom(v), 1)
      BY <1>3, <2>1, ClosingUnfolds
    <3>. QED
      BY <2>2, <3>1, CharsKnown DEF ClosingPass, SkipQuotes
  <2>4. ProcessString(v, 1) = [output |-> <<>>, at |-> 1]
    <3>. HIDE DEF v
    <3>1. ReadFrom(v, 1)[1] = ReadPass(v, 1, ReadFrom(v, 1), 1)
      BY <1>3, <2>1, <2>2, ReadUnfolds
    <3>. QED
      BY <3>1 DEF ReadPass, ProcessString
  <2>5. SubSeq(s, M + 1, M) = <<>>
    BY <1>1, SubSeqEmpty
  <2>6. ReadBack(M + 1)
    <3>. HIDE DEF v, M
    <3>1. Len(v) \in Nat \ {0} /\ SkipQuotes(v) = Len(v)
      BY <2>2, <2>3
    <3>2. ProcessString(v, Len(v)) = [output |-> SubSeq(s, M + 1, M), at |-> Len(v)]
      <4>1. Len(v) = 1
        BY <2>2
      <4>. QED
        BY <2>4, <2>5, <4>1, Zenon
    <3>. QED
      BY <3>1, <3>2 DEF v
  <2>. QED
    BY <1>3, <2>6
<1>5. ASSUME NEW n \in 1 .. M, \A q \in n + 1 .. M + 1 : q \in D
      PROVE  n \in D
  <2>. DEFINE e == Escaped(s[n], slashes)
              v == W[n + 1]
              w == e \o v
              k == Len(e)
              m == Len(v)
  <2>1. n \in Cursors /\ n + 1 \in Cursors /\ n + 1 \in D /\ ~(n > M) /\ n <= M
    <3>1. n + 1 \in n + 1 .. M + 1 /\ n \in Cursors /\ n + 1 \in Cursors /\ ~(n > M) /\ n <= M
      BY <1>1 DEF Cursors
    <3>. HIDE DEF D
    <3>. QED
      BY <1>5, <3>1
  <2>2. s[n] \in Chars
    BY <2>1, TokensRead
  <2>3. e \in CharText /\ v \in CharText
    BY <1>2, <2>1, <2>2, EscapedTyped
  <2>4. W[n] = w
    BY <1>2, <2>1 DEF WrittenPass
  <2>5. k >= 1 /\ w[1] # "quote" /\ ReadChar(w, 1) = Read(s[n], k + 1)
    BY <2>2, <2>3, EscapedIsRead
  <2>6. m \in Nat \ {0} /\ SkipQuotes(v) = m
        /\ ProcessString(v, m) = [output |-> SubSeq(s, n + 1, M), at |-> m]
    BY <2>1
  <2>7. k \in Nat /\ w \in CharText /\ Len(w) = k + m
    <3>. HIDE DEF e, v
    <3>. QED
      BY <2>3, TextBehind
  <2>8. ReadChar(w, 1).char = s[n] /\ ReadChar(w, 1).at = k + 1
    BY <2>5 DEF Read
  <2>9. s[n] # NULL
    BY <2>2, CharsKnown
  <2>. HIDE DEF e, D, M
  <2>10. SkipQuotes(w) = k + m
    <3>1. ClosingFrom(w)[k + 1] = k + ClosingFrom(v)[1]
      <4>1. ClosingFrom(v)[1] # 0 /\ 1 \in 1 .. Len(v) + 1
        BY <2>6 DEF SkipQuotes
      <4>. HIDE DEF v
      <4>. QED
        BY <2>3, <4>1, QuoteBehind
    <3>2. ClosingFrom(w)[1] = ClosingFrom(w)[k + 1]
      <4>1. 1 \in 1 .. Len(w)
        BY <2>6, <2>7
      <4>. HIDE DEF w
      <4>. QED
        BY <2>5, <2>7, <2>8, <2>9, <4>1, SameQuote
    <3>. QED
      BY <2>6, <3>1, <3>2 DEF SkipQuotes
  <2>11. /\ ReadFrom(w, k + m)[k + 1].output = SubSeq(s, n + 1, M)
         /\ ReadFrom(w, k + m)[k + 1].at = k + m
    <3>1. m \in 1 .. Len(v) + 1 /\ 1 \in 1 .. m
      BY <2>6
    <3>2. /\ ReadFrom(w, k + m)[k + 1].output = ReadFrom(v, m)[1].output
          /\ ReadFrom(w, k + m)[k + 1].at = k + ReadFrom(v, m)[1].at
      <4>. HIDE DEF v, m
      <4>. QED
        BY <2>3, <3>1, OutputBehind
    <3>. QED
      BY <2>6, <3>2 DEF ProcessString
  <2>12. ProcessString(w, k + m) = [output |-> SubSeq(s, n, M), at |-> k + m]
    <3>. DEFINE R == ReadFrom(w, k + m)
                rest == R[k + 1]
    <3>1. k + m \in 1 .. Len(w) + 1 /\ ~(1 >= k + m)
      BY <2>5, <2>6, <2>7
    <3>2. R[1] = ReadPass(w, k + m, R, 1)
      <4>. HIDE DEF w, m, k
      <4>. QED
        BY <1>3, <2>7, <3>1, ReadUnfolds
    <3>3. R[1] = Behind(s[n], rest)
      BY <2>8, <2>9, <3>1, <3>2 DEF ReadPass
    <3>4. rest.output = SubSeq(s, n + 1, M) /\ rest.at = k + m
      BY <2>11
    <3>. HIDE DEF w, k, m
    <3>5. SubSeq(s, n + 1, M) \in CharText
      <4>1. \A i \in n + 1 .. M : s[i] \in Chars
        BY <1>1, <2>1, TokensRead DEF M, Cursors
      <4>. QED
        BY <1>1, <4>1, SubSeqProperties DEF CharText
    <3>6. NULL \notin CharText
      BY StringAssumption DEF CharText
    <3>7. SubSeq(s, n, M) = <<s[n]>> \o SubSeq(s, n + 1, M)
      <4>1. n \in 1 .. Len(s) /\ M \in n .. Len(s)
        BY <1>1, <2>1 DEF M
      <4>. HIDE DEF M
      <4>. QED
        BY <4>1, SubSeqRecursiveFirst DEF CharText
    <3>. HIDE DEF rest
    <3>8. R[1] = [output |-> SubSeq(s, n, M), at |-> k + m]
      BY <3>3, <3>4, <3>5, <3>6, <3>7 DEF Behind
    <3>. QED
      BY <3>8 DEF ProcessString
  <2>13. k + m \in Nat \ {0}
    <3>. HIDE DEF k, m
    <3>. QED
      BY <2>6, <2>7
  <2>. HIDE DEF w, k, m
  <2>14. ReadBack(n)
    BY <2>4, <2>7, <2>10, <2>12, <2>13
  <2>. QED
    BY <2>1, <2>14 DEF D
<1>6. \A n \in 1 .. M + 1 : n \in D
  <2>. HIDE DEF D, M
  <2>. QED
    BY <1>1, <1>4, <1>5, Backward
<1>7. ReadBack(1)
  BY <1>1, <1>6
<1>8. SubSeq(s, 1, M) = s
  BY SubSeqFull DEF CharText
<1>9. SerializeString(s, slashes) = W[1]
  BY DEF SerializeString, W
<1>. HIDE DEF M
<1>10. GetQuotedString(W[1]) = [output |-> s, at |-> Len(W[1])]
  BY <1>7, <1>8 DEF GetQuotedString
<1>. QED
  BY <1>9, <1>10

-----------------------------------------------------------------------------
(* The specification.                                                      *)

\* The string is what the parser makes of the text.
StringRead ==
  /\ text \in Seq(Tokens)
  /\ closing = SkipQuotes(text)
  /\ string = GetQuotedString(text).output

LEMMA InitRead == StringInit => StringRead
<1>. SUFFICES ASSUME StringInit
              PROVE  StringRead
  OBVIOUS
<1>1. text = <<>> /\ text \in Seq(Tokens) /\ text \in CharText /\ 1 \in Cursors /\ Len(text) = 0
  BY DEF StringInit, CharText, Cursors
<1>2. SkipQuotes(text) = 0
  <2>1. ClosingFrom(text)[1] = ClosingPass(text, ClosingFrom(text), 1)
    BY <1>1, ClosingUnfolds
  <2>2. At(text, 1) = END
    BY <1>1, TokensRead
  <2>. QED
    BY <2>1, <2>2, CharsKnown DEF ClosingPass, SkipQuotes
<1>. QED
  BY <1>1, <1>2 DEF StringRead, StringInit, GetQuotedString

LEMMA NextRead == StringRead /\ [StringNext]_stringVars => StringRead'
<1>. SUFFICES ASSUME StringRead, [StringNext]_stringVars
              PROVE  StringRead'
  OBVIOUS
<1>1. CASE StringNext
  <2>1. PICK tok \in Tokens : ReadMore(tok)
    BY <1>1 DEF StringNext
  <2>2. text' \in Seq(Tokens)
    BY <2>1, AppendProperties DEF ReadMore, StringRead
  <2>. QED
    BY <2>1, <2>2 DEF ReadMore, StringRead
<1>2. CASE UNCHANGED stringVars
  BY <1>2 DEF stringVars, StringRead
<1>. QED
  BY <1>1, <1>2

LEMMA SpecRead == StringSpec => []StringRead
BY InitRead, NextRead, PTL DEF StringSpec

\* A text that has been read, its closing quote and the string between the quotes.
LEMMA ReadString ==
  ASSUME StringRead, string # NULL
  PROVE  /\ text \in CharText
         /\ closing = SkipQuotes(text) /\ closing # 0
         /\ GetQuotedString(text) = ProcessString(text, closing)
         /\ string = ProcessString(text, closing).output
<1>1. text \in CharText
  BY DEF StringRead, CharText, Chars
<1>2. SkipQuotes(text) # 0
  BY DEF StringRead, GetQuotedString
<1>. QED
  BY <1>1, <1>2 DEF StringRead, GetQuotedString

\* For texts of every length, process_string stops at the quote that skip_quotes has
\* found, and its output, whose room it never checks, fits what was allocated.
THEOREM StringSpecInBounds == StringSpec => []StringsInBounds
<1>1. ASSUME StringRead, string # NULL
      PROVE  GetQuotedString(text).at = closing
             /\ BytesOf(string) + 1 <= InitialSize(text, closing)
  <2>. DEFINE t == text
              c == closing
  <2>1. t \in CharText /\ c = SkipQuotes(t) /\ c # 0 /\ ProcessString(t, c).output # NULL
        /\ GetQuotedString(t) = ProcessString(t, c) /\ string = ProcessString(t, c).output
    BY <1>1, ReadString
  <2>. HIDE DEF t, c
  <2>2. /\ c \in 1 .. Len(t)
        /\ ProcessString(t, c).at = c
        /\ ProcessString(t, c).output \in CharText
        /\ BytesOf(ProcessString(t, c).output) <= BytesOf(SubSeq(t, 1, c - 1))
    BY <2>1, ReadToQuote
  <2>3. BytesOf(string) \in Nat
    BY <2>1, <2>2, BytesCounted
  <2>4. BytesOf(SubSeq(t, 1, c - 1)) \in Nat
    <3>1. Len(t) \in Nat /\ \A i \in 1 .. c - 1 : t[i] \in Chars
      BY <2>1, <2>2, LenProperties, TokensRead DEF CharText, Cursors
    <3>2. SubSeq(t, 1, c - 1) \in CharText
      BY <2>2, <3>1, SubSeqProperties DEF CharText
    <3>. QED
      BY <3>2, BytesCounted
  <2>5. BytesOf(string) + 1 <= BytesOf(SubSeq(t, 1, c - 1)) + 1
    BY <2>1, <2>2, <2>3, <2>4
  <2>. QED
    BY <2>1, <2>2, <2>5 DEF InitialSize, t, c
<1>2. StringRead => StringsInBounds
  BY <1>1 DEF StringsInBounds, EndsAtQuote, OutputFits
<1>. QED
  BY <1>2, SpecRead, PTL

\* Every string that has been read from a text is read again from what
\* json_serialize_string writes for it.
THEOREM StringSpecReversible == StringSpec => []EscapesReversible
<1>1. StringRead => EscapesReversible
  <2>. SUFFICES ASSUME StringRead, string # NULL, NEW slashes \in BOOLEAN
                PROVE  GetQuotedString(SerializeString(string, slashes)) =
                         [output |-> string, at |-> Len(SerializeString(string, slashes))]
    BY DEF EscapesReversible
  <2>. DEFINE t == text
              c == closing
              s == string
  <2>1. t \in CharText /\ c = SkipQuotes(t) /\ c # 0 /\ s = ProcessString(t, c).output
        /\ s # NULL
    BY ReadString
  <2>. HIDE DEF t, c, s
  <2>2. s \in CharText
    BY <2>1, ReadToQuote
  <2>3. GetQuotedString(SerializeString(s, slashes)) =
          [output |-> s, at |-> Len(SerializeString(s, slashes))]
    BY <2>2, WrittenIsRead
  <2>. QED
    BY <2>3 DEF s
<1>. QED
  BY <1>1, SpecRead, PTL
=============================================================================
