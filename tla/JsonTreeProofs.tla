---------------------------- MODULE JsonTreeProofs ----------------------------
(***************************************************************************)
(* Proofs about JsonTree, for any number of addresses, any names, paths of *)
(* any length and any texts.                                               *)
(***************************************************************************)
EXTENDS JsonTree, FiniteSetTheorems, SequenceTheorems, WellFoundedInduction, TLAPS

Items == Seq([name : MemberNames \union {NULL}, value : Ids])

Heaps == [kind   : [Ids -> Kinds \union {"free"}],
          parent : [Ids -> Ids \union {NULL}],
          items  : [Ids -> Items]]

-----------------------------------------------------------------------------
(* Counting.                                                               *)

LEMMA LeastNat ==
  ASSUME NEW D, D \subseteq Nat, D # {}
  PROVE  \E d \in D : \A e \in D : d <= e
<1>1. PICK d \in D : \A e \in D : ~ (<<e, d>> \in OpToRel(<, Nat))
  BY NatLessThanWellFounded, WFMin
<1>2. \A e \in D : ~(e < d)
  BY <1>1 DEF OpToRel
<1>. QED
  BY <1>2

\* What holds at the beginning and after each step holds at the end.
LEMMA Forward ==
  ASSUME NEW M \in Nat, NEW D, 0 \in D,
         \A n \in 1 .. M : n - 1 \in D => n \in D
  PROVE  \A n \in 0 .. M : n \in D
<1>. SUFFICES ASSUME NEW b \in 0 .. M, b \notin D
              PROVE  FALSE
  OBVIOUS
<1>. DEFINE S == {n \in 0 .. M : n \notin D}
<1>1. PICK d \in S : \A e \in S : d <= e
  <2>1. S \subseteq Nat /\ b \in S
    OBVIOUS
  <2>. HIDE DEF S
  <2>. QED
    BY <2>1, LeastNat
<1>2. d \in 1 .. M
  BY <1>1
<1>3. d - 1 \in D
  <2>. SUFFICES ASSUME d - 1 \notin D
                PROVE  FALSE
    OBVIOUS
  <2>1. d - 1 \in S
    BY <1>2
  <2>2. d <= d - 1
    BY <1>1, <2>1
  <2>. QED
    BY <1>2, <2>2
<1>. QED
  BY <1>1, <1>2, <1>3

-----------------------------------------------------------------------------
(* What is below a set of values.                                          *)

More(h, S) == UNION {Members(h, v) : v \in S}

Closed(h, S) == \A u \in S : Members(h, u) \subseteq S

LEMMA MembersTyped ==
  ASSUME NEW h \in Heaps, NEW v \in Ids
  PROVE  /\ Members(h, v) \subseteq Ids
         /\ h.items[v] \in Items
         /\ DOMAIN h.items[v] = 1 .. Len(h.items[v])
         /\ Len(h.items[v]) \in Nat
         /\ \A n \in DOMAIN h.items[v] :
              /\ h.items[v][n].value \in Members(h, v)
              /\ h.items[v][n].value \in Ids
              /\ h.items[v][n].name \in MemberNames \union {NULL}
<1>1. h.items[v] \in Items
  BY DEF Heaps
<1>. DEFINE its == h.items[v]
<1>2. DOMAIN its = 1 .. Len(its) /\ Len(its) \in Nat
  BY <1>1, LenProperties DEF Items
<1>3. \A n \in DOMAIN its : its[n] \in [name : MemberNames \union {NULL}, value : Ids]
  BY <1>1, <1>2, ElementOfSeq DEF Items
<1>. QED
  BY <1>1, <1>2, <1>3 DEF Members

\* Sets with fewer than k addresses outside.
Within(k) == {S \in SUBSET Ids : Cardinality(Ids \ S) < k}

BelowPass(h, f, S) == IF More(h, S) \subseteq S THEN S ELSE f[S \union More(h, S)]

LEMMA WithinGrows ==
  ASSUME NEW h \in Heaps, NEW k \in Nat, NEW S \in Within(k + 1), ~(More(h, S) \subseteq S)
  PROVE  S \union More(h, S) \in Within(k)
<1>. DEFINE T == S \union More(h, S)
<1>1. S \in SUBSET Ids /\ Cardinality(Ids \ S) < k + 1
  BY DEF Within
<1>2. T \subseteq Ids
  BY <1>1, MembersTyped DEF More
<1>3. PICK m \in T : m \notin S
  OBVIOUS
<1>4. IsFiniteSet(Ids \ S) /\ IsFiniteSet(Ids \ T)
  BY FS_Subset, TreeAssumption
<1>5. Ids \ T \in SUBSET ((Ids \ S) \ {m})
  BY <1>3
<1>6. /\ IsFiniteSet((Ids \ S) \ {m})
      /\ Cardinality((Ids \ S) \ {m}) = Cardinality(Ids \ S) - 1
  <2>1. m \in Ids \ S
    BY <1>2, <1>3
  <2>. QED
    BY <1>4, <2>1, FS_RemoveElement
<1>7. Cardinality(Ids \ T) <= Cardinality((Ids \ S) \ {m})
  BY <1>5, <1>6, FS_Subset
<1>8. Cardinality(Ids \ T) \in Nat /\ Cardinality(Ids \ S) \in Nat
  BY <1>4, FS_CardinalityType
<1>9. Cardinality(Ids \ T) < k
  BY <1>1, <1>6, <1>7, <1>8
<1>. QED
  BY <1>2, <1>9 DEF Within

LEMMA AllWithin ==
  ASSUME NEW S \in SUBSET Ids
  PROVE  \E k \in Nat : S \in Within(k)
<1>1. IsFiniteSet(Ids \ S)
  BY FS_Subset, TreeAssumption
<1>2. Cardinality(Ids \ S) \in Nat
  BY <1>1, FS_CardinalityType
<1>3. Cardinality(Ids \ S) + 1 \in Nat /\ Cardinality(Ids \ S) < Cardinality(Ids \ S) + 1
  BY <1>2
<1>. QED
  BY <1>3 DEF Within

\* The function that Below chooses exists.
LEMMA BelowUnfolds ==
  ASSUME NEW h \in Heaps
  PROVE  Below(h) = [S \in SUBSET Ids |-> BelowPass(h, Below(h), S)]
<1>. DEFINE D == {k \in Nat : \E f : f = [S \in Within(k) |-> BelowPass(h, f, S)]}
<1>. DEFINE M == Cardinality(Ids) + 1
<1>1. M \in Nat
  BY FS_CardinalityType, TreeAssumption
<1>2. 0 \in D
  <2>. DEFINE f == [S \in Within(0) |-> S]
  <2>1. Within(0) = {}
    <3>. SUFFICES ASSUME NEW S \in Within(0)
                  PROVE  FALSE
      OBVIOUS
    <3>1. IsFiniteSet(Ids \ S)
      BY FS_Subset, TreeAssumption
    <3>2. Cardinality(Ids \ S) \in Nat
      BY <3>1, FS_CardinalityType
    <3>. QED
      BY <3>2 DEF Within
  <2>2. f = [S \in Within(0) |-> BelowPass(h, f, S)]
    BY <2>1
  <2>. QED
    BY <2>2
<1>3. ASSUME NEW n \in 1 .. M, n - 1 \in D
      PROVE  n \in D
  <2>. DEFINE k == n - 1
  <2>0. k \in Nat /\ n = k + 1 /\ n \in Nat
    BY <1>1
  <2>. HIDE DEF k
  <2>1. PICK f : f = [S \in Within(k) |-> BelowPass(h, f, S)]
    BY <1>3 DEF k
  <2>. DEFINE g == [S \in Within(n) |-> BelowPass(h, f, S)]
  <2>2. Within(k) \subseteq Within(n)
    BY <2>0, FS_Subset, FS_CardinalityType, TreeAssumption DEF Within
  <2>3. \A S \in Within(k) : g[S] = f[S]
    BY <2>1, <2>2
  <2>4. \A S \in Within(n) : BelowPass(h, f, S) = BelowPass(h, g, S)
    <3>. SUFFICES ASSUME NEW S \in Within(n), ~(More(h, S) \subseteq S)
                  PROVE  f[S \union More(h, S)] = g[S \union More(h, S)]
      BY DEF BelowPass
    <3>1. S \union More(h, S) \in Within(k)
      BY <2>0, WithinGrows
    <3>. QED
      BY <3>1, <2>3
  <2>5. g = [S \in Within(n) |-> BelowPass(h, g, S)]
    BY <2>4
  <2>. HIDE DEF g
  <2>. QED
    BY <2>0, <2>5
<1>4. M \in D
  <2>. HIDE DEF D, M
  <2>1. \A n \in 1 .. M : n - 1 \in D => n \in D
    BY <1>3
  <2>2. \A n \in 0 .. M : n \in D
    BY <1>1, <1>2, <2>1, Forward
  <2>. QED
    BY <1>1, <2>2
<1>5. Within(M) = SUBSET Ids
  <2>. SUFFICES ASSUME NEW S \in SUBSET Ids
                PROVE  Cardinality(Ids \ S) < M
    BY DEF Within
  <2>1. Cardinality(Ids \ S) <= Cardinality(Ids)
    BY FS_Subset, TreeAssumption
  <2>2. IsFiniteSet(Ids \ S)
    BY FS_Subset, TreeAssumption
  <2>3. Cardinality(Ids \ S) \in Nat /\ Cardinality(Ids) \in Nat
    BY <2>2, FS_CardinalityType, TreeAssumption
  <2>. QED
    BY <2>1, <2>3
<1>6. \E f : f = [S \in SUBSET Ids |-> BelowPass(h, f, S)]
  BY <1>4, <1>5
<1>7. Below(h) = CHOOSE f : f = [S \in SUBSET Ids |-> BelowPass(h, f, S)]
  BY DEF Below, BelowPass, More
<1>. QED
  BY <1>6, <1>7

\* Below(h)[S] is the least set that holds S and the members of what it holds.
LEMMA BelowLeast ==
  ASSUME NEW h \in Heaps, NEW S \in SUBSET Ids
  PROVE  /\ S \subseteq Below(h)[S]
         /\ Below(h)[S] \subseteq Ids
         /\ Closed(h, Below(h)[S])
         /\ \A T \in SUBSET Ids : S \subseteq T /\ Closed(h, T) => Below(h)[S] \subseteq T
<1>. DEFINE Least(R) == /\ R \subseteq Below(h)[R]
                        /\ Below(h)[R] \subseteq Ids
                        /\ Closed(h, Below(h)[R])
                        /\ \A T \in SUBSET Ids :
                             R \subseteq T /\ Closed(h, T) => Below(h)[R] \subseteq T
            D == {k \in Nat : \A R \in Within(k) : Least(R)}
<1>1. PICK M \in Nat : S \in Within(M)
  BY AllWithin
<1>2. 0 \in D
  <2>. SUFFICES ASSUME NEW R \in Within(0)
                PROVE  FALSE
    OBVIOUS
  <2>1. IsFiniteSet(Ids \ R)
    BY FS_Subset, TreeAssumption
  <2>2. Cardinality(Ids \ R) \in Nat
    BY <2>1, FS_CardinalityType
  <2>. QED
    BY <2>2 DEF Within
<1>3. ASSUME NEW n \in 1 .. M, n - 1 \in D
      PROVE  n \in D
  <2>. DEFINE k == n - 1
  <2>0. k \in Nat /\ n = k + 1 /\ n \in Nat
    OBVIOUS
  <2>1. \A R \in Within(k) : Least(R)
    BY <1>3
  <2>. HIDE DEF k
  <2>2. ASSUME NEW R \in Within(n)
        PROVE  Least(R)
    <3>1. R \in SUBSET Ids
      BY DEF Within
    <3>2. Below(h)[R] = BelowPass(h, Below(h), R)
      BY <3>1, BelowUnfolds
    <3>3. CASE More(h, R) \subseteq R
      <4>1. Below(h)[R] = R
        BY <3>2, <3>3 DEF BelowPass
      <4>2. Closed(h, R)
        BY <3>3 DEF Closed, More
      <4>. QED
        BY <3>1, <4>1, <4>2
    <3>4. CASE ~(More(h, R) \subseteq R)
      <4>. DEFINE Q == R \union More(h, R)
      <4>1. Below(h)[R] = Below(h)[Q]
        BY <3>2, <3>4 DEF BelowPass
      <4>2. Least(Q)
        BY <2>0, <2>1, <3>4, WithinGrows
      <4>3. ASSUME NEW T \in SUBSET Ids, R \subseteq T, Closed(h, T)
            PROVE  Below(h)[R] \subseteq T
        <5>1. Q \subseteq T
          BY <4>3 DEF More, Closed
        <5>. QED
          BY <4>1, <4>2, <4>3, <5>1
      <4>. QED
        BY <4>1, <4>2, <4>3
    <3>. QED
      BY <3>3, <3>4
  <2>. HIDE DEF Least
  <2>. QED
    BY <2>0, <2>2
<1>4. M \in D
  <2>. HIDE DEF D
  <2>1. \A n \in 1 .. M : n - 1 \in D => n \in D
    BY <1>3
  <2>2. \A n \in 0 .. M : n \in D
    BY <1>1, <1>2, <2>1, Forward
  <2>. QED
    BY <1>1, <2>2
<1>. QED
  BY <1>1, <1>4

-----------------------------------------------------------------------------
(* Sound heaps: R is who is in nobody's slot, L those of them whose parent *)
(* is set all the same.                                                    *)

\* No value is in two slots.
SlotsDistinct(h) ==
  \A c, d \in Ids : \A m \in DOMAIN h.items[c], n \in DOMAIN h.items[d] :
    h.items[c][m].value = h.items[d][n].value => c = d /\ m = n

\* What is in a slot is a live value, none of R, and its container its parent.
MembersHeld(h, R) ==
  \A c \in Ids : \A m \in Members(h, c) : m \in Live(h) \ R /\ h.parent[m] = c

\* A freed value has no members any more.
FreedEmpty(h) == \A v \in Ids \ Live(h) : h.items[v] = <<>>

NamesDistinct(h) ==
  \A o \in Ids : h.kind[o] = "object" =>
    \A m, n \in DOMAIN h.items[o] : h.items[o][m].name = h.items[o][n].name => m = n

\* Every live value is below R.
AllReached(h, R) == \A S \in SUBSET Ids : R \subseteq S /\ Closed(h, S) => Live(h) \subseteq S

Sound(h, R, L) ==
  /\ h \in Heaps
  /\ R \subseteq Live(h)
  /\ L = {v \in R : h.parent[v] # NULL}
  /\ SlotsDistinct(h)
  /\ MembersHeld(h, R)
  /\ FreedEmpty(h)
  /\ NamesDistinct(h)
  /\ AllReached(h, R)

LEMMA LiveTyped == \A h : Live(h) \subseteq Ids
  BY DEF Live

\* A value has one container.
LEMMA OneContainer ==
  ASSUME NEW h, NEW R, NEW L, Sound(h, R, L), NEW c \in Ids, NEW d \in Ids,
         NEW m \in Members(h, c) \intersect Members(h, d)
  PROVE  c = d
  BY DEF Sound, SlotsDistinct, Members

\* What has members is live.
LEMMA ContainerLive ==
  ASSUME NEW h, NEW R, NEW L, Sound(h, R, L), NEW c \in Ids, NEW m \in Members(h, c)
  PROVE  c \in Live(h)
  BY DEF Sound, FreedEmpty, Members

\* What is below X and not in X has its container below X.
LEMMA ContainerBelow ==
  ASSUME NEW h \in Heaps, NEW X \in SUBSET Ids, NEW m \in Below(h)[X], m \notin X
  PROVE  \E c \in Below(h)[X] : m \in Members(h, c)
<1>. DEFINE T == Below(h)[X]
            S == T \ {m}
<1>. SUFFICES ASSUME \A c \in T : m \notin Members(h, c)
              PROVE  FALSE
  OBVIOUS
<1>1. X \subseteq T /\ T \subseteq Ids /\ Closed(h, T)
  BY BelowLeast
<1>2. X \subseteq S /\ S \in SUBSET Ids
  BY <1>1
<1>3. Closed(h, S)
  BY <1>1 DEF Closed
<1>4. T \subseteq S
  BY <1>2, <1>3, BelowLeast
<1>. QED
  BY <1>4

\* No other root is below a set.
LEMMA RootsApart ==
  ASSUME NEW h, NEW R, NEW L, Sound(h, R, L), NEW X \in SUBSET Ids, NEW r \in R, r \notin X
  PROVE  r \notin Below(h)[X]
<1>. SUFFICES ASSUME r \in Below(h)[X]
              PROVE  FALSE
  OBVIOUS
<1>1. h \in Heaps
  BY DEF Sound
<1>2. PICK c \in Below(h)[X] : r \in Members(h, c)
  BY <1>1, ContainerBelow
<1>3. c \in Ids
  BY <1>1, <1>2, BelowLeast
<1>. QED
  BY <1>2, <1>3 DEF Sound, MembersHeld

\* Nothing below a set X has its container outside, unless it is in X.
LEMMA OutsideClosed ==
  ASSUME NEW h, NEW R, NEW L, Sound(h, R, L), NEW X \in SUBSET Ids, NEW u \in Ids,
         u \notin Below(h)[X], NEW m \in Members(h, u), m \notin X
  PROVE  m \notin Below(h)[X]
<1>. SUFFICES ASSUME m \in Below(h)[X]
              PROVE  FALSE
  OBVIOUS
<1>1. h \in Heaps
  BY DEF Sound
<1>2. PICK c \in Below(h)[X] : m \in Members(h, c)
  BY <1>1, ContainerBelow
<1>3. c \in Ids
  BY <1>1, <1>2, BelowLeast
<1>4. c = u
  BY <1>2, <1>3, OneContainer
<1>. QED
  BY <1>2, <1>4

\* No container is below its members.
LEMMA NoCycle ==
  ASSUME NEW h, NEW R, NEW L, Sound(h, R, L), NEW c \in Live(h),
         NEW X \in SUBSET Members(h, c)
  PROVE  c \notin Below(h)[X]
<1>. DEFINE T == Below(h)[X]
            S == Ids \ T
<1>. SUFFICES ASSUME c \in T
              PROVE  FALSE
  OBVIOUS
<1>1. h \in Heaps /\ c \in Ids
  BY DEF Sound, Live
<1>2. X \in SUBSET Ids
  BY <1>1, MembersTyped
<1>3. R \subseteq S
  <2>. SUFFICES ASSUME NEW r \in R
                PROVE  r \in S
    OBVIOUS
  <2>1. r \in Ids
    BY LiveTyped DEF Sound
  <2>2. r \notin X
    BY <1>1 DEF Sound, MembersHeld
  <2>3. r \notin T
    BY <1>2, <2>2, RootsApart
  <2>. QED
    BY <2>1, <2>3
<1>4. Closed(h, S)
  <2>. SUFFICES ASSUME NEW u \in Ids, u \notin T, NEW m \in Members(h, u)
                PROVE  m \in S
    BY DEF Closed
  <2>1. m \in Ids
    BY <1>1, MembersTyped
  <2>2. m \notin X
    <3>. SUFFICES ASSUME m \in X
                  PROVE  FALSE
      OBVIOUS
    <3>1. m \in Members(h, c) \intersect Members(h, u)
      OBVIOUS
    <3>2. c = u
      BY <1>1, <3>1, OneContainer
    <3>. QED
      BY <3>2
  <2>3. m \notin T
    BY <1>2, <2>2, OutsideClosed
  <2>. QED
    BY <2>1, <2>3
<1>5. Live(h) \subseteq S
  BY <1>3, <1>4 DEF Sound, AllReached
<1>. QED
  BY <1>5

\* What is below two different roots is different.
LEMMA TreesApart ==
  ASSUME NEW h, NEW R, NEW L, Sound(h, R, L), NEW X \in SUBSET R, NEW r \in R, r \notin X
  PROVE  Below(h)[{r}] \intersect Below(h)[X] = {}
<1>. DEFINE T == Below(h)[X]
            S == Ids \ T
<1>1. h \in Heaps /\ X \in SUBSET Ids /\ r \in Ids
  BY LiveTyped DEF Sound
<1>2. {r} \subseteq S
  BY <1>1, RootsApart
<1>3. Closed(h, S)
  <2>. SUFFICES ASSUME NEW u \in Ids, u \notin T, NEW m \in Members(h, u)
                PROVE  m \in S
    BY DEF Closed
  <2>1. m \in Ids /\ m \notin X
    BY <1>1, MembersTyped DEF Sound, MembersHeld
  <2>2. m \notin T
    BY <1>1, <2>1, OutsideClosed
  <2>. QED
    BY <2>1, <2>2
<1>4. Below(h)[{r}] \subseteq S
  BY <1>1, <1>2, <1>3, BelowLeast
<1>. QED
  BY <1>4

\* Everything below live values is live.
LEMMA BelowLive ==
  ASSUME NEW h, NEW R, NEW L, Sound(h, R, L), NEW X \in SUBSET Live(h)
  PROVE  Below(h)[X] \subseteq Live(h)
<1>1. h \in Heaps /\ X \in SUBSET Ids /\ Live(h) \in SUBSET Ids
  BY LiveTyped DEF Sound
<1>2. Closed(h, Live(h))
  BY <1>1 DEF Closed, Sound, MembersHeld
<1>. QED
  BY <1>1, <1>2, BelowLeast

\* Every live value that is no root has a slot.
LEMMA HasSlot ==
  ASSUME NEW h, NEW R, NEW L, Sound(h, R, L), NEW v \in Live(h), v \notin R
  PROVE  \E c \in Live(h) : v \in Members(h, c)
<1>. DEFINE S == Ids \ {v}
<1>. SUFFICES ASSUME \A c \in Ids : v \notin Members(h, c)
              PROVE  FALSE
  BY ContainerLive
<1>1. h \in Heaps /\ R \subseteq S
  BY LiveTyped DEF Sound
<1>2. Closed(h, S)
  BY <1>1, MembersTyped DEF Closed
<1>3. Live(h) \subseteq S
  BY <1>1, <1>2 DEF Sound, AllReached
<1>. QED
  BY <1>3

\* Two heaps in which the values below X have the same members have the same
\* values below X.
LEMMA SameBelow ==
  ASSUME NEW h \in Heaps, NEW g \in Heaps, NEW X \in SUBSET Ids,
         \A u \in Below(h)[X] : g.items[u] = h.items[u]
  PROVE  Below(g)[X] = Below(h)[X]
<1>. DEFINE T == Below(h)[X]
            U == Below(g)[X]
<1>1. X \subseteq T /\ T \in SUBSET Ids /\ Closed(h, T)
  BY BelowLeast
<1>2. X \subseteq U /\ U \in SUBSET Ids /\ Closed(g, U)
  BY BelowLeast
<1>3. \A u \in T : Members(g, u) = Members(h, u)
  BY DEF Members
<1>4. U \subseteq T
  <2>1. Closed(g, T)
    BY <1>1, <1>3 DEF Closed
  <2>. QED
    BY <1>1, <2>1, BelowLeast
<1>5. T \subseteq U
  <2>1. Closed(h, U)
    BY <1>2, <1>3, <1>4 DEF Closed
  <2>. QED
    BY <1>2, <2>1, BelowLeast
<1>. QED
  BY <1>4, <1>5

-----------------------------------------------------------------------------
(* Making a value.                                                         *)

\* g is h with v made.
Made(h, g, v, kind) ==
  /\ g \in Heaps
  /\ g.kind[v] = kind /\ g.parent[v] = NULL /\ g.items[v] = <<>>
  /\ \A u \in Ids \ {v} :
       g.kind[u] = h.kind[u] /\ g.parent[u] = h.parent[u] /\ g.items[u] = h.items[u]

LEMMA NewMakes ==
  ASSUME NEW h \in Heaps, NEW kind \in Kinds, NEW new \in New(h, kind)
  PROVE  \/ new.id = NULL /\ new.heap = h
         \/ new.id \in Ids \ Live(h) /\ Made(h, new.heap, new.id, kind)
<1>. SUFFICES ASSUME new # [heap |-> h, id |-> NULL]
              PROVE  new.id \in Ids \ Live(h) /\ Made(h, new.heap, new.id, kind)
  OBVIOUS
<1>1. PICK v \in Ids \ Live(h) :
        new = [heap |-> [h EXCEPT !.kind[v] = kind, !.parent[v] = NULL, !.items[v] = <<>>], id |-> v]
  BY DEF New
<1>. DEFINE g == [h EXCEPT !.kind[v] = kind, !.parent[v] = NULL, !.items[v] = <<>>]
<1>2. new.heap = g /\ new.id = v
  BY <1>1
<1>3. <<>> \in Items
  BY EmptySeq DEF Items
<1>4. g \in Heaps
  BY <1>3 DEF Heaps
<1>5. /\ g.kind = [h.kind EXCEPT ![v] = kind]
      /\ g.parent = [h.parent EXCEPT ![v] = NULL]
      /\ g.items = [h.items EXCEPT ![v] = <<>>]
  BY DEF Heaps
<1>6. h.kind \in [Ids -> Kinds \union {"free"}] /\ DOMAIN h.parent = Ids /\ DOMAIN h.items = Ids
  BY DEF Heaps
<1>. HIDE DEF g
<1>7. Made(h, g, v, kind)
  BY <1>4, <1>5, <1>6 DEF Made
<1>. QED
  BY <1>2, <1>7

\* Two heaps with the same trees.
SameTrees(h, g) ==
  /\ \A u \in Ids : g.items[u] = h.items[u]
  /\ \A X \in SUBSET Ids : Below(g)[X] = Below(h)[X]

LEMMA MadeSound ==
  ASSUME NEW h, NEW R, NEW L, Sound(h, R, L), NEW v \in Ids \ Live(h), NEW kind \in Kinds,
         NEW g, Made(h, g, v, kind)
  PROVE  /\ Sound(g, R \union {v}, L)
         /\ Live(g) = Live(h) \union {v}
         /\ SameTrees(h, g)
<1>1. h \in Heaps /\ g \in Heaps
  BY DEF Sound, Made
<1>2. kind # "free"
  BY TreeAssumption
<1>3. Live(g) = Live(h) \union {v}
  BY <1>2 DEF Live, Made
<1>4. \A u \in Ids : g.items[u] = h.items[u]
  BY DEF Made, Sound, FreedEmpty
<1>5. \A u \in Ids : Members(g, u) = Members(h, u)
  BY <1>4 DEF Members
<1>6. R \union {v} \subseteq Live(g)
  BY <1>3 DEF Sound
<1>7. L = {r \in R \union {v} : g.parent[r] # NULL}
  BY LiveTyped DEF Sound, Made
<1>8. SlotsDistinct(g)
  BY <1>4 DEF Sound, SlotsDistinct
<1>9. MembersHeld(g, R \union {v})
  <2>. SUFFICES ASSUME NEW c \in Ids, NEW m \in Members(g, c)
                PROVE  m \in Live(g) \ (R \union {v}) /\ g.parent[m] = c
    BY DEF MembersHeld
  <2>1. m \in Live(h) \ R /\ h.parent[m] = c
    BY <1>5 DEF Sound, MembersHeld
  <2>. QED
    BY <1>3, <2>1, LiveTyped DEF Made
<1>10. FreedEmpty(g)
  BY <1>3, <1>4 DEF Sound, FreedEmpty
<1>11. NamesDistinct(g)
  <2>. SUFFICES ASSUME NEW o \in Ids, g.kind[o] = "object",
                       NEW m \in DOMAIN g.items[o], NEW n \in DOMAIN g.items[o],
                       g.items[o][m].name = g.items[o][n].name
                PROVE  m = n
    BY DEF NamesDistinct
  <2>1. CASE o = v
    <3>1. DOMAIN g.items[o] = {}
      BY <2>1 DEF Made
    <3>. QED
      BY <3>1
  <2>2. CASE o # v
    BY <1>4, <2>2 DEF Made, Sound, NamesDistinct
  <2>. QED
    BY <2>1, <2>2
<1>12. AllReached(g, R \union {v})
  <2>. SUFFICES ASSUME NEW S \in SUBSET Ids, R \union {v} \subseteq S, Closed(g, S)
                PROVE  Live(g) \subseteq S
    BY DEF AllReached
  <2>1. Closed(h, S)
    BY <1>5 DEF Closed
  <2>. QED
    BY <1>3, <2>1 DEF Sound, AllReached
<1>13. \A X \in SUBSET Ids : Below(g)[X] = Below(h)[X]
  <2>. SUFFICES ASSUME NEW X \in SUBSET Ids
                PROVE  Below(g)[X] = Below(h)[X]
    OBVIOUS
  <2>1. Below(h)[X] \subseteq Ids
    BY <1>1, BelowLeast
  <2>. QED
    BY <1>1, <1>4, <2>1, SameBelow
<1>14. Sound(g, R \union {v}, L)
  BY <1>1, <1>6, <1>7, <1>8, <1>9, <1>10, <1>11, <1>12 DEF Sound
<1>. QED
  BY <1>3, <1>4, <1>13, <1>14 DEF SameTrees

\* g is h with a new root v.
Fresh(h, R, L, v, kind, g) ==
  /\ v \in Ids \ Live(h)
  /\ Made(h, g, v, kind)
  /\ Sound(g, R \union {v}, L)
  /\ Live(g) = Live(h) \union {v}
  /\ SameTrees(h, g)

LEMMA NewSound ==
  ASSUME NEW h, NEW R, NEW L, Sound(h, R, L), NEW kind \in Kinds,
         NEW new \in New(h, kind), new.id # NULL
  PROVE  Fresh(h, R, L, new.id, kind, new.heap)
<1>. DEFINE v == new.id
            g == new.heap
<1>1. v \in Ids \ Live(h) /\ Made(h, g, v, kind)
  BY NewMakes DEF Sound
<1>. HIDE DEF v, g
<1>2. Sound(g, R \union {v}, L)
  BY <1>1, MadeSound
<1>3. Live(g) = Live(h) \union {v}
  BY <1>1, MadeSound, ZenonT(60)
<1>4. SameTrees(h, g)
  BY <1>1, MadeSound, ZenonT(60)
<1>5. Fresh(h, R, L, v, kind, g)
  BY <1>1, <1>2, <1>3, <1>4 DEF Fresh
<1>. QED
  BY <1>5 DEF v, g

-----------------------------------------------------------------------------
(* Freeing values.                                                         *)

\* g is h without what is below X.
Freed(h, g, X) ==
  /\ g \in Heaps
  /\ \A u \in Below(h)[X] : g.kind[u] = "free" /\ g.parent[u] = NULL /\ g.items[u] = <<>>
  /\ \A u \in Ids \ Below(h)[X] :
       g.kind[u] = h.kind[u] /\ g.parent[u] = h.parent[u] /\ g.items[u] = h.items[u]

LEMMA FreeValuesFrees ==
  ASSUME NEW h \in Heaps, NEW X \in SUBSET Ids
  PROVE  Freed(h, FreeValues(h, X), X)
<1>. DEFINE T == Below(h)[X]
            kinds == [v \in Ids |-> IF v \in T THEN "free" ELSE h.kind[v]]
            parents == [v \in Ids |-> IF v \in T THEN NULL ELSE h.parent[v]]
            itemss == [v \in Ids |-> IF v \in T THEN <<>> ELSE h.items[v]]
            g == [kind |-> kinds, parent |-> parents, items |-> itemss]
<1>1. FreeValues(h, X) = g
  BY DEF FreeValues
<1>2. <<>> \in Items
  BY EmptySeq DEF Items
<1>3. T \subseteq Ids
  BY BelowLeast
<1>. HIDE DEF T
<1>4. /\ kinds \in [Ids -> Kinds \union {"free"}]
      /\ parents \in [Ids -> Ids \union {NULL}]
      /\ itemss \in [Ids -> Items]
  BY <1>2 DEF Heaps
<1>5. g \in Heaps
  BY <1>4 DEF Heaps
<1>6. \A u \in Ids : /\ g.kind[u] = IF u \in T THEN "free" ELSE h.kind[u]
                     /\ g.parent[u] = IF u \in T THEN NULL ELSE h.parent[u]
                     /\ g.items[u] = IF u \in T THEN <<>> ELSE h.items[u]
  OBVIOUS
<1>. HIDE DEF g
<1>7. /\ \A u \in T : g.kind[u] = "free" /\ g.parent[u] = NULL /\ g.items[u] = <<>>
      /\ \A u \in Ids \ T :
           g.kind[u] = h.kind[u] /\ g.parent[u] = h.parent[u] /\ g.items[u] = h.items[u]
  BY <1>3, <1>6
<1>. QED
  BY <1>1, <1>5, <1>7 DEF Freed, T

LEMMA FreedSound ==
  ASSUME NEW h, NEW R, NEW L, Sound(h, R, L), NEW X \in SUBSET R, NEW g, Freed(h, g, X)
  PROVE  /\ Sound(g, R \ X, L \ X)
         /\ Live(g) = Live(h) \ Below(h)[X]
<1>. DEFINE T == Below(h)[X]
<1>1. h \in Heaps /\ g \in Heaps /\ X \in SUBSET Ids /\ R \subseteq Ids
  BY LiveTyped DEF Sound, Freed
<1>2. X \subseteq T /\ T \subseteq Ids /\ Closed(h, T)
  BY <1>1, BelowLeast
<1>3. Live(g) = Live(h) \ T
  BY <1>2 DEF Live, Freed
<1>4. \A r \in R \ X : r \notin T
  BY <1>1, RootsApart
<1>5. R \ X \subseteq Live(g)
  BY <1>3, <1>4 DEF Sound
<1>6. L \ X = {r \in R \ X : g.parent[r] # NULL}
  BY <1>1, <1>4 DEF Sound, Freed
<1>7. \A c \in Ids : \A n \in DOMAIN g.items[c] :
        c \notin T /\ g.items[c] = h.items[c] /\ g.kind[c] = h.kind[c]
  <2>. SUFFICES ASSUME NEW c \in Ids, NEW n \in DOMAIN g.items[c]
                PROVE  c \notin T
    BY DEF Freed
  <2>1. c \in T => DOMAIN g.items[c] = {}
    BY DEF Freed
  <2>. QED
    BY <2>1
<1>8. SlotsDistinct(g)
  <2>. SUFFICES ASSUME NEW c \in Ids, NEW d \in Ids,
                       NEW m \in DOMAIN g.items[c], NEW n \in DOMAIN g.items[d],
                       g.items[c][m].value = g.items[d][n].value
                PROVE  c = d /\ m = n
    BY DEF SlotsDistinct
  <2>1. g.items[c] = h.items[c] /\ g.items[d] = h.items[d]
    BY <1>7
  <2>. QED
    BY <2>1 DEF Sound, SlotsDistinct
<1>9. MembersHeld(g, R \ X)
  <2>. SUFFICES ASSUME NEW c \in Ids, NEW m \in Members(g, c)
                PROVE  m \in Live(g) \ (R \ X) /\ g.parent[m] = c
    BY DEF MembersHeld
  <2>1. c \notin T /\ m \in Members(h, c)
    BY <1>7 DEF Members
  <2>2. m \in Live(h) \ R /\ h.parent[m] = c /\ m \in Ids
    BY <2>1, LiveTyped DEF Sound, MembersHeld
  <2>3. m \notin T
    BY <1>1, <2>1, <2>2, OutsideClosed
  <2>. QED
    BY <1>3, <2>2, <2>3 DEF Freed
<1>10. FreedEmpty(g)
  <2>. SUFFICES ASSUME NEW u \in Ids \ Live(g)
                PROVE  g.items[u] = <<>>
    BY DEF FreedEmpty
  <2>1. u \in T \/ u \notin Live(h)
    BY <1>3
  <2>. QED
    BY <2>1 DEF Freed, Sound, FreedEmpty
<1>11. NamesDistinct(g)
  <2>. SUFFICES ASSUME NEW o \in Ids, g.kind[o] = "object",
                       NEW m \in DOMAIN g.items[o], NEW n \in DOMAIN g.items[o],
                       g.items[o][m].name = g.items[o][n].name
                PROVE  m = n
    BY DEF NamesDistinct
  <2>1. g.items[o] = h.items[o] /\ g.kind[o] = h.kind[o]
    BY <1>7
  <2>. QED
    BY <2>1 DEF Sound, NamesDistinct
<1>12. AllReached(g, R \ X)
  <2>. SUFFICES ASSUME NEW S \in SUBSET Ids, R \ X \subseteq S, Closed(g, S)
                PROVE  Live(g) \subseteq S
    BY DEF AllReached
  <2>. DEFINE U == S \union T
  <2>1. \A u \in Ids \ T : Members(g, u) = Members(h, u)
    BY DEF Members, Freed
  <2>2. Closed(h, U)
    BY <1>2, <2>1 DEF Closed
  <2>3. R \subseteq U /\ U \in SUBSET Ids
    BY <1>2
  <2>4. Live(h) \subseteq U
    BY <2>2, <2>3 DEF Sound, AllReached
  <2>. QED
    BY <1>3, <2>4
<1>13. Sound(g, R \ X, L \ X)
  BY <1>1, <1>5, <1>6, <1>8, <1>9, <1>10, <1>11, <1>12 DEF Sound
<1>. QED
  BY <1>3, <1>13

-----------------------------------------------------------------------------
(* Changing the items of a container.                                      *)

\* The items of s are those of its in the slots K, in some order.
Picks(s, its, K) ==
  \E sigma \in [DOMAIN s -> K] :
    /\ \A j, k \in DOMAIN s : sigma[j] = sigma[k] => j = k
    /\ \A m \in K : \E k \in DOMAIN s : sigma[k] = m
    /\ \A k \in DOMAIN s : s[k] = its[sigma[k]]

\* g is h with the items s in container c.
Holding(h, g, c, s) ==
  /\ g \in Heaps
  /\ g.kind = h.kind /\ g.parent = h.parent
  /\ g.items[c] = s
  /\ \A u \in Ids \ {c} : g.items[u] = h.items[u]

\* The values of a container that are not in the slots K.
NotIn(h, c, K) == {h.items[c][m].value : m \in DOMAIN h.items[c] \ K}

\* What is taken out of its slot becomes a root with a parent.
LEMMA DetachedSound ==
  ASSUME NEW h, NEW R, NEW L, Sound(h, R, L), NEW c \in Live(h),
         NEW K, K \subseteq DOMAIN h.items[c],
         NEW s, Picks(s, h.items[c], K), NEW g, Holding(h, g, c, s),
         NEW Y, Y = NotIn(h, c, K)
  PROVE  /\ Y \subseteq Members(h, c) /\ Y \intersect R = {}
         /\ Sound(g, R \union Y, L \union Y)
         /\ Live(g) = Live(h)
         /\ Below(g)[Y] = Below(h)[Y]
         /\ c \notin Below(h)[Y]
<1>. DEFINE its == h.items[c]
            X == {its[m].value : m \in DOMAIN its \ K}
<1>1. /\ h \in Heaps /\ g \in Heaps /\ c \in Ids /\ R \subseteq Ids
  BY LiveTyped DEF Sound, Holding
<1>2. PICK sigma \in [DOMAIN s -> K] :
        /\ \A j, k \in DOMAIN s : sigma[j] = sigma[k] => j = k
        /\ \A m \in K : \E k \in DOMAIN s : sigma[k] = m
        /\ \A k \in DOMAIN s : s[k] = its[sigma[k]]
  BY DEF Picks
<1>3. g.items[c] = s
  BY DEF Holding
<1>4. X \subseteq Members(h, c)
  BY DEF Members
<1>5. X \subseteq Live(h) /\ X \intersect R = {} /\ \A x \in X : h.parent[x] = c
  BY <1>1, <1>4 DEF Sound, MembersHeld
<1>6. Live(g) = Live(h)
  BY DEF Live, Holding
<1>7. R \union X \subseteq Live(g)
  BY <1>5, <1>6 DEF Sound
<1>8. L \union X = {r \in R \union X : g.parent[r] # NULL}
  <2>1. \A x \in X : g.parent[x] # NULL
    BY <1>1, <1>5, TreeAssumption DEF Holding
  <2>2. L = {r \in R : g.parent[r] # NULL}
    BY DEF Sound, Holding
  <2>. QED
    BY <2>1, <2>2
<1>9. \A d \in Ids \ {c} : g.items[d] = h.items[d] /\ Members(g, d) = Members(h, d)
  BY DEF Holding, Members
<1>10. \A k \in DOMAIN s : sigma[k] \in K /\ sigma[k] \in DOMAIN its /\ s[k] = its[sigma[k]]
  BY <1>2
<1>11. Members(g, c) \subseteq Members(h, c) \ X
  <2>. SUFFICES ASSUME NEW k \in DOMAIN s
                PROVE  s[k].value \in Members(h, c) /\ s[k].value \notin X
    BY <1>3 DEF Members
  <2>1. s[k].value = its[sigma[k]].value
    BY <1>10
  <2>2. s[k].value \in Members(h, c)
    BY <1>10, <2>1 DEF Members
  <2>3. ASSUME NEW m \in DOMAIN its \ K
        PROVE  its[sigma[k]].value # its[m].value
    BY <1>1, <1>10 DEF Sound, SlotsDistinct
  <2>. QED
    BY <2>1, <2>2, <2>3
<1>12. SlotsDistinct(g)
  <2>. SUFFICES ASSUME NEW d \in Ids, NEW e \in Ids,
                       NEW m \in DOMAIN g.items[d], NEW n \in DOMAIN g.items[e],
                       g.items[d][m].value = g.items[e][n].value
                PROVE  d = e /\ m = n
    BY DEF SlotsDistinct
  <2>. DEFINE m1 == IF d = c THEN sigma[m] ELSE m
              n1 == IF e = c THEN sigma[n] ELSE n
  <2>1. m1 \in DOMAIN h.items[d] /\ h.items[d][m1] = g.items[d][m]
    BY <1>3, <1>9, <1>10
  <2>2. n1 \in DOMAIN h.items[e] /\ h.items[e][n1] = g.items[e][n]
    BY <1>3, <1>9, <1>10
  <2>3. d = e /\ m1 = n1
    <3>. HIDE DEF m1, n1
    <3>1. h.items[d][m1].value = h.items[e][n1].value
      BY <2>1, <2>2
    <3>. QED
      BY <2>1, <2>2, <3>1 DEF Sound, SlotsDistinct
  <2>4. CASE d = c
    BY <1>2, <1>3, <2>3, <2>4
  <2>5. CASE d # c
    BY <2>3, <2>5
  <2>. QED
    BY <2>4, <2>5
<1>13. MembersHeld(g, R \union X)
  <2>. SUFFICES ASSUME NEW d \in Ids, NEW m \in Members(g, d)
                PROVE  m \in Live(g) \ (R \union X) /\ g.parent[m] = d
    BY DEF MembersHeld
  <2>1. m \in Members(h, d)
    BY <1>9, <1>11
  <2>2. m \in Live(h) \ R /\ h.parent[m] = d
    BY <2>1 DEF Sound, MembersHeld
  <2>3. m \notin X
    <3>1. CASE d = c
      BY <1>11, <3>1
    <3>2. CASE d # c
      <4>1. m \in X => m \in Members(h, c) \intersect Members(h, d)
        BY <1>4, <2>1
      <4>. QED
        BY <1>1, <3>2, <4>1, OneContainer
    <3>. QED
      BY <3>1, <3>2
  <2>. QED
    BY <1>6, <2>2, <2>3 DEF Holding
<1>14. FreedEmpty(g)
  BY <1>6, <1>9 DEF Sound, FreedEmpty
<1>15. NamesDistinct(g)
  <2>. SUFFICES ASSUME NEW o \in Ids, g.kind[o] = "object",
                       NEW m \in DOMAIN g.items[o], NEW n \in DOMAIN g.items[o],
                       g.items[o][m].name = g.items[o][n].name
                PROVE  m = n
    BY DEF NamesDistinct
  <2>1. h.kind[o] = "object"
    BY DEF Holding
  <2>2. CASE o = c
    <3>1. its[sigma[m]].name = its[sigma[n]].name
      BY <1>3, <1>10, <2>2
    <3>2. sigma[m] = sigma[n]
      BY <1>1, <1>3, <1>10, <2>1, <2>2, <3>1 DEF Sound, NamesDistinct
    <3>. QED
      BY <1>2, <1>3, <2>2, <3>2
  <2>3. CASE o # c
    BY <1>9, <2>1, <2>3 DEF Sound, NamesDistinct
  <2>. QED
    BY <2>2, <2>3
<1>16. AllReached(g, R \union X)
  <2>. SUFFICES ASSUME NEW S \in SUBSET Ids, R \union X \subseteq S, Closed(g, S)
                PROVE  Live(g) \subseteq S
    BY DEF AllReached
  <2>1. ASSUME c \in S
        PROVE  Members(h, c) \subseteq S
    <3>. SUFFICES ASSUME NEW m \in DOMAIN its
                  PROVE  its[m].value \in S
      BY DEF Members
    <3>1. CASE m \in K
      <4>1. PICK k \in DOMAIN s : sigma[k] = m
        BY <1>2, <3>1
      <4>2. s[k].value \in Members(g, c) /\ s[k] = its[m]
        BY <1>3, <1>10, <4>1 DEF Members
      <4>. QED
        BY <2>1, <4>2 DEF Closed
    <3>2. CASE m \notin K
      BY <3>2
    <3>. QED
      BY <3>1, <3>2
  <2>2. Closed(h, S)
    BY <1>9, <2>1 DEF Closed
  <2>. QED
    BY <1>6, <2>2 DEF Sound, AllReached
<1>17. c \notin Below(h)[X]
  BY <1>4, NoCycle
<1>18. Below(g)[X] = Below(h)[X]
  <2>1. X \in SUBSET Ids
    BY <1>5, LiveTyped
  <2>2. \A u \in Below(h)[X] : g.items[u] = h.items[u]
    BY <1>1, <1>9, <1>17, <2>1, BelowLeast
  <2>. QED
    BY <1>1, <2>1, <2>2, SameBelow
<1>19. Sound(g, R \union X, L \union X)
  BY <1>1, <1>7, <1>8, <1>12, <1>13, <1>14, <1>15, <1>16 DEF Sound
<1>20. Y = X
  BY DEF NotIn
<1>. HIDE DEF X
<1>. QED
  BY <1>4, <1>5, <1>6, <1>17, <1>18, <1>19, <1>20

\* The hypotheses together.
Detaches(h, R, L, c, K, s, g, Y) ==
  /\ Sound(h, R, L) /\ c \in Live(h) /\ K \subseteq DOMAIN h.items[c]
  /\ Picks(s, h.items[c], K) /\ Holding(h, g, c, s) /\ Y = NotIn(h, c, K)

LEMMA DetachSound ==
  ASSUME NEW h, NEW R, NEW L, NEW c, NEW K, NEW s, NEW g, NEW Y,
         Detaches(h, R, L, c, K, s, g, Y)
  PROVE  /\ Y \subseteq Members(h, c) /\ Y \intersect R = {}
         /\ Sound(g, R \union Y, L \union Y)
         /\ Live(g) = Live(h)
         /\ Below(g)[Y] = Below(h)[Y]
         /\ c \notin Below(h)[Y]
<1>1. /\ Sound(h, R, L) /\ c \in Live(h) /\ K \subseteq DOMAIN h.items[c]
      /\ Picks(s, h.items[c], K) /\ Holding(h, g, c, s) /\ Y = NotIn(h, c, K)
  BY DEF Detaches
<1>. QED
  BY <1>1, DetachedSound, SMTT(60)

\* g is h with the root v in slot p of container c, which has the items s.
Storing(h, g, c, s, p, v) ==
  /\ g \in Heaps
  /\ g.kind = h.kind
  /\ g.parent[v] = c
  /\ \A u \in Ids \ {v} : g.parent[u] = h.parent[u]
  /\ g.items[c] = s
  /\ \A u \in Ids \ {c} : g.items[u] = h.items[u]
  /\ p \in DOMAIN s /\ s[p].value = v

\* The items of s but that in slot p are those of its, in some order.
PicksBut(s, p, its) ==
  \E sigma \in [DOMAIN s \ {p} -> DOMAIN its] :
    /\ \A j, k \in DOMAIN s \ {p} : sigma[j] = sigma[k] => j = k
    /\ \A m \in DOMAIN its : \E k \in DOMAIN s \ {p} : sigma[k] = m
    /\ \A k \in DOMAIN s \ {p} : s[k] = its[sigma[k]]

\* A root is put into a container that is not below it.
LEMMA StoredSound ==
  ASSUME NEW h, NEW R, NEW L, Sound(h, R, L), NEW c \in Live(h), NEW v \in R,
         c \notin Below(h)[{v}],
         NEW s, NEW p, NEW g, Storing(h, g, c, s, p, v), PicksBut(s, p, h.items[c]),
         h.kind[c] = "object" => \A k \in DOMAIN s \ {p} : s[k].name # s[p].name
  PROVE  /\ Sound(g, R \ {v}, L \ {v})
         /\ Live(g) = Live(h)
<1>. DEFINE its == h.items[c]
<1>1. h \in Heaps /\ g \in Heaps /\ c \in Ids /\ R \subseteq Ids /\ v \in Ids
  BY LiveTyped DEF Sound, Storing
<1>2. PICK sigma \in [DOMAIN s \ {p} -> DOMAIN its] :
        /\ \A j, k \in DOMAIN s \ {p} : sigma[j] = sigma[k] => j = k
        /\ \A m \in DOMAIN its : \E k \in DOMAIN s \ {p} : sigma[k] = m
        /\ \A k \in DOMAIN s \ {p} : s[k] = its[sigma[k]]
  BY DEF PicksBut
<1>3. g.items[c] = s /\ p \in DOMAIN s /\ s[p].value = v
  BY DEF Storing
<1>4. Live(g) = Live(h)
  BY DEF Live, Storing
<1>5. R \ {v} \subseteq Live(g)
  BY <1>4 DEF Sound
<1>6. L \ {v} = {r \in R \ {v} : g.parent[r] # NULL}
  BY <1>1 DEF Sound, Storing
<1>7. \A d \in Ids \ {c} : g.items[d] = h.items[d] /\ Members(g, d) = Members(h, d)
  BY DEF Storing, Members
<1>8. \A k \in DOMAIN s \ {p} : sigma[k] \in DOMAIN its /\ s[k] = its[sigma[k]]
  BY <1>2
<1>9. Members(g, c) = Members(h, c) \union {v}
  <2>1. Members(g, c) \subseteq Members(h, c) \union {v}
    BY <1>3, <1>8 DEF Members
  <2>2. v \in Members(g, c)
    BY <1>3 DEF Members
  <2>3. ASSUME NEW m \in DOMAIN its
        PROVE  its[m].value \in Members(g, c)
    <3>1. PICK k \in DOMAIN s \ {p} : sigma[k] = m
      BY <1>2
    <3>. QED
      BY <1>3, <1>8, <3>1 DEF Members
  <2>. QED
    BY <2>1, <2>2, <2>3 DEF Members
<1>10. \A d \in Ids : v \notin Members(h, d)
  BY DEF Sound, MembersHeld
<1>11. SlotsDistinct(g)
  <2>. SUFFICES ASSUME NEW d \in Ids, NEW e \in Ids,
                       NEW m \in DOMAIN g.items[d], NEW n \in DOMAIN g.items[e],
                       g.items[d][m].value = g.items[e][n].value
                PROVE  d = e /\ m = n
    BY DEF SlotsDistinct
  <2>1. ASSUME NEW b \in Ids, NEW k \in DOMAIN g.items[b], g.items[b][k].value = v
        PROVE  b = c /\ k = p
    <3>1. b = c
      <4>. SUFFICES ASSUME b # c
                    PROVE  FALSE
        OBVIOUS
      <4>1. v \in Members(g, b)
        BY <2>1 DEF Members
      <4>. QED
        BY <1>7, <1>10, <4>1
    <3>2. k = p
      <4>. SUFFICES ASSUME k # p
                    PROVE  FALSE
        OBVIOUS
      <4>1. k \in DOMAIN s \ {p}
        BY <1>3, <3>1
      <4>2. v = its[sigma[k]].value /\ sigma[k] \in DOMAIN its
        BY <1>3, <1>8, <2>1, <3>1, <4>1
      <4>. QED
        BY <1>1, <1>10, <4>2 DEF Members
    <3>. QED
      BY <3>1, <3>2
  <2>2. CASE g.items[d][m].value = v
    BY <2>1, <2>2
  <2>3. CASE g.items[d][m].value # v
    <3>. DEFINE m1 == IF d = c THEN sigma[m] ELSE m
                n1 == IF e = c THEN sigma[n] ELSE n
    <3>1. (d = c => m \in DOMAIN s \ {p}) /\ (e = c => n \in DOMAIN s \ {p})
      BY <1>3, <2>3
    <3>2. m1 \in DOMAIN h.items[d] /\ h.items[d][m1] = g.items[d][m]
      BY <1>3, <1>7, <1>8, <3>1
    <3>3. n1 \in DOMAIN h.items[e] /\ h.items[e][n1] = g.items[e][n]
      BY <1>3, <1>7, <1>8, <3>1
    <3>4. d = e /\ m1 = n1
      <4>. HIDE DEF m1, n1
      <4>1. h.items[d][m1].value = h.items[e][n1].value
        BY <3>2, <3>3
      <4>. QED
        BY <3>2, <3>3, <4>1 DEF Sound, SlotsDistinct
    <3>5. CASE d = c
      BY <1>2, <3>1, <3>4, <3>5
    <3>6. CASE d # c
      BY <3>4, <3>6
    <3>. QED
      BY <3>5, <3>6
  <2>. QED
    BY <2>2, <2>3
<1>12. MembersHeld(g, R \ {v})
  <2>. SUFFICES ASSUME NEW d \in Ids, NEW m \in Members(g, d)
                PROVE  m \in Live(g) \ (R \ {v}) /\ g.parent[m] = d
    BY DEF MembersHeld
  <2>1. CASE m = v
    <3>1. d = c
      BY <1>7, <1>10, <2>1
    <3>. QED
      BY <1>4, <2>1, <3>1 DEF Sound, Storing
  <2>2. CASE m # v
    <3>1. m \in Members(h, d)
      BY <1>7, <1>9, <2>2
    <3>2. m \in Live(h) \ R /\ h.parent[m] = d
      BY <3>1 DEF Sound, MembersHeld
    <3>. QED
      BY <1>4, <2>2, <3>2, LiveTyped DEF Storing
  <2>. QED
    BY <2>1, <2>2
<1>13. FreedEmpty(g)
  BY <1>4, <1>7 DEF Sound, FreedEmpty
<1>14. NamesDistinct(g)
  <2>. SUFFICES ASSUME NEW o \in Ids, g.kind[o] = "object",
                       NEW m \in DOMAIN g.items[o], NEW n \in DOMAIN g.items[o],
                       g.items[o][m].name = g.items[o][n].name
                PROVE  m = n
    BY DEF NamesDistinct
  <2>1. h.kind[o] = "object"
    BY DEF Storing
  <2>2. CASE o # c
    BY <1>7, <2>1, <2>2 DEF Sound, NamesDistinct
  <2>3. CASE o = c /\ (m = p \/ n = p)
    BY <1>3, <2>1, <2>3
  <2>4. CASE o = c /\ m # p /\ n # p
    <3>1. m \in DOMAIN s \ {p} /\ n \in DOMAIN s \ {p}
      BY <1>3, <2>4
    <3>2. its[sigma[m]].name = its[sigma[n]].name
      BY <1>3, <1>8, <2>4, <3>1
    <3>3. sigma[m] = sigma[n]
      BY <1>1, <1>8, <2>1, <2>4, <3>1, <3>2 DEF Sound, NamesDistinct
    <3>. QED
      BY <1>2, <3>1, <3>3
  <2>. QED
    BY <2>2, <2>3, <2>4
<1>15. AllReached(g, R \ {v})
  <2>. SUFFICES ASSUME NEW S \in SUBSET Ids, R \ {v} \subseteq S, Closed(g, S)
                PROVE  Live(g) \subseteq S
    BY DEF AllReached
  <2>. DEFINE T == Below(h)[{v}]
              U == S \union T
  <2>1. {v} \subseteq T /\ T \subseteq Ids /\ Closed(h, T)
    BY <1>1, BelowLeast
  <2>2. \A d \in Ids : Members(h, d) \subseteq Members(g, d)
    BY <1>7, <1>9
  <2>3. Closed(h, U)
    BY <2>1, <2>2 DEF Closed
  <2>4. R \subseteq U /\ U \in SUBSET Ids
    BY <2>1
  <2>5. Live(h) \subseteq U
    BY <2>3, <2>4 DEF Sound, AllReached
  <2>6. c \in S
    BY <2>5
  <2>7. v \in S
    BY <1>9, <2>6 DEF Closed
  <2>8. Closed(h, S) /\ R \subseteq S
    BY <2>2, <2>7 DEF Closed
  <2>. QED
    BY <1>4, <2>8 DEF Sound, AllReached
<1>16. Sound(g, R \ {v}, L \ {v})
  BY <1>1, <1>5, <1>6, <1>11, <1>12, <1>13, <1>14, <1>15 DEF Sound
<1>. QED
  BY <1>4, <1>16

\* The hypotheses together.
Stores(h, R, L, c, v, s, p, g) ==
  /\ Sound(h, R, L) /\ c \in Live(h) /\ v \in R /\ c \notin Below(h)[{v}]
  /\ Storing(h, g, c, s, p, v) /\ PicksBut(s, p, h.items[c])
  /\ h.kind[c] = "object" => \A k \in DOMAIN s \ {p} : s[k].name # s[p].name

LEMMA StoreSound ==
  ASSUME NEW h, NEW R, NEW L, NEW c, NEW v, NEW s, NEW p, NEW g,
         Stores(h, R, L, c, v, s, p, g)
  PROVE  /\ Sound(g, R \ {v}, L \ {v})
         /\ Live(g) = Live(h)
<1>1. /\ Sound(h, R, L) /\ c \in Live(h) /\ v \in R /\ c \notin Below(h)[{v}]
      /\ Storing(h, g, c, s, p, v) /\ PicksBut(s, p, h.items[c])
      /\ h.kind[c] = "object" => \A k \in DOMAIN s \ {p} : s[k].name # s[p].name
  BY DEF Stores
<1>. QED
  BY <1>1, StoredSound

-----------------------------------------------------------------------------
(* The items that the calls leave behind.                                  *)

\* An item of a container.
Slot == [name : MemberNames \union {NULL}, value : Ids]

LEMMA ItemsTyped ==
  ASSUME NEW its \in Items
  PROVE  /\ its \in Seq(Slot)
         /\ Len(its) \in Nat
         /\ DOMAIN its = 1 .. Len(its)
         /\ \A n \in 1 .. Len(its) :
              its[n] \in Slot /\ its[n].value \in Ids /\ its[n].name \in MemberNames \union {NULL}
<1>1. its \in Seq(Slot)
  BY DEF Items, Slot
<1>2. Len(its) \in Nat /\ DOMAIN its = 1 .. Len(its)
  BY <1>1, LenProperties
<1>3. \A n \in 1 .. Len(its) : its[n] \in Slot
  BY <1>1, ElementOfSeq
<1>. QED
  BY <1>1, <1>2, <1>3 DEF Slot

\* RemoveAt moves up what is behind.
LEMMA RemoveAtItems ==
  ASSUME NEW its \in Items, NEW n \in DOMAIN its
  PROVE  LET s == RemoveAt(its, n)
         IN  /\ s \in Items
             /\ Len(s) = Len(its) - 1
             /\ DOMAIN s = 1 .. Len(its) - 1
             /\ \A k \in 1 .. Len(its) - 1 : s[k] = IF k < n THEN its[k] ELSE its[k + 1]
<1>. DEFINE M == Len(its)
            a == SubSeq(its, 1, n - 1)
            b == SubSeq(its, n + 1, M)
<1>1. its \in Seq(Slot) /\ M \in Nat /\ n \in 1 .. M /\ \A j \in 1 .. M : its[j] \in Slot
  BY ItemsTyped
<1>. HIDE DEF M
<1>2. /\ a \in Seq(Slot) /\ Len(a) = n - 1
      /\ \A j \in 1 .. n - 1 : a[j] = its[j]
  <2>1. 1 \in Int /\ n - 1 \in Int /\ \A j \in 1 .. n - 1 : its[j] \in Slot
    BY <1>1
  <2>2. /\ SubSeq(its, 1, n - 1) \in Seq(Slot)
        /\ Len(SubSeq(its, 1, n - 1)) = IF 1 <= n - 1 THEN (n - 1) - 1 + 1 ELSE 0
        /\ \A j \in 1 .. (n - 1) - 1 + 1 : SubSeq(its, 1, n - 1)[j] = its[1 + j - 1]
    BY <2>1, SubSeqProperties
  <2>. QED
    BY <1>1, <2>2
<1>3. /\ b \in Seq(Slot) /\ Len(b) = M - n
      /\ \A j \in 1 .. M - n : b[j] = its[n + j]
  <2>1. n + 1 \in Int /\ M \in Int /\ \A j \in n + 1 .. M : its[j] \in Slot
    BY <1>1
  <2>2. /\ SubSeq(its, n + 1, M) \in Seq(Slot)
        /\ Len(SubSeq(its, n + 1, M)) = IF n + 1 <= M THEN M - (n + 1) + 1 ELSE 0
        /\ \A j \in 1 .. M - (n + 1) + 1 : SubSeq(its, n + 1, M)[j] = its[(n + 1) + j - 1]
    BY <2>1, SubSeqProperties
  <2>3. \A j \in 1 .. M - n : j \in 1 .. M - (n + 1) + 1 /\ (n + 1) + j - 1 = n + j
    BY <1>1
  <2>. QED
    BY <1>1, <2>2, <2>3
<1>. HIDE DEF a, b
<1>4. /\ a \o b \in Seq(Slot)
      /\ Len(a \o b) = M - 1
      /\ \A k \in 1 .. M - 1 : (a \o b)[k] = IF k <= n - 1 THEN a[k] ELSE b[k - (n - 1)]
  <2>1. /\ a \o b \in Seq(Slot)
        /\ Len(a \o b) = Len(a) + Len(b)
        /\ \A k \in 1 .. Len(a) + Len(b) : (a \o b)[k] = IF k <= Len(a) THEN a[k] ELSE b[k - Len(a)]
    BY <1>2, <1>3, ConcatProperties
  <2>2. Len(a) = n - 1 /\ Len(a) + Len(b) = M - 1
    BY <1>1, <1>2, <1>3
  <2>. QED
    BY <2>1, <2>2
<1>5. RemoveAt(its, n) = a \o b
  BY DEF RemoveAt, a, b, M
<1>6. \A k \in 1 .. M - 1 : (a \o b)[k] = IF k < n THEN its[k] ELSE its[k + 1]
  <2>. SUFFICES ASSUME NEW k \in 1 .. M - 1
                PROVE  (a \o b)[k] = IF k < n THEN its[k] ELSE its[k + 1]
    OBVIOUS
  <2>1. CASE k < n
    BY <1>1, <1>2, <1>4, <2>1
  <2>2. CASE ~(k < n)
    <3>1. k - (n - 1) \in 1 .. M - n /\ n + (k - (n - 1)) = k + 1
      BY <1>1, <2>2
    <3>2. (a \o b)[k] = b[k - (n - 1)]
      <4>1. ~(k <= n - 1)
        BY <1>1, <2>2
      <4>. QED
        BY <1>4, <4>1
    <3>3. b[k - (n - 1)] = its[n + (k - (n - 1))]
      BY <1>3, <3>1
    <3>. QED
      BY <2>2, <3>1, <3>2, <3>3
  <2>. QED
    BY <2>1, <2>2
<1>7. DOMAIN (a \o b) = 1 .. M - 1
  BY <1>4, LenProperties
<1>8. a \o b \in Items
  BY <1>4 DEF Items, Slot
<1>. QED
  BY <1>4, <1>5, <1>6, <1>7, <1>8 DEF M

\* json_object_remove_internal moves the last member into the place.
LEMMA SwapLastItems ==
  ASSUME NEW its \in Items, NEW n \in DOMAIN its
  PROVE  LET s == Front([its EXCEPT ![n] = Last(its)])
         IN  /\ s \in Items
             /\ DOMAIN s = 1 .. Len(its) - 1
             /\ \A k \in 1 .. Len(its) - 1 : s[k] = its[IF k = n THEN Len(its) ELSE k]
<1>. DEFINE M == Len(its)
            t == [its EXCEPT ![n] = Last(its)]
            s == SubSeq(t, 1, M - 1)
<1>1. its \in Seq(Slot) /\ M \in Nat /\ n \in 1 .. M /\ \A j \in 1 .. M : its[j] \in Slot
  BY ItemsTyped
<1>2. Last(its) = its[M] /\ its[M] \in Slot
  BY <1>1 DEF Last
<1>3. /\ t \in Seq(Slot) /\ Len(t) = M
      /\ \A j \in 1 .. M : t[j] = IF j = n THEN its[M] ELSE its[j]
  BY <1>1, <1>2, ExceptSeq
<1>. HIDE DEF M, t
<1>4. /\ s \in Seq(Slot) /\ Len(s) = M - 1
      /\ \A j \in 1 .. M - 1 : s[j] = t[j]
  <2>1. 1 \in Int /\ M - 1 \in Int /\ \A j \in 1 .. M - 1 : t[j] \in Slot
    BY <1>1, <1>3
  <2>2. /\ SubSeq(t, 1, M - 1) \in Seq(Slot)
        /\ Len(SubSeq(t, 1, M - 1)) = IF 1 <= M - 1 THEN (M - 1) - 1 + 1 ELSE 0
        /\ \A j \in 1 .. (M - 1) - 1 + 1 : SubSeq(t, 1, M - 1)[j] = t[1 + j - 1]
    BY <2>1, SubSeqProperties
  <2>. QED
    BY <1>1, <2>2
<1>5. Front(t) = s
  BY <1>3 DEF Front
<1>. HIDE DEF s
<1>6. DOMAIN s = 1 .. M - 1
  BY <1>4, LenProperties
<1>7. \A k \in 1 .. M - 1 : s[k] = its[IF k = n THEN M ELSE k]
  BY <1>1, <1>3, <1>4
<1>8. s \in Items
  BY <1>4 DEF Items, Slot
<1>. QED
  BY <1>5, <1>6, <1>7, <1>8 DEF M, t

LEMMA RemoveAtPicks ==
  ASSUME NEW its \in Items, NEW n \in DOMAIN its
  PROVE  Picks(RemoveAt(its, n), its, DOMAIN its \ {n})
<1>. DEFINE M == Len(its)
            s == RemoveAt(its, n)
            sigma == [k \in 1 .. M - 1 |-> IF k < n THEN k ELSE k + 1]
<1>1. M \in Nat /\ DOMAIN its = 1 .. M /\ n \in 1 .. M
  BY ItemsTyped
<1>2. DOMAIN s = 1 .. M - 1 /\ \A k \in 1 .. M - 1 : s[k] = IF k < n THEN its[k] ELSE its[k + 1]
  BY RemoveAtItems
<1>. HIDE DEF M, s
<1>3. sigma \in [DOMAIN s -> DOMAIN its \ {n}]
  BY <1>1, <1>2
<1>4. \A j, k \in DOMAIN s : sigma[j] = sigma[k] => j = k
  BY <1>1, <1>2
<1>5. ASSUME NEW m \in DOMAIN its \ {n}
      PROVE  \E k \in DOMAIN s : sigma[k] = m
  <2>1. CASE m < n
    <3>1. m \in DOMAIN s /\ sigma[m] = m
      BY <1>1, <1>2, <2>1
    <3>. QED
      BY <3>1
  <2>2. CASE ~(m < n)
    <3>1. m - 1 \in DOMAIN s /\ sigma[m - 1] = m
      BY <1>1, <1>2, <2>2
    <3>. QED
      BY <3>1
  <2>. QED
    BY <2>1, <2>2
<1>6. \A k \in DOMAIN s : s[k] = its[sigma[k]]
  BY <1>1, <1>2
<1>. HIDE DEF sigma
<1>7. Picks(s, its, DOMAIN its \ {n})
  BY <1>3, <1>4, <1>5, <1>6 DEF Picks
<1>. QED
  BY <1>7 DEF s

LEMMA SwapLastPicks ==
  ASSUME NEW its \in Items, NEW n \in DOMAIN its
  PROVE  Picks(Front([its EXCEPT ![n] = Last(its)]), its, DOMAIN its \ {n})
<1>. DEFINE M == Len(its)
            s == Front([its EXCEPT ![n] = Last(its)])
            sigma == [k \in 1 .. M - 1 |-> IF k = n THEN M ELSE k]
<1>1. M \in Nat /\ DOMAIN its = 1 .. M /\ n \in 1 .. M
  BY ItemsTyped
<1>2. DOMAIN s = 1 .. M - 1 /\ \A k \in 1 .. M - 1 : s[k] = its[IF k = n THEN M ELSE k]
  BY SwapLastItems
<1>. HIDE DEF M, s
<1>3. sigma \in [DOMAIN s -> DOMAIN its \ {n}]
  BY <1>1, <1>2
<1>4. \A j, k \in DOMAIN s : sigma[j] = sigma[k] => j = k
  BY <1>1, <1>2
<1>5. ASSUME NEW m \in DOMAIN its \ {n}
      PROVE  \E k \in DOMAIN s : sigma[k] = m
  <2>1. CASE m = M
    <3>1. n \in DOMAIN s /\ sigma[n] = m
      BY <1>1, <1>2, <2>1
    <3>. QED
      BY <3>1
  <2>2. CASE m # M
    <3>1. m \in DOMAIN s /\ sigma[m] = m
      BY <1>1, <1>2, <2>2
    <3>. QED
      BY <3>1
  <2>. QED
    BY <2>1, <2>2
<1>6. \A k \in DOMAIN s : s[k] = its[sigma[k]]
  BY <1>1, <1>2
<1>. HIDE DEF sigma
<1>7. Picks(s, its, DOMAIN its \ {n})
  BY <1>3, <1>4, <1>5, <1>6 DEF Picks
<1>. QED
  BY <1>7 DEF s

LEMMA NothingPicks ==
  ASSUME NEW its
  PROVE  Picks(<<>>, its, {})
<1>. DEFINE sigma == [k \in {} |-> k]
<1>1. DOMAIN <<>> = {} /\ sigma \in [{} -> {}]
  OBVIOUS
<1>. QED
  BY <1>1 DEF Picks

\* A new last item.
LEMMA AppendItems ==
  ASSUME NEW its \in Items, NEW e \in Slot
  PROVE  LET s == Append(its, e)
         IN  /\ s \in Items
             /\ DOMAIN s = 1 .. Len(its) + 1
             /\ s[Len(its) + 1] = e
             /\ \A k \in 1 .. Len(its) : s[k] = its[k]
             /\ PicksBut(s, Len(its) + 1, its)
<1>. DEFINE M == Len(its)
            s == Append(its, e)
            sigma == [k \in 1 .. M |-> k]
<1>1. its \in Seq(Slot) /\ M \in Nat /\ DOMAIN its = 1 .. M
  BY ItemsTyped
<1>2. /\ s \in Seq(Slot) /\ Len(s) = M + 1 /\ s[M + 1] = e
      /\ \A k \in 1 .. M : s[k] = its[k]
  BY <1>1, AppendProperties
<1>. HIDE DEF M, s
<1>3. DOMAIN s = 1 .. M + 1
  BY <1>2, LenProperties
<1>4. DOMAIN s \ {M + 1} = 1 .. M
  BY <1>1, <1>3
<1>5. PicksBut(s, M + 1, its)
  <2>1. sigma \in [DOMAIN s \ {M + 1} -> DOMAIN its]
    BY <1>1, <1>4
  <2>2. \A j, k \in DOMAIN s \ {M + 1} : sigma[j] = sigma[k] => j = k
    BY <1>4
  <2>3. \A m \in DOMAIN its : \E k \in DOMAIN s \ {M + 1} : sigma[k] = m
    BY <1>1, <1>4
  <2>4. \A k \in DOMAIN s \ {M + 1} : s[k] = its[sigma[k]]
    BY <1>2, <1>4
  <2>. HIDE DEF sigma
  <2>. QED
    BY <2>1, <2>2, <2>3, <2>4 DEF PicksBut
<1>6. s \in Items
  BY <1>2 DEF Items, Slot
<1>. QED
  BY <1>2, <1>3, <1>5, <1>6 DEF M, s

\* Another value in slot n.
LEMMA ExchangeItems ==
  ASSUME NEW its \in Items, NEW n \in DOMAIN its, NEW v \in Ids
  PROVE  LET s == [its EXCEPT ![n].value = v]
         IN  /\ s \in Items
             /\ DOMAIN s = DOMAIN its
             /\ s[n].value = v
             /\ \A k \in DOMAIN its : s[k].name = its[k].name
             /\ PicksBut(s, n, RemoveAt(its, n))
<1>. DEFINE M == Len(its)
            r == RemoveAt(its, n)
            e == [its[n] EXCEPT !.value = v]
            s == [its EXCEPT ![n] = e]
            sigma == [k \in 1 .. M \ {n} |-> IF k < n THEN k ELSE k - 1]
<1>1. /\ its \in Seq(Slot) /\ M \in Nat /\ DOMAIN its = 1 .. M /\ n \in 1 .. M
      /\ its[n] \in Slot
  BY ItemsTyped
<1>2. e \in Slot /\ e.value = v /\ e.name = its[n].name
  BY <1>1 DEF Slot
<1>. HIDE DEF e
<1>3. s \in Seq(Slot) /\ \A k \in 1 .. M : s[k] = IF k = n THEN e ELSE its[k]
  BY <1>1, <1>2, ExceptSeq
<1>4. DOMAIN s = DOMAIN its
  OBVIOUS
<1>5. [its EXCEPT ![n].value = v] = s
  BY DEF e
<1>6. DOMAIN r = 1 .. M - 1 /\ \A k \in 1 .. M - 1 : r[k] = IF k < n THEN its[k] ELSE its[k + 1]
  BY RemoveAtItems
<1>. HIDE DEF M, r, s
<1>7. PicksBut(s, n, r)
  <2>1. sigma \in [DOMAIN s \ {n} -> DOMAIN r]
    BY <1>1, <1>4, <1>6
  <2>2. \A j, k \in DOMAIN s \ {n} : sigma[j] = sigma[k] => j = k
    BY <1>1, <1>4
  <2>3. ASSUME NEW m \in DOMAIN r
        PROVE  \E k \in DOMAIN s \ {n} : sigma[k] = m
    <3>1. CASE m < n
      <4>1. m \in DOMAIN s \ {n} /\ sigma[m] = m
        BY <1>1, <1>4, <1>6, <3>1
      <4>. QED
        BY <4>1
    <3>2. CASE ~(m < n)
      <4>1. m + 1 \in DOMAIN s \ {n} /\ sigma[m + 1] = m
        BY <1>1, <1>4, <1>6, <3>2
      <4>. QED
        BY <4>1
    <3>. QED
      BY <3>1, <3>2
  <2>4. \A k \in DOMAIN s \ {n} : s[k] = r[sigma[k]]
    <3>. SUFFICES ASSUME NEW k \in 1 .. M, k # n
                  PROVE  s[k] = r[sigma[k]]
      BY <1>1, <1>4
    <3>1. s[k] = its[k]
      BY <1>3
    <3>2. CASE k < n
      BY <1>1, <1>6, <3>1, <3>2
    <3>3. CASE ~(k < n)
      <4>1. k - 1 \in 1 .. M - 1 /\ ~(k - 1 < n) /\ (k - 1) + 1 = k /\ sigma[k] = k - 1
        BY <1>1, <3>3
      <4>. QED
        BY <1>6, <3>1, <4>1
    <3>. QED
      BY <3>2, <3>3
  <2>. HIDE DEF sigma
  <2>. QED
    BY <2>1, <2>2, <2>3, <2>4 DEF PicksBut
<1>8. s \in Items
  BY <1>3 DEF Items, Slot
<1>9. \A k \in DOMAIN its : s[k].name = its[k].name
  BY <1>1, <1>2, <1>3
<1>10. s[n].value = v
  BY <1>1, <1>2, <1>3
<1>. QED
  BY <1>4, <1>5, <1>7, <1>8, <1>9, <1>10 DEF r

-----------------------------------------------------------------------------
(* Taking values out of a container.                                       *)

\* g is h with the items s in container c and without what is below X.
Taken(h, g, c, s, X) ==
  /\ g \in Heaps
  /\ \A u \in Below(h)[X] : g.kind[u] = "free" /\ g.parent[u] = NULL /\ g.items[u] = <<>>
  /\ \A u \in Ids \ Below(h)[X] : g.kind[u] = h.kind[u] /\ g.parent[u] = h.parent[u]
  /\ g.items[c] = s
  /\ \A u \in Ids \ (Below(h)[X] \union {c}) : g.items[u] = h.items[u]

\* The heap with other items in a container.
LEMMA HoldingMade ==
  ASSUME NEW h \in Heaps, NEW c \in Ids, NEW s \in Items
  PROVE  Holding(h, [h EXCEPT !.items[c] = s], c, s)
<1>. DEFINE g == [h EXCEPT !.items[c] = s]
<1>1. /\ h.kind \in [Ids -> Kinds \union {"free"}]
      /\ h.parent \in [Ids -> Ids \union {NULL}]
      /\ h.items \in [Ids -> Items]
  BY DEF Heaps
<1>2. g \in Heaps
  BY DEF Heaps
<1>3. g.kind = h.kind /\ g.parent = h.parent /\ g.items = [h.items EXCEPT ![c] = s]
  BY DEF Heaps
<1>. HIDE DEF g
<1>4. Holding(h, g, c, s)
  BY <1>1, <1>2, <1>3 DEF Holding
<1>. QED
  BY <1>4 DEF g

LEMMA TakenMade ==
  ASSUME NEW h \in Heaps, NEW X \in SUBSET Ids, NEW c \in Ids, c \notin Below(h)[X],
         NEW s \in Items
  PROVE  Taken(h, [FreeValues(h, X) EXCEPT !.items[c] = s], c, s, X)
<1>. DEFINE f == FreeValues(h, X)
            g == [f EXCEPT !.items[c] = s]
<1>1. Freed(h, f, X)
  BY FreeValuesFrees
<1>2. f \in Heaps
  BY <1>1 DEF Freed
<1>. HIDE DEF f
<1>3. Holding(f, g, c, s)
  BY <1>2, HoldingMade
<1>4. Below(h)[X] \subseteq Ids
  BY BelowLeast
<1>. HIDE DEF g
<1>5. Taken(h, g, c, s, X)
  BY <1>1, <1>3, <1>4 DEF Taken, Freed, Holding
<1>. QED
  BY <1>5 DEF f, g

LEMMA TakenSound ==
  ASSUME NEW h, NEW R, NEW L, Sound(h, R, L), NEW c \in Live(h),
         NEW K, K \subseteq DOMAIN h.items[c],
         NEW s, Picks(s, h.items[c], K),
         NEW X, X = NotIn(h, c, K),
         NEW g, Taken(h, g, c, s, X)
  PROVE  /\ Sound(g, R, L)
         /\ Live(g) = Live(h) \ Below(h)[X]
<1>. DEFINE k == [h EXCEPT !.items[c] = s]
<1>1. h \in Heaps /\ g \in Heaps /\ c \in Ids /\ R \subseteq Ids
  BY LiveTyped DEF Sound, Taken
<1>2. s \in Items
  BY <1>1 DEF Taken, Heaps
<1>3. Holding(h, k, c, s)
  BY <1>1, <1>2, HoldingMade
<1>. HIDE DEF k
<1>4. /\ X \subseteq Members(h, c) /\ X \intersect R = {}
      /\ Sound(k, R \union X, L \union X)
      /\ Live(k) = Live(h)
      /\ Below(k)[X] = Below(h)[X]
      /\ c \notin Below(h)[X]
  <2>1. Detaches(h, R, L, c, K, s, k, X)
    BY <1>3 DEF Detaches
  <2>. QED
    BY ONLY <2>1, DetachSound
<1>5. Freed(k, g, X)
  BY <1>1, <1>3, <1>4 DEF Taken, Freed, Holding
<1>6. Sound(g, (R \union X) \ X, (L \union X) \ X) /\ Live(g) = Live(k) \ Below(k)[X]
  <2>. HIDE DEF k
  <2>1. X \in SUBSET (R \union X)
    OBVIOUS
  <2>. QED
    BY <1>4, <1>5, <2>1, FreedSound
<1>7. (R \union X) \ X = R /\ (L \union X) \ X = L
  BY <1>4 DEF Sound
<1>. QED
  BY <1>4, <1>6, <1>7

\* One value is taken out of slot n and freed.
LEMMA OneTakenSound ==
  ASSUME NEW h, NEW R, NEW L, Sound(h, R, L), NEW c \in Live(h), NEW n \in DOMAIN h.items[c],
         NEW s \in Items, Picks(s, h.items[c], DOMAIN h.items[c] \ {n})
  PROVE  /\ Sound([FreeValue(h, h.items[c][n].value) EXCEPT !.items[c] = s], R, L)
         /\ c \notin Below(h)[{h.items[c][n].value}]
<1>. DEFINE its == h.items[c]
            x == its[n].value
            g == [FreeValues(h, {x}) EXCEPT !.items[c] = s]
<1>1. h \in Heaps /\ c \in Ids
  BY LiveTyped DEF Sound
<1>2. x \in Members(h, c) /\ x \in Ids
  BY <1>1, MembersTyped
<1>3. c \notin Below(h)[{x}]
  BY <1>2, NoCycle
<1>4. Taken(h, g, c, s, {x})
  BY <1>1, <1>2, <1>3, TakenMade
<1>5. {x} = NotIn(h, c, DOMAIN its \ {n})
  BY DEF NotIn
<1>6. DOMAIN its \ {n} \subseteq DOMAIN its
  OBVIOUS
<1>. HIDE DEF g, x
<1>7. Sound(g, R, L)
  BY <1>4, <1>5, <1>6, TakenSound
<1>. QED
  BY <1>3, <1>7 DEF g, x, FreeValue

\* json_array_remove.
LEMMA RemoveAtIxSound ==
  ASSUME NEW h, NEW R, NEW L, Sound(h, R, L), NEW a \in Live(h), NEW n
  PROVE  Sound(RemoveAtIx(h, a, n).heap, R, L)
<1>1. CASE n \notin DOMAIN h.items[a]
  BY <1>1 DEF RemoveAtIx, Fail
<1>2. CASE n \in DOMAIN h.items[a]
  <2>1. h.items[a] \in Items
    BY LiveTyped DEF Sound, Heaps
  <2>2. RemoveAt(h.items[a], n) \in Items
    BY <1>2, <2>1, RemoveAtItems
  <2>3. Picks(RemoveAt(h.items[a], n), h.items[a], DOMAIN h.items[a] \ {n})
    BY <1>2, <2>1, RemoveAtPicks
  <2>. QED
    BY <1>2, <2>2, <2>3, OneTakenSound DEF RemoveAtIx, Ok
<1>. QED
  BY <1>1, <1>2

\* json_array_clear, json_object_clear.
LEMMA ClearItemsSound ==
  ASSUME NEW h, NEW R, NEW L, Sound(h, R, L), NEW c \in Live(h)
  PROVE  Sound(ClearItems(h, c), R, L)
<1>. DEFINE X == Members(h, c)
            g == [FreeValues(h, X) EXCEPT !.items[c] = <<>>]
<1>1. h \in Heaps /\ c \in Ids
  BY LiveTyped DEF Sound
<1>2. X \in SUBSET Ids
  BY <1>1, MembersTyped
<1>3. c \notin Below(h)[X]
  BY NoCycle
<1>4. <<>> \in Items
  BY EmptySeq DEF Items
<1>5. Taken(h, g, c, <<>>, X)
  BY <1>1, <1>2, <1>3, <1>4, TakenMade
<1>6. X = NotIn(h, c, {})
  BY DEF Members, NotIn
<1>7. Picks(<<>>, h.items[c], {})
  BY NothingPicks
<1>. HIDE DEF g, X
<1>8. Sound(g, R, L)
  BY <1>5, <1>6, <1>7, TakenSound
<1>. QED
  BY <1>8 DEF g, X, ClearItems

-----------------------------------------------------------------------------
(* The members of an object by name.                                       *)

LEMMA SlotOfName ==
  ASSUME NEW h, NEW o, NEW name
  PROVE  \/ /\ SlotOf(h, o, name) \in DOMAIN h.items[o]
            /\ h.items[o][SlotOf(h, o, name)].name = name
         \/ /\ SlotOf(h, o, name) = 0
            /\ \A n \in DOMAIN h.items[o] : h.items[o][n].name # name
  BY DEF SlotOf

\* A slot is not 0.
LEMMA SlotFound ==
  ASSUME NEW h \in Heaps, NEW o \in Ids, NEW name
  PROVE  /\ SlotOf(h, o, name) # 0 <=> \E n \in DOMAIN h.items[o] : h.items[o][n].name = name
         /\ SlotOf(h, o, name) # 0 => /\ SlotOf(h, o, name) \in DOMAIN h.items[o]
                                      /\ h.items[o][SlotOf(h, o, name)].name = name
<1>1. DOMAIN h.items[o] = 1 .. Len(h.items[o]) /\ Len(h.items[o]) \in Nat
  BY MembersTyped
<1>2. 0 \notin DOMAIN h.items[o]
  BY <1>1
<1>. QED
  BY <1>2, SlotOfName

\* What json_object_get_value finds is a member.
LEMMA MemberFound ==
  ASSUME NEW h \in Heaps, NEW o \in Ids, NEW name, GetMember(h, o, name) # NULL
  PROVE  /\ SlotOf(h, o, name) # 0
         /\ SlotOf(h, o, name) \in DOMAIN h.items[o]
         /\ h.items[o][SlotOf(h, o, name)].name = name
         /\ GetMember(h, o, name) = h.items[o][SlotOf(h, o, name)].value
         /\ GetMember(h, o, name) \in Members(h, o)
<1>1. SlotOf(h, o, name) # 0
  BY DEF GetMember
<1>. QED
  BY <1>1, SlotFound DEF GetMember, Members

\* json_object_remove_internal with free_value: the member is gone.
LEMMA RemoveFreesSound ==
  ASSUME NEW h, NEW R, NEW L, Sound(h, R, L), NEW o \in Ids, NEW name
  PROVE  Sound(RemoveMember(h, o, name, TRUE).heap, R, L)
<1>. DEFINE n == SlotOf(h, o, name)
<1>1. h \in Heaps
  BY DEF Sound
<1>2. CASE n = 0
  BY <1>2 DEF RemoveMember, Fail
<1>3. CASE n # 0
  <2>. DEFINE its == h.items[o]
              s == Front([its EXCEPT ![n] = Last(its)])
  <2>1. n \in DOMAIN its
    BY <1>1, <1>3, SlotFound
  <2>2. o \in Live(h)
    BY <1>1, <2>1, MembersTyped, ContainerLive
  <2>3. its \in Items
    BY <1>1 DEF Heaps
  <2>. HIDE DEF n
  <2>4. s \in Items /\ Picks(s, its, DOMAIN its \ {n})
    BY <2>1, <2>3, SwapLastItems, SwapLastPicks
  <2>. HIDE DEF s
  <2>5. Sound([FreeValue(h, its[n].value) EXCEPT !.items[o] = s], R, L)
    BY <2>1, <2>2, <2>4, OneTakenSound
  <2>6. RemoveMember(h, o, name, TRUE).heap = [FreeValue(h, its[n].value) EXCEPT !.items[o] = s]
    BY <1>3 DEF RemoveMember, Ok, n, s
  <2>. QED
    BY <2>5, <2>6
<1>. QED
  BY <1>2, <1>3

\* Without it: the member is nobody's.
LEMMA RemoveKeepsSound ==
  ASSUME NEW h, NEW R, NEW L, Sound(h, R, L), NEW o \in Ids, NEW name,
         NEW x, GetMember(h, o, name) = x, x # NULL
  PROVE  Sound(RemoveMember(h, o, name, FALSE).heap, R \union {x}, L \union {x})
<1>. DEFINE n == SlotOf(h, o, name)
            its == h.items[o]
            s == Front([its EXCEPT ![n] = Last(its)])
            g == [h EXCEPT !.items[o] = s]
<1>1. h \in Heaps
  BY DEF Sound
<1>2. n # 0 /\ n \in DOMAIN its /\ x = its[n].value /\ x \in Members(h, o)
  BY <1>1, MemberFound
<1>3. o \in Live(h)
  BY <1>2, ContainerLive
<1>4. its \in Items
  BY <1>1 DEF Heaps
<1>. HIDE DEF n
<1>5. s \in Items /\ Picks(s, its, DOMAIN its \ {n})
  BY <1>2, <1>4, SwapLastItems, SwapLastPicks
<1>6. RemoveMember(h, o, name, FALSE).heap = g
  BY <1>2 DEF RemoveMember, Ok, n
<1>. HIDE DEF s
<1>7. Holding(h, g, o, s)
  BY <1>1, <1>5, HoldingMade
<1>8. {x} = NotIn(h, o, DOMAIN its \ {n})
  BY <1>2 DEF NotIn
<1>. HIDE DEF g
<1>9. DOMAIN its \ {n} \subseteq DOMAIN its
  OBVIOUS
<1>10. Sound(g, R \union {x}, L \union {x})
  <2>. DEFINE X == {x}
              K == DOMAIN its \ {n}
  <2>1. K \subseteq DOMAIN its /\ Picks(s, its, K) /\ X = NotIn(h, o, K)
    BY <1>5, <1>8, <1>9
  <2>. HIDE DEF X, K
  <2>2. Sound(g, R \union X, L \union X)
    <3>1. Detaches(h, R, L, o, K, s, g, X)
      BY <1>3, <1>7, <2>1 DEF Detaches
    <3>. QED
      BY <3>1, DetachSound
  <2>. QED
    BY <2>2 DEF X
<1>. QED
  BY <1>6, <1>10

\* json_object_dotremove_internal, when the caller of it wants the member freed.
LEMMA DotRemoveSound ==
  ASSUME NEW h, NEW R, NEW L, Sound(h, R, L), NEW o \in Ids, NEW path \in Paths
  PROVE  Sound(DotRemove(h, o, path, 1, TRUE).heap, R, L)
<1>1. path \in Seq(MemberNames) /\ path # <<>>
  BY TreeAssumption
<1>2. Len(path) \in Nat \ {0}
  BY <1>1, EmptySeq
<1>3. CASE Walks(h, o, path, 1) = {}
  BY <1>3 DEF DotRemove, Fail
<1>4. CASE Walks(h, o, path, 1) # {}
  <2>. DEFINE w == CHOOSE w \in Walks(h, o, path, 1) : TRUE
  <2>1. w \in Walks(h, o, path, 1)
    BY <1>4
  <2>3. DotRemove(h, o, path, 1, TRUE) = RemoveMember(h, w[Len(path)], Last(path), TRUE)
    BY <1>4 DEF DotRemove
  <2>. HIDE DEF w
  <2>2. w[Len(path)] \in Ids
    BY <1>2, <2>1 DEF Walks
  <2>. QED
    BY <2>2, <2>3, RemoveFreesSound
<1>. QED
  BY <1>3, <1>4

-----------------------------------------------------------------------------
(* Putting a value into a container.                                       *)

\* The heap with v in a slot of c.
LEMMA StoringMade ==
  ASSUME NEW h \in Heaps, NEW c \in Ids, NEW v \in Ids, NEW s \in Items,
         NEW p \in DOMAIN s, s[p].value = v
  PROVE  Storing(h, [h EXCEPT !.items[c] = s, !.parent[v] = c], c, s, p, v)
<1>. DEFINE g == [h EXCEPT !.items[c] = s, !.parent[v] = c]
<1>1. /\ h.kind \in [Ids -> Kinds \union {"free"}]
      /\ h.parent \in [Ids -> Ids \union {NULL}]
      /\ h.items \in [Ids -> Items]
  BY DEF Heaps
<1>2. g \in Heaps
  BY DEF Heaps
<1>3. /\ g.kind = h.kind
      /\ g.parent = [h.parent EXCEPT ![v] = c]
      /\ g.items = [h.items EXCEPT ![c] = s]
  BY DEF Heaps
<1>. HIDE DEF g
<1>4. Storing(h, g, c, s, p, v)
  BY <1>1, <1>2, <1>3 DEF Storing
<1>. QED
  BY <1>4 DEF g

\* g is h with v at the end of container c.
Added(h, g, c, name, v) ==
  \E s \in Items :
    /\ Storing(h, g, c, s, Len(h.items[c]) + 1, v)
    /\ DOMAIN s = 1 .. Len(h.items[c]) + 1
    /\ s[Len(h.items[c]) + 1] = [name |-> name, value |-> v]

\* The root v may be added to c with a name.
Adds(h, R, L, c, name, v) ==
  /\ Sound(h, R, L) /\ c \in Live(h) /\ v \in R /\ c \notin Below(h)[{v}]
  /\ name \in MemberNames \union {NULL}

Attaches(h, R, L, c, name, v, g) ==
  /\ Adds(h, R, L, c, name, v)
  /\ h.kind[c] = "object" => SlotOf(h, c, name) = 0
  /\ g = Attach(h, c, name, v)

\* The stores at the end of json_array_add and json_object_add.
LEMMA AttachSound ==
  ASSUME NEW h, NEW R, NEW L, NEW c, NEW name, NEW v, NEW g, Attaches(h, R, L, c, name, v, g)
  PROVE  /\ Sound(g, R \ {v}, L \ {v})
         /\ Live(g) = Live(h)
         /\ Added(h, g, c, name, v)
<1>. DEFINE its == h.items[c]
            e == [name |-> name, value |-> v]
            s == Append(its, e)
            p == Len(its) + 1
<1>0. /\ Sound(h, R, L) /\ c \in Live(h) /\ v \in R /\ c \notin Below(h)[{v}]
      /\ name \in MemberNames \union {NULL}
      /\ h.kind[c] = "object" => SlotOf(h, c, name) = 0
      /\ g = Attach(h, c, name, v)
  BY DEF Attaches, Adds
<1>1. h \in Heaps /\ c \in Ids /\ v \in Ids
  BY <1>0, LiveTyped DEF Sound
<1>2. its \in Items /\ e \in Slot
  BY <1>0, <1>1 DEF Heaps, Slot
<1>3. DOMAIN its = 1 .. Len(its) /\ Len(its) \in Nat
  BY <1>2, ItemsTyped
<1>4. e.value = v /\ e.name = name
  OBVIOUS
<1>5. g = [h EXCEPT !.items[c] = s, !.parent[v] = c]
  BY <1>0, <1>1 DEF Attach, Heaps
<1>. HIDE DEF e
<1>6. /\ s \in Items
      /\ DOMAIN s = 1 .. Len(its) + 1
      /\ s[p] = e
      /\ \A k \in 1 .. Len(its) : s[k] = its[k]
      /\ PicksBut(s, p, its)
  BY <1>2, AppendItems
<1>. HIDE DEF s
<1>7. p \in DOMAIN s /\ s[p].value = v
  BY <1>3, <1>4, <1>6
<1>8. Storing(h, g, c, s, p, v)
  <2>. DEFINE j == [h EXCEPT !.items[c] = s, !.parent[v] = c]
  <2>1. Storing(h, j, c, s, p, v)
    <3>. HIDE DEF p
    <3>. QED
      BY <1>1, <1>6, <1>7, StoringMade
  <2>. QED
    BY <1>5, <2>1
<1>9. h.kind[c] = "object" => \A k \in DOMAIN s \ {p} : s[k].name # s[p].name
  <2>. SUFFICES ASSUME h.kind[c] = "object", NEW k \in DOMAIN s \ {p}
                PROVE  s[k].name # s[p].name
    OBVIOUS
  <2>1. k \in DOMAIN its
    BY <1>3, <1>6
  <2>2. its[k].name # name
    BY <1>0, <1>1, <2>1, SlotFound
  <2>3. s[k] = its[k] /\ s[p].name = name
    BY <1>3, <1>4, <1>6, <2>1
  <2>. QED
    BY <2>2, <2>3
<1>10. PicksBut(s, p, its)
  BY <1>6
<1>. HIDE DEF p
<1>11. Sound(g, R \ {v}, L \ {v}) /\ Live(g) = Live(h)
  <2>1. Stores(h, R, L, c, v, s, p, g)
    BY <1>0, <1>8, <1>9, <1>10 DEF Stores
  <2>. QED
    BY <2>1, StoreSound
<1>. QED
  BY <1>6, <1>8, <1>11 DEF p, e, Added

\* A call that added v to c has come to outcome add.
AddEnds(h, R, L, c, name, v, add) ==
  \/ /\ add.ok = TRUE
     /\ Sound(add.heap, R \ {v}, L \ {v})
     /\ Live(add.heap) = Live(h)
     /\ Added(h, add.heap, c, name, v)
  \/ add.ok = FALSE /\ add.heap = h

\* json_array_add, json_object_add.
LEMMA AddSound ==
  ASSUME NEW h, NEW R, NEW L, NEW c, NEW name, NEW v, Adds(h, R, L, c, name, v),
         NEW add \in Add(h, c, name, v)
  PROVE  AddEnds(h, R, L, c, name, v, add)
<1>1. CASE add = Fail(h)
  BY <1>1 DEF Fail, AddEnds
<1>2. CASE add # Fail(h)
  <2>. DEFINE g == Attach(h, c, name, v)
  <2>1. add = Ok(g) /\ ~(h.kind[c] = "object" /\ SlotOf(h, c, name) # 0)
    BY <1>2 DEF Add
  <2>2. add.ok = TRUE /\ add.heap = g
    BY <2>1 DEF Ok
  <2>. HIDE DEF g
  <2>3. /\ Sound(g, R \ {v}, L \ {v})
        /\ Live(g) = Live(h)
        /\ Added(h, g, c, name, v)
    <3>1. Attaches(h, R, L, c, name, v, g)
      BY <2>1 DEF Attaches, g
    <3>. QED
      BY ONLY <3>1, AttachSound
  <2>. QED
    BY <2>2, <2>3 DEF AddEnds
<1>. QED
  BY <1>1, <1>2

\* Replacing a value in its slot: the old one is taken out and freed, and the new one
\* put in.
LEMMA ExchangeSound ==
  ASSUME NEW h, NEW R, NEW L, Sound(h, R, L), NEW c \in Live(h), NEW v \in R,
         c \notin Below(h)[{v}], NEW n \in DOMAIN h.items[c]
  PROVE  Sound(Exchange(h, c, n, v), R \ {v}, L \ {v})
<1>. DEFINE its == h.items[c]
            x == its[n].value
            X == {x}
            r == RemoveAt(its, n)
            s == [its EXCEPT ![n].value = v]
            k == [h EXCEPT !.items[c] = r]
            j == [k EXCEPT !.items[c] = s, !.parent[v] = c]
            K == DOMAIN its \ {n}
            f == FreeValues(h, X)
            g == [f EXCEPT !.items[c] = s, !.parent[v] = c]
<1>1. h \in Heaps /\ c \in Ids /\ v \in Ids
  BY LiveTyped DEF Sound
<1>2. its \in Items
  BY <1>1 DEF Heaps
<1>3. r \in Items /\ Picks(r, its, K)
  BY <1>2, RemoveAtItems, RemoveAtPicks
<1>4. /\ s \in Items /\ DOMAIN s = DOMAIN its /\ s[n].value = v
      /\ \A i \in DOMAIN its : s[i].name = its[i].name
      /\ PicksBut(s, n, r)
  BY <1>1, <1>2, ExchangeItems
<1>5. Holding(h, k, c, r)
  BY <1>1, <1>3, HoldingMade
<1>6. X = NotIn(h, c, K)
  BY DEF NotIn
<1>7. Exchange(h, c, n, v) = g
  BY DEF Exchange, FreeValue
<1>8. x \in Ids
  BY <1>1, MembersTyped
<1>9. K \subseteq DOMAIN its
  OBVIOUS
<1>10. x \in X /\ X \in SUBSET Ids
  BY <1>8
<1>. HIDE DEF r, s, k, X, K
<1>11. /\ X \subseteq Members(h, c) /\ X \intersect R = {}
       /\ Sound(k, R \union X, L \union X)
       /\ Live(k) = Live(h)
       /\ Below(k)[X] = Below(h)[X]
       /\ c \notin Below(h)[X]
  <2>1. Detaches(h, R, L, c, K, r, k, X)
    BY <1>3, <1>5, <1>6, <1>9 DEF Detaches
  <2>. QED
    BY <2>1, DetachSound
<1>12. k \in Heaps
  BY <1>5 DEF Holding
<1>13. Storing(k, j, c, s, n, v)
  BY <1>1, <1>4, <1>12, StoringMade
<1>. HIDE DEF j
<1>14. c \notin Below(k)[{v}]
  <2>1. Below(h)[{v}] \subseteq Ids
    BY <1>1, BelowLeast
  <2>2. \A u \in Below(h)[{v}] : k.items[u] = h.items[u]
    BY <1>5, <2>1 DEF Holding
  <2>3. Below(k)[{v}] = Below(h)[{v}]
    BY <1>1, <1>12, <2>2, SameBelow
  <2>. QED
    BY <2>3
<1>15. k.kind[c] = "object" => \A i \in DOMAIN s \ {n} : s[i].name # s[n].name
  <2>1. k.kind = h.kind
    BY <1>5 DEF Holding
  <2>. QED
    BY <1>1, <1>4, <2>1 DEF Sound, NamesDistinct
<1>16. k.items[c] = r
  BY <1>5 DEF Holding
<1>17. Sound(j, (R \union X) \ {v}, (L \union X) \ {v}) /\ Live(j) = Live(h)
  <2>. DEFINE Q == R \union X
              P == L \union X
  <2>1. v \in Q /\ Sound(k, Q, P) /\ c \in Live(k) /\ PicksBut(s, n, k.items[c])
    BY <1>4, <1>11, <1>16
  <2>. HIDE DEF Q, P
  <2>2. Sound(j, Q \ {v}, P \ {v}) /\ Live(j) = Live(k)
    <3>1. Stores(k, Q, P, c, v, s, n, j)
      BY <1>13, <1>14, <1>15, <2>1 DEF Stores
    <3>. QED
      BY <3>1, StoreSound
  <2>. QED
    BY <1>11, <2>2 DEF Q, P
<1>18. v \notin X
  BY <1>11
<1>19. v \notin Below(h)[X]
  BY <1>1, <1>10, <1>18, RootsApart
<1>20. Freed(h, f, X)
  BY <1>1, <1>10, FreeValuesFrees
<1>21. f \in Heaps
  BY <1>20 DEF Freed
<1>. HIDE DEF f
<1>22. Storing(f, g, c, s, n, v)
  BY <1>1, <1>4, <1>21, StoringMade
<1>. HIDE DEF g
<1>23. \A u \in Ids \ {c} : j.items[u] = h.items[u]
  BY <1>5, <1>13 DEF Holding, Storing
<1>24. Below(j)[X] = Below(h)[X]
  <2>1. \A u \in Below(h)[X] : j.items[u] = h.items[u]
    BY <1>1, <1>10, <1>11, <1>23, BelowLeast
  <2>2. j \in Heaps
    BY <1>13 DEF Storing
  <2>. QED
    BY <1>1, <1>10, <2>1, <2>2, SameBelow
<1>25. Freed(j, g, X)
  <2>. DEFINE T == Below(h)[X]
  <2>1. T \subseteq Ids
    BY <1>1, <1>10, BelowLeast
  <2>2. \A u \in T : g.kind[u] = "free" /\ g.parent[u] = NULL /\ g.items[u] = <<>>
    <3>. SUFFICES ASSUME NEW u \in T
                  PROVE  g.kind[u] = "free" /\ g.parent[u] = NULL /\ g.items[u] = <<>>
      OBVIOUS
    <3>1. u \in Ids /\ u # c /\ u # v
      BY <1>11, <1>19, <2>1
    <3>2. f.kind[u] = "free" /\ f.parent[u] = NULL /\ f.items[u] = <<>>
      BY <1>20 DEF Freed
    <3>. QED
      BY <1>22, <3>1, <3>2 DEF Storing
  <2>3. \A u \in Ids \ T : g.kind[u] = j.kind[u] /\ g.parent[u] = j.parent[u] /\ g.items[u] = j.items[u]
    <3>. SUFFICES ASSUME NEW u \in Ids \ T
                  PROVE  g.kind[u] = j.kind[u] /\ g.parent[u] = j.parent[u] /\ g.items[u] = j.items[u]
      OBVIOUS
    <3>1. f.kind[u] = h.kind[u] /\ f.parent[u] = h.parent[u] /\ f.items[u] = h.items[u]
      BY <1>20 DEF Freed
    <3>2. g.kind[u] = j.kind[u]
      BY <1>5, <1>13, <1>22, <3>1 DEF Storing, Holding
    <3>3. g.parent[u] = j.parent[u]
      BY <1>5, <1>13, <1>22, <3>1 DEF Storing, Holding
    <3>4. g.items[u] = j.items[u]
      BY <1>13, <1>22, <1>23, <3>1 DEF Storing
    <3>. QED
      BY <3>2, <3>3, <3>4
  <2>4. g \in Heaps
    BY <1>22 DEF Storing
  <2>. QED
    BY <1>24, <2>2, <2>3, <2>4 DEF Freed
<1>26. Sound(g, ((R \union X) \ {v}) \ X, ((L \union X) \ {v}) \ X)
  <2>. DEFINE Q == (R \union X) \ {v}
              P == (L \union X) \ {v}
  <2>1. Sound(j, Q, P) /\ X \in SUBSET Q
    BY <1>17, <1>18
  <2>. HIDE DEF Q, P
  <2>2. Sound(g, Q \ X, P \ X)
    BY <1>25, <2>1, FreedSound
  <2>. QED
    BY <2>2 DEF Q, P
<1>27. ((R \union X) \ {v}) \ X = R \ {v} /\ ((L \union X) \ {v}) \ X = L \ {v}
  BY <1>11 DEF Sound
<1>. QED
  BY <1>7, <1>26, <1>27

-----------------------------------------------------------------------------
(* The calls that take a value.                                            *)

\* A call that was passed v has come to outcome o: it has taken v, or has not; if
\* it has not, v may have got a parent all the same.
PassedSound(R, L, v, o) ==
  \/ o.ok = TRUE /\ v \in R \ L /\ Sound(o.heap, R \ {v}, L)
  \/ o.ok = FALSE /\ Sound(o.heap, R, L)
  \/ o.ok = FALSE /\ v \in R /\ Sound(o.heap, R, L \union {v})

\* v may be passed to a call that puts it into c.
Passable(h, R, L, c, v) ==
  /\ Sound(h, R, L) /\ c \in Live(h) /\ v \in Live(h)
  /\ v \in R => c \notin Below(h)[{v}]

\* A value that is not refused is a root without a parent.
LEMMA NotRefused ==
  ASSUME NEW h, NEW R, NEW L, Sound(h, R, L), NEW v \in Live(h), ~Refused(h, v)
  PROVE  v \in R \ L
<1>1. h.parent[v] = NULL
  BY DEF Refused
<1>2. v \in R
  <2>. SUFFICES ASSUME v \notin R
                PROVE  FALSE
    OBVIOUS
  <2>1. PICK c \in Live(h) : v \in Members(h, c)
    BY HasSlot
  <2>2. c \in Ids /\ h.parent[v] = c
    BY <2>1, LiveTyped DEF Sound, MembersHeld
  <2>. QED
    BY <1>1, <2>2, TreeAssumption
<1>. QED
  BY <1>1, <1>2 DEF Sound

\* json_array_add and json_object_add of such a value.
LEMMA AddPasses ==
  ASSUME NEW h, NEW R, NEW L, NEW c, NEW v, Passable(h, R, L, c, v), ~Refused(h, v),
         NEW name \in MemberNames \union {NULL}, NEW o \in Add(h, c, name, v)
  PROVE  /\ PassedSound(R, L, v, o)
         /\ o.ok => Added(h, o.heap, c, name, v)
         /\ ~o.ok => o.heap = h
<1>1. /\ Sound(h, R, L) /\ c \in Live(h) /\ v \in Live(h)
      /\ v \in R => c \notin Below(h)[{v}]
  BY DEF Passable
<1>2. v \in R \ L
  BY <1>1, NotRefused
<1>3. Adds(h, R, L, c, name, v)
  BY <1>1, <1>2 DEF Adds
<1>4. \/ /\ o.ok = TRUE
         /\ Sound(o.heap, R \ {v}, L \ {v})
         /\ Live(o.heap) = Live(h)
         /\ Added(h, o.heap, c, name, v)
      \/ o.ok = FALSE /\ o.heap = h
  <2>1. AddEnds(h, R, L, c, name, v, o)
    BY <1>3, AddSound
  <2>. QED
    BY <2>1 DEF AddEnds
<1>5. L \ {v} = L
  BY <1>2
<1>. QED
  BY <1>1, <1>2, <1>4, <1>5 DEF PassedSound

\* json_array_replace_value, and json_object_set_value of a name that is there.
LEMMA ExchangePasses ==
  ASSUME NEW h, NEW R, NEW L, NEW c, NEW v, Passable(h, R, L, c, v), ~Refused(h, v),
         NEW n \in DOMAIN h.items[c]
  PROVE  PassedSound(R, L, v, Ok(Exchange(h, c, n, v)))
<1>1. /\ Sound(h, R, L) /\ c \in Live(h) /\ v \in Live(h)
      /\ v \in R => c \notin Below(h)[{v}]
  BY DEF Passable
<1>2. v \in R \ L
  BY <1>1, NotRefused
<1>3. Sound(Exchange(h, c, n, v), R \ {v}, L \ {v})
  BY <1>1, <1>2, ExchangeSound
<1>4. L \ {v} = L
  BY <1>2
<1>. QED
  BY <1>2, <1>3, <1>4 DEF PassedSound, Ok

LEMMA FailPasses ==
  ASSUME NEW h, NEW R, NEW L, NEW v, Sound(h, R, L)
  PROVE  PassedSound(R, L, v, Fail(h))
  BY DEF PassedSound, Fail

\* json_array_append_value.
LEMMA AppendPasses ==
  ASSUME NEW h, NEW R, NEW L, NEW a, NEW v, Passable(h, R, L, a, v),
         NEW o \in AppendValue(h, a, v)
  PROVE  PassedSound(R, L, v, o)
<1>1. CASE Refused(h, v)
  BY <1>1, FailPasses DEF AppendValue, Passable
<1>2. CASE ~Refused(h, v)
  <2>1. o \in Add(h, a, NULL, v)
    BY <1>2 DEF AppendValue
  <2>2. NULL \in MemberNames \union {NULL}
    OBVIOUS
  <2>. QED
    BY <1>2, <2>1, <2>2, AddPasses
<1>. QED
  BY <1>1, <1>2

\* json_array_replace_value.
LEMMA ReplacePasses ==
  ASSUME NEW h, NEW R, NEW L, NEW a, NEW v, Passable(h, R, L, a, v), NEW n,
         NEW o \in ReplaceValue(h, a, n, v)
  PROVE  PassedSound(R, L, v, o)
<1>1. CASE Refused(h, v) \/ n \notin DOMAIN h.items[a]
  BY <1>1, FailPasses DEF ReplaceValue, Passable
<1>2. CASE ~Refused(h, v) /\ n \in DOMAIN h.items[a]
  <2>1. o = Ok(Exchange(h, a, n, v))
    BY <1>2 DEF ReplaceValue
  <2>. QED
    BY <1>2, <2>1, ExchangePasses
<1>. QED
  BY <1>1, <1>2

\* json_object_set_value; an object without members gets one.
LEMMA SetPasses ==
  ASSUME NEW h, NEW R, NEW L, NEW c, NEW v, Passable(h, R, L, c, v),
         NEW name \in MemberNames, NEW o \in SetValue(h, c, name, v)
  PROVE  /\ PassedSound(R, L, v, o)
         /\ ~o.ok => o.heap = h
         /\ o.ok /\ h.items[c] = <<>> => Added(h, o.heap, c, name, v)
<1>. DEFINE n == SlotOf(h, c, name)
<1>1. h \in Heaps /\ c \in Ids
  BY LiveTyped DEF Passable, Sound
<1>2. CASE Refused(h, v)
  <2>1. o = Fail(h)
    BY <1>2 DEF SetValue
  <2>. QED
    BY <2>1, FailPasses DEF Passable, Fail
<1>3. CASE ~Refused(h, v) /\ n # 0
  <2>1. o = Ok(Exchange(h, c, n, v))
    BY <1>3 DEF SetValue
  <2>2. n \in DOMAIN h.items[c]
    BY <1>1, <1>3, SlotFound
  <2>3. h.items[c] # <<>>
    BY <2>2
  <2>. HIDE DEF n
  <2>4. PassedSound(R, L, v, o)
    BY <1>3, <2>1, <2>2, ExchangePasses
  <2>. QED
    BY <2>1, <2>3, <2>4 DEF Ok
<1>4. CASE ~Refused(h, v) /\ n = 0
  <2>1. o \in Add(h, c, name, v)
    BY <1>4 DEF SetValue
  <2>. QED
    BY <1>4, <2>1, AddPasses
<1>. QED
  BY <1>2, <1>3, <1>4

-----------------------------------------------------------------------------
(* The calls that make the value themselves.                               *)

\* A new value may be passed to a call that puts it into what was there.
LEMMA NewPassable ==
  ASSUME NEW h, NEW R, NEW L, Sound(h, R, L), NEW c \in Live(h), NEW kind \in Kinds,
         NEW new \in New(h, kind), new.id # NULL
  PROVE  /\ new.id \notin R
         /\ Passable(new.heap, R \union {new.id}, L, c, new.id)
<1>. DEFINE v == new.id
            g == new.heap
<1>1. h \in Heaps /\ R \subseteq Live(h) /\ c \in Ids
  BY LiveTyped DEF Sound
<1>0. Fresh(h, R, L, v, kind, g)
  BY NewSound
<1>. HIDE DEF v, g
<1>2. v \in Ids \ Live(h) /\ Made(h, g, v, kind)
  BY <1>0 DEF Fresh
<1>3. /\ Sound(g, R \union {v}, L)
      /\ Live(g) = Live(h) \union {v}
  BY <1>0 DEF Fresh
<1>4. c \notin Below(g)[{v}]
  <2>1. v \in R \union {v} /\ g \in Heaps /\ {v} \in SUBSET Ids
    BY <1>2 DEF Made
  <2>2. Members(g, v) = {}
    BY <1>2 DEF Made, Members
  <2>3. Below(g)[{v}] \subseteq {v}
    <3>1. Closed(g, {v})
      BY <2>2 DEF Closed
    <3>. QED
      BY <2>1, <3>1, BelowLeast
  <2>. QED
    BY <1>2, <2>3
<1>. QED
  BY <1>1, <1>2, <1>3, <1>4 DEF Passable, v, g

\* json_value_free of what a call did not take.
LEMMA FreeUnlessOkSound ==
  ASSUME NEW h, NEW R, NEW L, Sound(h, R, L), NEW v, v \notin R, NEW o,
         PassedSound(R \union {v}, L, v, o)
  PROVE  Sound(FreeUnlessOk(o, v), R, L)
<1>. DEFINE Q == R \union {v}
            g == FreeUnlessOk(o, v)
            X == {v}
<1>1. L \subseteq R
  BY DEF Sound
<1>2. CASE o.ok = TRUE
  <2>1. Sound(o.heap, Q \ {v}, L)
    BY <1>2 DEF PassedSound
  <2>2. Q \ {v} = R
    OBVIOUS
  <2>. QED
    BY <1>2, <2>1, <2>2 DEF FreeUnlessOk
<1>3. CASE o.ok = FALSE
  <2>1. PICK P \in {L, L \union {v}} : Sound(o.heap, Q, P)
    BY <1>3 DEF PassedSound
  <2>2. g = FreeValues(o.heap, X)
    BY <1>3 DEF FreeUnlessOk, FreeValue
  <2>3. o.heap \in Heaps /\ X \in SUBSET Q /\ X \in SUBSET Ids
    BY <2>1, LiveTyped DEF Sound
  <2>. HIDE DEF Q, X, g
  <2>4. Freed(o.heap, g, X)
    BY <2>2, <2>3, FreeValuesFrees
  <2>5. Sound(g, Q \ X, P \ X)
    BY <2>1, <2>3, <2>4, FreedSound
  <2>6. Q \ X = R /\ P \ X = L
    BY <1>1 DEF Q, X
  <2>. QED
    BY <2>5, <2>6 DEF g
<1>. QED
  BY <1>2, <1>3 DEF PassedSound

\* json_array_append_string and the functions like it.
LEMMA WithNewSound ==
  ASSUME NEW h, NEW R, NEW L, Sound(h, R, L), NEW c \in Live(h), NEW kind \in Kinds,
         NEW new \in New(h, kind), NEW os,
         Passable(new.heap, R \union {new.id}, L, c, new.id) =>
           \A o \in os : PassedSound(R \union {new.id}, L, new.id, o),
         NEW g \in WithNew(new, os)
  PROVE  Sound(g, R, L)
<1>1. h \in Heaps
  BY DEF Sound
<1>2. CASE new.id = NULL
  <2>1. new.heap = h
    BY <1>1, <1>2, NewMakes, TreeAssumption
  <2>. QED
    BY <1>2, <2>1 DEF WithNew
<1>3. CASE new.id # NULL
  <2>1. new.id \notin R /\ Passable(new.heap, R \union {new.id}, L, c, new.id)
    BY <1>3, NewPassable
  <2>2. PICK o \in os : g = FreeUnlessOk(o, new.id)
    BY <1>3 DEF WithNew
  <2>3. PassedSound(R \union {new.id}, L, new.id, o)
    BY <2>1
  <2>. DEFINE v == new.id
  <2>4. v \notin R /\ PassedSound(R \union {v}, L, v, o)
    BY <2>1, <2>3
  <2>. HIDE DEF v
  <2>5. Sound(FreeUnlessOk(o, v), R, L)
    BY <2>4, FreeUnlessOkSound
  <2>. QED
    BY <2>2, <2>5 DEF v
<1>. QED
  BY <1>2, <1>3

-----------------------------------------------------------------------------
(* Loops: the sets of what a call can have come to after n steps.          *)

\* M steps that stay among the subsets of C.
Loop(M, C, A, G) == M \in Nat /\ A \in SUBSET C /\ G \in [1 .. M -> [SUBSET C -> SUBSET C]]

\* There is a function that says what each of them comes to.
Looped(M, C, A, G) ==
  \E f \in [0 .. M -> SUBSET C] :
    /\ f[0] = A
    /\ \A n \in 1 .. M : f[n] = G[n][f[n - 1]]

LEMMA LoopExists ==
  ASSUME NEW M, NEW C, NEW A, NEW G, Loop(M, C, A, G)
  PROVE  Looped(M, C, A, G)
<1>0. M \in Nat /\ A \in SUBSET C /\ G \in [1 .. M -> [SUBSET C -> SUBSET C]]
  BY DEF Loop
<1>. DEFINE Upto(n, f) == f = [k \in 0 .. n |-> IF k = 0 THEN A ELSE G[k][f[k - 1]]]
            D == {n \in 0 .. M : \E f \in [0 .. n -> SUBSET C] : Upto(n, f)}
<1>. USE <1>0
<1>1. 0 \in D
  <2>. DEFINE f == [k \in 0 .. 0 |-> A]
  <2>1. f \in [0 .. 0 -> SUBSET C]
    OBVIOUS
  <2>2. Upto(0, f)
    OBVIOUS
  <2>. HIDE DEF Upto, f
  <2>. QED
    BY <2>1, <2>2
<1>2. ASSUME NEW n \in 1 .. M, n - 1 \in D
      PROVE  n \in D
  <2>1. PICK f \in [0 .. n - 1 -> SUBSET C] : Upto(n - 1, f)
    BY <1>2
  <2>. DEFINE g == [k \in 0 .. n |-> IF k = n THEN G[n][f[n - 1]] ELSE f[k]]
  <2>2. n - 1 \in 0 .. n - 1 /\ f[n - 1] \in SUBSET C
    OBVIOUS
  <2>3. G[n][f[n - 1]] \in SUBSET C
    BY <2>2
  <2>4. g \in [0 .. n -> SUBSET C]
    BY <2>3
  <2>5. ASSUME NEW k \in 0 .. n
        PROVE  g[k] = IF k = 0 THEN A ELSE G[k][g[k - 1]]
    <3>1. CASE k = n
      <4>1. g[k - 1] = f[n - 1]
        BY <3>1
      <4>. QED
        BY <3>1, <4>1
    <3>2. CASE k # n
      <4>1. k \in 0 .. n - 1 /\ g[k] = f[k]
        BY <3>2
      <4>2. f[k] = IF k = 0 THEN A ELSE G[k][f[k - 1]]
        BY <2>1, <4>1
      <4>3. k # 0 => g[k - 1] = f[k - 1]
        BY <4>1
      <4>. QED
        BY <4>1, <4>2, <4>3
    <3>. QED
      BY <3>1, <3>2
  <2>6. Upto(n, g)
    <3>1. g = [k \in 0 .. n |-> g[k]]
      OBVIOUS
    <3>. HIDE DEF g
    <3>. QED
      BY <2>5, <3>1
  <2>. HIDE DEF Upto, g
  <2>. QED
    BY <2>4, <2>6
<1>3. M \in D
  <2>. HIDE DEF D
  <2>1. \A n \in 1 .. M : n - 1 \in D => n \in D
    BY <1>2
  <2>2. \A n \in 0 .. M : n \in D
    BY <1>1, <2>1, Forward
  <2>. QED
    BY <2>2
<1>4. PICK f \in [0 .. M -> SUBSET C] : Upto(M, f)
  BY <1>3
<1>. QED
  BY <1>4 DEF Looped

\* All but the last of a sequence, and the last.
LEMMA FrontAndLast ==
  ASSUME NEW S, NEW s \in Seq(S), s # <<>>
  PROVE  /\ Len(s) \in Nat \ {0}
         /\ DOMAIN s = 1 .. Len(s)
         /\ Front(s) \in Seq(S)
         /\ Len(Front(s)) = Len(s) - 1
         /\ DOMAIN Front(s) = 1 .. Len(s) - 1
         /\ \A k \in 1 .. Len(s) - 1 : Front(s)[k] = s[k]
         /\ Last(s) = s[Len(s)]
         /\ Last(s) \in S
<1>. DEFINE M == Len(s)
            t == SubSeq(s, 1, M - 1)
<1>1. M \in Nat \ {0} /\ DOMAIN s = 1 .. M /\ \A k \in 1 .. M : s[k] \in S
  BY EmptySeq, LenProperties, ElementOfSeq
<1>2. Front(s) = t /\ Last(s) = s[M]
  BY DEF Front, Last
<1>. HIDE DEF M
<1>3. /\ t \in Seq(S) /\ Len(t) = M - 1
      /\ \A j \in 1 .. M - 1 : t[j] = s[j]
  <2>1. 1 \in Int /\ M - 1 \in Int /\ \A j \in 1 .. M - 1 : s[j] \in S
    BY <1>1
  <2>2. /\ SubSeq(s, 1, M - 1) \in Seq(S)
        /\ Len(SubSeq(s, 1, M - 1)) = IF 1 <= M - 1 THEN (M - 1) - 1 + 1 ELSE 0
        /\ \A j \in 1 .. (M - 1) - 1 + 1 : SubSeq(s, 1, M - 1)[j] = s[1 + j - 1]
    BY <2>1, SubSeqProperties
  <2>. QED
    BY <1>1, <2>2
<1>. HIDE DEF t
<1>4. DOMAIN t = 1 .. M - 1
  BY <1>3, LenProperties
<1>5. s[M] \in S
  BY <1>1
<1>. QED
  BY <1>1, <1>2, <1>3, <1>4, <1>5 DEF M

-----------------------------------------------------------------------------
(* Building a value from the outside to the inside.                        *)

OpenCalls == [value : Ids, name : MemberNames \union {NULL}, from : Ids \union {NULL}]

Builds == [heap : Heaps, open : Seq(OpenCalls), done : BOOLEAN, id : Ids \union {NULL}]

Values(open) == {f.value : f \in Range(open)}

ValuesDistinct(open) == \A j, k \in DOMAIN open : open[j].value = open[k].value => j = k

\* The containers that are being filled are roots; in the end the value that has
\* been built is one, or nothing is left of it.
Filling(c, R, L) ==
  /\ c \in Builds /\ L \subseteq R
  /\ ~c.done => /\ ValuesDistinct(c.open)
                /\ Values(c.open) \intersect R = {}
                /\ Sound(c.heap, R \union Values(c.open), L)
  /\ c.done => \/ c.id = NULL /\ Sound(c.heap, R, L)
               \/ c.id \in Ids \ R /\ Sound(c.heap, R \union {c.id}, L)

LEMMA ValuesAppend ==
  ASSUME NEW open \in Seq(OpenCalls), NEW f \in OpenCalls
  PROVE  /\ Append(open, f) \in Seq(OpenCalls)
         /\ Append(open, f) # <<>>
         /\ Range(Append(open, f)) = Range(open) \union {f}
         /\ Values(Append(open, f)) = Values(open) \union {f.value}
         /\ ValuesDistinct(open) /\ f.value \notin Values(open) => ValuesDistinct(Append(open, f))
<1>. DEFINE t == Append(open, f)
            M == Len(open)
<1>1. /\ t \in Seq(OpenCalls) /\ t # <<>> /\ Len(t) = M + 1
      /\ \A i \in 1 .. M : t[i] = open[i]
      /\ t[M + 1] = f
  BY AppendProperties
<1>2. M \in Nat /\ DOMAIN open = 1 .. M
  BY LenProperties
<1>. HIDE DEF t, M
<1>3. DOMAIN t = 1 .. M + 1
  BY <1>1, LenProperties
<1>4. Range(t) = Range(open) \union {f}
  <2>1. Range(t) \subseteq Range(open) \union {f}
    BY <1>1, <1>2, <1>3 DEF Range
  <2>2. Range(open) \subseteq Range(t)
    BY <1>1, <1>2, <1>3 DEF Range
  <2>3. f \in Range(t)
    BY <1>1, <1>2, <1>3 DEF Range
  <2>. QED
    BY <2>1, <2>2, <2>3
<1>5. Values(t) = Values(open) \union {f.value}
  BY <1>4 DEF Values
<1>6. ASSUME ValuesDistinct(open), f.value \notin Values(open)
      PROVE  ValuesDistinct(t)
  <2>. SUFFICES ASSUME NEW j \in 1 .. M + 1, NEW k \in 1 .. M + 1, t[j].value = t[k].value
                PROVE  j = k
    BY <1>3 DEF ValuesDistinct
  <2>1. \A i \in 1 .. M : open[i].value # f.value
    BY <1>2, <1>6 DEF Values, Range
  <2>2. CASE j # M + 1 /\ k # M + 1
    BY <1>1, <1>2, <1>6, <2>2 DEF ValuesDistinct
  <2>3. CASE j = M + 1 \/ k = M + 1
    BY <1>1, <1>2, <2>1, <2>3
  <2>. QED
    BY <2>2, <2>3
<1>. QED
  BY <1>1, <1>4, <1>5, <1>6 DEF t

LEMMA ValuesFront ==
  ASSUME NEW open \in Seq(OpenCalls), open # <<>>
  PROVE  /\ Front(open) \in Seq(OpenCalls)
         /\ Last(open) \in OpenCalls
         /\ Last(open) \in Range(open)
         /\ Range(Front(open)) \subseteq Range(open)
         /\ Values(open) = Values(Front(open)) \union {Last(open).value}
         /\ ValuesDistinct(open) => /\ ValuesDistinct(Front(open))
                                    /\ Last(open).value \notin Values(Front(open))
<1>. DEFINE t == Front(open)
            M == Len(open)
            z == Last(open)
<1>1. /\ M \in Nat \ {0} /\ DOMAIN open = 1 .. M
      /\ t \in Seq(OpenCalls) /\ DOMAIN t = 1 .. M - 1
      /\ \A k \in 1 .. M - 1 : t[k] = open[k]
      /\ z = open[M] /\ z \in OpenCalls
  BY FrontAndLast
<1>. HIDE DEF t, M, z
<1>2. Range(open) = Range(t) \union {z}
  <2>1. Range(open) \subseteq Range(t) \union {z}
    BY <1>1 DEF Range
  <2>2. Range(t) \subseteq Range(open)
    BY <1>1 DEF Range
  <2>3. z \in Range(open)
    BY <1>1 DEF Range
  <2>. QED
    BY <2>1, <2>2, <2>3
<1>3. Values(open) = Values(t) \union {z.value}
  BY <1>2 DEF Values
<1>4. ASSUME ValuesDistinct(open)
      PROVE  ValuesDistinct(t) /\ z.value \notin Values(t)
  <2>1. ValuesDistinct(t)
    BY <1>1, <1>4 DEF ValuesDistinct
  <2>2. \A i \in 1 .. M - 1 : t[i].value # z.value
    BY <1>1, <1>4 DEF ValuesDistinct
  <2>3. z.value \notin Values(t)
    BY <1>1, <2>2 DEF Values, Range
  <2>. QED
    BY <2>1, <2>3
<1>. QED
  BY <1>1, <1>2, <1>3, <1>4 DEF t, z

LEMMA BuiltFills ==
  ASSUME NEW h, NEW R, NEW L, Sound(h, R, L)
  PROVE  /\ Filling(Built(h, NULL), R, L)
         /\ Built(h, NULL).done = TRUE
<1>1. <<>> \in Seq(OpenCalls)
  BY EmptySeq
<1>. QED
  BY <1>1 DEF Filling, Built, Builds, Sound

\* json_value_free of the containers that were being filled: nothing is left of them.
LEMMA GivenUpFills ==
  ASSUME NEW c, NEW R, NEW L, Filling(c, R, L), ~c.done
  PROVE  Filling(GivenUp(c), R, L) /\ GivenUp(c).done = TRUE
<1>. DEFINE X == Values(c.open)
            Q == R \union X
            g == FreeValues(c.heap, X)
<1>1. Sound(c.heap, Q, L) /\ X \intersect R = {} /\ L \subseteq R
  BY DEF Filling
<1>2. c.heap \in Heaps /\ Q \subseteq Ids
  BY <1>1, LiveTyped DEF Sound
<1>3. X \in SUBSET Q /\ X \in SUBSET Ids /\ Q \ X = R /\ L \ X = L
  BY <1>1, <1>2
<1>4. GivenUp(c) = Built(g, NULL)
  BY DEF GivenUp, Values
<1>. HIDE DEF X, Q, g
<1>5. Freed(c.heap, g, X)
  BY <1>2, <1>3, FreeValuesFrees DEF g
<1>6. Sound(g, Q \ X, L \ X)
  BY <1>1, <1>3, <1>5, FreedSound
<1>. QED
  BY <1>3, <1>4, <1>6, BuiltFills

\* One more value is made.
LEMMA StartFills ==
  ASSUME NEW c, NEW R, NEW L, Filling(c, R, L), ~c.done, NEW kind \in Kinds,
         NEW name \in MemberNames \union {NULL}, NEW from \in Ids \union {NULL},
         NEW d \in Start(c, kind, name, from)
  PROVE  /\ Filling(d, R, L)
         /\ ~d.done => /\ d.open # <<>>
                       /\ \E f \in OpenCalls : f.from = from /\ Range(d.open) = Range(c.open) \union {f}
                       /\ Live(c.heap) \subseteq Live(d.heap)
<1>1. PICK new \in New(c.heap, kind) :
        d = IF new.id = NULL THEN GivenUp(c)
            ELSE Building(new.heap, Append(c.open, [value |-> new.id, name |-> name, from |-> from]))
  BY DEF Start
<1>2. CASE new.id = NULL
  <2>1. d = GivenUp(c)
    BY <1>1, <1>2
  <2>. QED
    BY <2>1, GivenUpFills
<1>3. CASE new.id # NULL
  <2>. DEFINE v == new.id
              g == new.heap
              Q == R \union Values(c.open)
              f == [value |-> v, name |-> name, from |-> from]
              open == Append(c.open, f)
  <2>1. /\ Sound(c.heap, Q, L) /\ ValuesDistinct(c.open)
        /\ Values(c.open) \intersect R = {} /\ L \subseteq R
        /\ c.open \in Seq(OpenCalls)
    BY DEF Filling, Builds
  <2>2. Fresh(c.heap, Q, L, v, kind, g)
    <3>. HIDE DEF Q
    <3>. QED
      BY <1>3, <2>1, NewSound
  <2>3. d = Building(g, open)
    BY <1>1, <1>3
  <2>. HIDE DEF v, g
  <2>4. /\ v \in Ids \ Live(c.heap)
        /\ Sound(g, Q \union {v}, L)
        /\ Live(g) = Live(c.heap) \union {v}
    BY <2>2 DEF Fresh
  <2>5. v \notin Q
    BY <2>1, <2>4 DEF Sound
  <2>6. f \in OpenCalls /\ f.value = v /\ f.from = from
    BY <2>4 DEF OpenCalls
  <2>. HIDE DEF f
  <2>7. /\ open \in Seq(OpenCalls) /\ open # <<>>
        /\ Range(open) = Range(c.open) \union {f}
        /\ Values(open) = Values(c.open) \union {v}
        /\ ValuesDistinct(open)
    BY <2>1, <2>5, <2>6, ValuesAppend
  <2>. HIDE DEF open
  <2>8. R \union Values(open) = Q \union {v}
    BY <2>7
  <2>9. Values(open) \intersect R = {}
    BY <2>1, <2>5, <2>7
  <2>. HIDE DEF Q
  <2>10. d \in Builds /\ d.done = FALSE /\ d.heap = g /\ d.open = open
    BY <2>3, <2>4, <2>7 DEF Building, Builds, Sound
  <2>11. Filling(d, R, L)
    BY <2>1, <2>4, <2>7, <2>8, <2>9, <2>10 DEF Filling
  <2>. QED
    BY <2>4, <2>6, <2>7, <2>10, <2>11
<1>. QED
  BY <1>2, <1>3

\* The innermost value goes into the container around it, or is what has been built.
LEMMA CompleteFills ==
  ASSUME NEW c, NEW R, NEW L, Filling(c, R, L), ~c.done, c.open # <<>>,
         NEW d \in Complete(c)
  PROVE  /\ Filling(d, R, L)
         /\ ~d.done => /\ d.open # <<>>
                       /\ Range(d.open) \subseteq Range(c.open)
                       /\ Live(c.heap) \subseteq Live(d.heap)
<1>. DEFINE it == Last(c.open)
            around == Front(c.open)
            v == it.value
            Q == R \union Values(c.open)
<1>1. /\ Sound(c.heap, Q, L) /\ ValuesDistinct(c.open)
      /\ Values(c.open) \intersect R = {} /\ L \subseteq R
      /\ c.open \in Seq(OpenCalls)
  BY DEF Filling, Builds
<1>2. /\ around \in Seq(OpenCalls)
      /\ it \in OpenCalls
      /\ Range(around) \subseteq Range(c.open)
      /\ Values(c.open) = Values(around) \union {v}
      /\ ValuesDistinct(around)
      /\ v \notin Values(around)
  BY <1>1, ValuesFront
<1>3. CASE around = <<>>
  <2>1. d = Built(c.heap, v)
    BY <1>3 DEF Complete
  <2>2. Values(around) = {}
    BY <1>3 DEF Values, Range
  <2>3. Q = R \union {v}
    BY <1>2, <2>2
  <2>4. v \in Ids \ R
    BY <1>1, <1>2 DEF OpenCalls
  <2>5. <<>> \in Seq(OpenCalls)
    BY EmptySeq
  <2>6. c.heap \in Heaps
    BY <1>1 DEF Sound
  <2>. HIDE DEF v
  <2>7. d \in Builds /\ d.done = TRUE /\ d.id = v /\ d.heap = c.heap
    BY <2>1, <2>4, <2>5, <2>6 DEF Built, Builds
  <2>. QED
    BY <1>1, <2>3, <2>4, <2>7 DEF Filling
<1>4. CASE around # <<>>
  <2>. DEFINE to == Last(around).value
              h == c.heap
  <2>1. PICK add \in Add(h, to, it.name, v) :
          d = IF add.ok THEN Building(add.heap, around) ELSE GivenUp(c)
    BY <1>4 DEF Complete
  <2>2. /\ to \in Values(around) /\ Last(around) \in OpenCalls
    BY <1>2, <1>4, ValuesFront DEF Values
  <2>3. to \in Q /\ v \in Q /\ to # v
    BY <1>2, <2>2
  <2>4. to \notin Below(h)[{v}]
    <3>1. {v} \in SUBSET Ids /\ to \notin {v}
      BY <1>2, <2>3 DEF OpenCalls
    <3>. HIDE DEF to, v, Q
    <3>. QED
      BY <1>1, <2>3, <3>1, RootsApart
  <2>5. it.name \in MemberNames \union {NULL}
    BY <1>2 DEF OpenCalls
  <2>. DEFINE name == it.name
  <2>6. Adds(h, Q, L, to, name, v) /\ add \in Add(h, to, name, v)
    BY <1>1, <2>1, <2>3, <2>4, <2>5 DEF Adds, Sound
  <2>. HIDE DEF to, name, Q, v, around, it, h
  <2>7. \/ /\ add.ok = TRUE
           /\ Sound(add.heap, Q \ {v}, L \ {v})
           /\ Live(add.heap) = Live(h)
        \/ add.ok = FALSE
    <3>1. AddEnds(h, Q, L, to, name, v, add)
      BY <2>6, AddSound
    <3>. QED
      BY <3>1 DEF AddEnds
  <2>8. CASE add.ok = FALSE
    <3>1. d = GivenUp(c)
      BY <2>1, <2>8
    <3>. QED
      BY <3>1, GivenUpFills
  <2>9. CASE add.ok = TRUE
    <3>1. d = Building(add.heap, around)
      BY <2>1, <2>9
    <3>2. Q \ {v} = R \union Values(around) /\ L \ {v} = L
      BY <1>1, <1>2 DEF Q
    <3>3. Sound(add.heap, R \union Values(around), L) /\ Live(add.heap) = Live(h)
      BY <2>7, <2>9, <3>2
    <3>4. d \in Builds /\ d.done = FALSE /\ d.heap = add.heap /\ d.open = around
      BY <1>2, <3>1, <3>3 DEF Building, Builds, Sound
    <3>6. h = c.heap
      BY DEF h
    <3>5. Filling(d, R, L)
      BY <1>1, <1>2, <3>3, <3>4 DEF Filling
    <3>. QED
      BY <1>2, <1>4, <3>3, <3>4, <3>5, <3>6
  <2>. QED
    BY <2>7, <2>8, <2>9
<1>. QED
  BY <1>3, <1>4

-----------------------------------------------------------------------------
(* json_parse_string.                                                      *)

LEMMA ParseMarkFills ==
  ASSUME NEW c, NEW R, NEW L, Filling(c, R, L), NEW mark \in Marks, NEW d \in ParseMark(c, mark)
  PROVE  Filling(d, R, L)
<1>1. CASE c.done
  BY <1>1 DEF ParseMark
<1>2. CASE ~c.done /\ mark = Closes
  <2>1. d = GivenUp(c) \/ (c.open # <<>> /\ d \in Complete(c))
    BY <1>2 DEF ParseMark
  <2>. QED
    BY <1>2, <2>1, GivenUpFills, CompleteFills
<1>3. CASE ~c.done /\ mark # Closes
  <2>1. mark.kind \in Kinds /\ mark.name \in MemberNames \union {NULL}
    BY <1>3 DEF Marks
  <2>2. ParseMark(c, mark) =
          {GivenUp(c)} \union
          UNION {IF e.done \/ mark.kind \notin Scalars THEN {e} ELSE Complete(e) :
                 e \in Start(c, mark.kind, mark.name, NULL)}
    BY <1>3 DEF ParseMark
  <2>3. CASE d = GivenUp(c)
    BY <1>3, <2>3, GivenUpFills
  <2>4. CASE d # GivenUp(c)
    <3>1. PICK e \in Start(c, mark.kind, mark.name, NULL) :
            d \in IF e.done \/ mark.kind \notin Scalars THEN {e} ELSE Complete(e)
      BY <2>2, <2>4
    <3>. DEFINE kind == mark.kind
                name == mark.name
                from == NULL
    <3>2. /\ kind \in Kinds /\ name \in MemberNames \union {NULL} /\ from \in Ids \union {NULL}
          /\ e \in Start(c, kind, name, from)
      BY <2>1
    <3>. HIDE DEF kind, name, from
    <3>3. Filling(e, R, L) /\ (~e.done => e.open # <<>>)
      BY <1>3, <3>2, StartFills
    <3>. QED
      BY <3>1, <3>3, CompleteFills
  <2>. QED
    BY <2>3, <2>4
<1>. QED
  BY <1>1, <1>2, <1>3

\* All a text can come to.
LEMMA ParseMarksFill ==
  ASSUME NEW h, NEW R, NEW L, Sound(h, R, L), NEW t \in Seq(Marks), NEW c \in ParseMarks(h, t)
  PROVE  Filling(c, R, L)
<1>. DEFINE C == {b \in Builds : Filling(b, R, L)}
            M == Len(t)
            A == {Building(h, <<>>)}
            G == [n \in 1 .. M |-> [S \in SUBSET C |-> UNION {ParseMark(b, t[n]) : b \in S}]]
            After(f, n) == IF n = 0 THEN A ELSE UNION {ParseMark(b, t[n]) : b \in f[n - 1]}
            Steps(f) == f = [n \in 0 .. M |-> After(f, n)]
            g == CHOOSE f : Steps(f)
<1>1. M \in Nat /\ \A n \in 1 .. M : t[n] \in Marks
  BY LenProperties, ElementOfSeq
<1>2. A \in SUBSET C
  <2>. DEFINE b == Building(h, <<>>)
  <2>1. <<>> \in Seq(OpenCalls) /\ Values(<<>>) = {} /\ ValuesDistinct(<<>>)
    BY EmptySeq DEF Values, Range, ValuesDistinct
  <2>2. b \in Builds /\ b.done = FALSE /\ b.heap = h /\ b.open = <<>>
    BY <2>1 DEF Building, Builds, Sound
  <2>3. R \union {} = R /\ L \subseteq R
    BY DEF Sound
  <2>. HIDE DEF b
  <2>4. Filling(b, R, L)
    BY <2>1, <2>2, <2>3 DEF Filling
  <2>. QED
    BY <2>2, <2>4 DEF b
<1>3. \A n \in 1 .. M : \A S \in SUBSET C : UNION {ParseMark(b, t[n]) : b \in S} \in SUBSET C
  <2>. SUFFICES ASSUME NEW n \in 1 .. M, NEW b \in C, NEW d \in ParseMark(b, t[n])
                PROVE  d \in C
    OBVIOUS
  <2>1. t[n] \in Marks
    BY <1>1
  <2>. DEFINE mark == t[n]
  <2>2. mark \in Marks /\ d \in ParseMark(b, mark)
    BY <2>1
  <2>. HIDE DEF mark
  <2>3. Filling(d, R, L)
    BY <2>2, ParseMarkFills
  <2>. QED
    BY <2>3 DEF Filling
<1>. HIDE DEF C, M, A
<1>4. G \in [1 .. M -> [SUBSET C -> SUBSET C]]
  BY <1>3
<1>5. \E f : Steps(f)
  <2>. HIDE DEF G
  <2>1. Loop(M, C, A, G)
    BY <1>1, <1>2, <1>4 DEF Loop
  <2>2. PICK f \in [0 .. M -> SUBSET C] : /\ f[0] = A
                                         /\ \A n \in 1 .. M : f[n] = G[n][f[n - 1]]
    <3>1. Looped(M, C, A, G)
      BY <2>1, LoopExists
    <3>. QED
      BY <3>1 DEF Looped
  <2>3. ASSUME NEW n \in 0 .. M
        PROVE  f[n] = After(f, n)
    <3>1. CASE n = 0
      BY <2>2, <3>1
    <3>2. CASE n # 0
      <4>1. n \in 1 .. M /\ n - 1 \in 0 .. M
        BY <1>1, <3>2
      <4>2. f[n - 1] \in SUBSET C
        BY <4>1
      <4>3. G[n][f[n - 1]] = UNION {ParseMark(b, t[n]) : b \in f[n - 1]}
        BY <4>1, <4>2 DEF G
      <4>. QED
        BY <2>2, <3>2, <4>1, <4>3
    <3>. QED
      BY <3>1, <3>2
  <2>4. Steps(f)
    <3>. HIDE DEF After
    <3>. QED
      BY <2>3
  <2>. HIDE DEF Steps
  <2>. QED
    BY <2>4
<1>6. \A n \in 0 .. M : g[n] = After(g, n)
  <2>1. Steps(g)
    <3>. HIDE DEF Steps
    <3>. QED
      BY <1>5
  <2>. HIDE DEF After, g
  <2>. QED
    BY <2>1
<1>7. c \in g[M]
  BY DEF ParseMarks, M, A
<1>. HIDE DEF g
<1>8. \A n \in 0 .. M : g[n] \in SUBSET C
  <2>. DEFINE D == {n \in 0 .. M : g[n] \in SUBSET C}
  <2>1. 0 \in D
    <3>1. 0 \in 0 .. M
      BY <1>1
    <3>2. g[0] = After(g, 0)
      BY <1>6, <3>1
    <3>. QED
      BY <1>2, <3>1, <3>2
  <2>2. ASSUME NEW n \in 1 .. M, n - 1 \in D
        PROVE  n \in D
    <3>1. n \in 0 .. M /\ n # 0
      OBVIOUS
    <3>2. g[n] = UNION {ParseMark(b, t[n]) : b \in g[n - 1]}
      BY <1>6, <3>1
    <3>. QED
      BY <1>3, <2>2, <3>2
  <2>. HIDE DEF D
  <2>3. \A n \in 0 .. M : n \in D
    BY <1>1, <2>1, <2>2, Forward
  <2>. QED
    BY <2>3 DEF D
<1>. QED
  BY <1>1, <1>7, <1>8 DEF C

\* The caller of a function that builds a value gets it, or NULL.
LEMMA ParseTextSound ==
  ASSUME NEW h, NEW R, NEW L, Sound(h, R, L), NEW t \in Texts, NEW c \in ParseText(h, t)
  PROVE  Sound(c.heap, R \union ({c.id} \ {NULL}), L)
<1>1. PICK b \in ParseMarks(h, t) : c = IF b.done THEN b ELSE GivenUp(b)
  BY DEF ParseText
<1>2. Filling(b, R, L)
  BY ParseMarksFill, TreeAssumption
<1>3. Filling(c, R, L) /\ c.done
  BY <1>1, <1>2, GivenUpFills
<1>. QED
  BY <1>3, TreeAssumption DEF Filling

-----------------------------------------------------------------------------
(* json_value_deep_copy.                                                   *)

\* What is copied is there.
Copying(c, R, L) ==
  /\ Filling(c, R, L)
  /\ ~c.done => c.open # <<>> /\ \A f \in Range(c.open) : f.from \in Live(c.heap)

\* The member whose turn it is: w has as many of u's as have been copied.
LEMMA MemberLeft ==
  ASSUME NEW h, NEW Q, NEW L, Sound(h, Q, L), NEW u \in Live(h), NEW w \in Ids,
         NEW n, n = Len(h.items[w]) + 1, ~(n > Len(h.items[u])), NEW item, item = h.items[u][n]
  PROVE  /\ item.value \in Live(h) /\ item.value \in Ids
         /\ item.name \in MemberNames \union {NULL}
         /\ h.kind[item.value] \in Kinds
<1>1. h \in Heaps /\ u \in Ids /\ MembersHeld(h, Q)
  BY LiveTyped DEF Sound
<1>2. /\ DOMAIN h.items[u] = 1 .. Len(h.items[u]) /\ Len(h.items[u]) \in Nat
      /\ \A k \in DOMAIN h.items[u] : /\ h.items[u][k].value \in Members(h, u)
                                     /\ h.items[u][k].value \in Ids
                                     /\ h.items[u][k].name \in MemberNames \union {NULL}
  BY <1>1, MembersTyped
<1>3. Len(h.items[w]) \in Nat
  BY <1>1, MembersTyped
<1>4. n \in DOMAIN h.items[u]
  <2>. DEFINE M == Len(h.items[u])
              W == Len(h.items[w])
  <2>1. M \in Nat /\ W \in Nat /\ n = W + 1 /\ ~(n > M) /\ DOMAIN h.items[u] = 1 .. M
    BY <1>2, <1>3
  <2>. HIDE DEF M, W
  <2>. QED
    BY ONLY <2>1
<1>5. item.value \in Members(h, u) /\ item.value \in Ids /\ item.name \in MemberNames \union {NULL}
  BY <1>2, <1>4
<1>6. item.value \in Live(h)
  BY <1>1, <1>5 DEF MembersHeld
<1>7. h.kind[item.value] \in Kinds
  <2>. DEFINE v == item.value
  <2>1. h \in Heaps /\ v \in Live(h)
    BY <1>1, <1>6
  <2>. HIDE DEF v
  <2>2. h.kind[v] \in Kinds
    BY <2>1 DEF Live, Heaps
  <2>. QED
    BY <2>2 DEF v
<1>. QED
  BY <1>5, <1>6, <1>7

LEMMA CopyStepCopies ==
  ASSUME NEW c, NEW R, NEW L, Copying(c, R, L), NEW d \in CopyStep(c)
  PROVE  Copying(d, R, L)
<1>. DEFINE h == c.heap
            top == Last(c.open)
            u == top.from
            w == top.value
            n == Len(h.items[w]) + 1
            item == h.items[u][n]
            kind == h.kind[item.value]
            Q == R \union Values(c.open)
<1>1. CASE c.done
  BY <1>1 DEF CopyStep
<1>2. CASE ~c.done
  <2>1. /\ Filling(c, R, L) /\ c.open # <<>> /\ c.open \in Seq(OpenCalls)
        /\ \A f \in Range(c.open) : f.from \in Live(h)
        /\ Sound(h, Q, L)
    BY <1>2 DEF Copying, Filling, Builds
  <2>2. Last(c.open) \in Range(c.open) /\ Last(c.open) \in OpenCalls
    BY ONLY <2>1, ValuesFront
  <2>3. u \in Live(h) /\ w \in Ids
    <3>1. top.from \in Live(h)
      BY ONLY <2>1, <2>2
    <3>2. top.value \in Ids
      BY ONLY <2>2 DEF OpenCalls
    <3>. QED
      BY ONLY <3>1, <3>2
  <2>4. CopyStep(c) = IF n > Len(h.items[u]) THEN Complete(c) ELSE Start(c, kind, item.name, item.value)
    BY ONLY <1>2, Zenon DEF CopyStep
  <2>. HIDE DEF u, w, Q, top, n, item, kind
  <2>5. CASE n > Len(h.items[u])
    <3>1. /\ Filling(d, R, L)
          /\ ~d.done => /\ d.open # <<>>
                        /\ Range(d.open) \subseteq Range(c.open)
                        /\ Live(h) \subseteq Live(d.heap)
      BY <1>2, <2>1, <2>4, <2>5, CompleteFills
    <3>. QED
      BY <2>1, <3>1 DEF Copying
  <2>6. CASE ~(n > Len(h.items[u]))
    <3>. DEFINE from == item.value
                name == item.name
    <3>. HIDE DEF h, n, item
    <3>1. /\ from \in Live(h) /\ from \in Ids /\ name \in MemberNames \union {NULL}
          /\ kind \in Kinds
      <4>1. n = Len(h.items[w]) + 1 /\ item = h.items[u][n]
        BY DEF n, item
      <4>2. Sound(h, Q, L)
        BY <2>1
      <4>. QED
        BY ONLY <2>3, <2>6, <4>1, <4>2, MemberLeft DEF kind
    <3>2. d \in Start(c, kind, name, from)
      BY <2>4, <2>6
    <3>. HIDE DEF name, from
    <3>3. /\ Filling(d, R, L)
          /\ ~d.done => /\ d.open # <<>>
                        /\ \E f \in OpenCalls : f.from = from /\ Range(d.open) = Range(c.open) \union {f}
                        /\ Live(h) \subseteq Live(d.heap)
      BY <1>2, <2>1, <3>1, <3>2, StartFills DEF h
    <3>. QED
      BY <2>1, <3>1, <3>3 DEF Copying
  <2>. QED
    BY <2>5, <2>6
<1>. QED
  BY <1>1, <1>2

LEMMA CopyStepsCopy ==
  ASSUME NEW h, NEW R, NEW L, Sound(h, R, L), NEW v \in Live(h), NEW M \in Nat,
         NEW c \in CopySteps(h, v, M)
  PROVE  Copying(c, R, L)
<1>. DEFINE C == {b \in Builds : Copying(b, R, L)}
            A == Start(Building(h, <<>>), h.kind[v], NULL, v)
            G == [n \in 1 .. M |-> [S \in SUBSET C |-> UNION {CopyStep(b) : b \in S}]]
            After(f, n) == IF n = 0 THEN A ELSE UNION {CopyStep(b) : b \in f[n - 1]}
            Steps(f) == f = [n \in 0 .. M |-> After(f, n)]
            g == CHOOSE f : Steps(f)
<1>1. h \in Heaps /\ v \in Ids /\ h.kind[v] \in Kinds
  BY DEF Sound, Live, Heaps
<1>2. A \in SUBSET C
  <2>. DEFINE b == Building(h, <<>>)
              kind == h.kind[v]
              name == NULL
  <2>1. <<>> \in Seq(OpenCalls) /\ Values(<<>>) = {} /\ ValuesDistinct(<<>>) /\ Range(<<>>) = {}
    BY EmptySeq DEF Values, Range, ValuesDistinct
  <2>2. b \in Builds /\ b.done = FALSE /\ b.heap = h /\ b.open = <<>>
    BY <2>1 DEF Building, Builds, Sound
  <2>3. R \union {} = R /\ L \subseteq R
    BY DEF Sound
  <2>4. A = Start(b, kind, name, v)
    OBVIOUS
  <2>5. kind \in Kinds /\ name \in MemberNames \union {NULL} /\ v \in Ids \union {NULL}
    BY <1>1
  <2>. HIDE DEF b, kind, name
  <2>6. Filling(b, R, L)
    BY <2>1, <2>2, <2>3 DEF Filling
  <2>. SUFFICES ASSUME NEW d \in Start(b, kind, name, v)
                PROVE  d \in C
    BY <2>4
  <2>7. /\ Filling(d, R, L)
        /\ ~d.done => /\ d.open # <<>>
                      /\ \E f \in OpenCalls : f.from = v /\ Range(d.open) = Range(b.open) \union {f}
                      /\ Live(b.heap) \subseteq Live(d.heap)
    BY <2>2, <2>5, <2>6, StartFills
  <2>8. Copying(d, R, L)
    BY <2>1, <2>2, <2>7 DEF Copying
  <2>. QED
    BY <2>8 DEF Copying, Filling
<1>3. \A n \in 1 .. M : \A S \in SUBSET C : UNION {CopyStep(b) : b \in S} \in SUBSET C
  <2>. SUFFICES ASSUME NEW b \in C, NEW d \in CopyStep(b)
                PROVE  d \in C
    OBVIOUS
  <2>1. Copying(d, R, L)
    BY CopyStepCopies
  <2>. QED
    BY <2>1 DEF Copying, Filling
<1>. HIDE DEF C, A
<1>4. G \in [1 .. M -> [SUBSET C -> SUBSET C]]
  BY <1>3
<1>5. \E f : Steps(f)
  <2>. HIDE DEF G
  <2>1. Loop(M, C, A, G)
    BY <1>2, <1>4 DEF Loop
  <2>2. PICK f \in [0 .. M -> SUBSET C] : /\ f[0] = A
                                         /\ \A n \in 1 .. M : f[n] = G[n][f[n - 1]]
    <3>1. Looped(M, C, A, G)
      BY <2>1, LoopExists
    <3>. QED
      BY <3>1 DEF Looped
  <2>3. ASSUME NEW n \in 0 .. M
        PROVE  f[n] = After(f, n)
    <3>1. CASE n = 0
      BY <2>2, <3>1
    <3>2. CASE n # 0
      <4>1. n \in 1 .. M /\ n - 1 \in 0 .. M
        BY <3>2
      <4>2. f[n - 1] \in SUBSET C
        BY <4>1
      <4>3. G[n][f[n - 1]] = UNION {CopyStep(b) : b \in f[n - 1]}
        BY <4>1, <4>2 DEF G
      <4>. QED
        BY <2>2, <3>2, <4>1, <4>3
    <3>. QED
      BY <3>1, <3>2
  <2>4. Steps(f)
    <3>. HIDE DEF After
    <3>. QED
      BY <2>3
  <2>. HIDE DEF Steps
  <2>. QED
    BY <2>4
<1>6. \A n \in 0 .. M : g[n] = After(g, n)
  <2>1. Steps(g)
    <3>. HIDE DEF Steps
    <3>. QED
      BY <1>5
  <2>. HIDE DEF After, g
  <2>. QED
    BY <2>1
<1>7. c \in g[M]
  BY DEF CopySteps, A
<1>. HIDE DEF g
<1>8. \A n \in 0 .. M : g[n] \in SUBSET C
  <2>. DEFINE D == {n \in 0 .. M : g[n] \in SUBSET C}
  <2>1. 0 \in D
    <3>1. 0 \in 0 .. M
      OBVIOUS
    <3>2. g[0] = After(g, 0)
      BY <1>6, <3>1
    <3>. QED
      BY <1>2, <3>1, <3>2
  <2>2. ASSUME NEW n \in 1 .. M, n - 1 \in D
        PROVE  n \in D
    <3>1. n \in 0 .. M /\ n # 0
      OBVIOUS
    <3>2. g[n] = UNION {CopyStep(b) : b \in g[n - 1]}
      BY <1>6, <3>1
    <3>. QED
      BY <1>3, <2>2, <3>2
  <2>. HIDE DEF D
  <2>3. \A n \in 0 .. M : n \in D
    BY <2>1, <2>2, Forward
  <2>. QED
    BY <2>3 DEF D
<1>. QED
  BY <1>7, <1>8 DEF C

LEMMA DeepCopySound ==
  ASSUME NEW h, NEW R, NEW L, Sound(h, R, L), NEW v \in Live(h), NEW c \in DeepCopy(h, v)
  PROVE  Sound(c.heap, R \union ({c.id} \ {NULL}), L)
<1>. DEFINE M == 2 * Cardinality(Tree(h, v))
<1>1. M \in Nat
  <2>1. Tree(h, v) \subseteq Ids
    BY BelowLeast, LiveTyped DEF Tree, Sound
  <2>2. IsFiniteSet(Tree(h, v))
    BY <2>1, FS_Subset, TreeAssumption
  <2>. QED
    BY <2>2, FS_CardinalityType
<1>2. c \in CopySteps(h, v, M) /\ c.done
  BY DEF DeepCopy
<1>. HIDE DEF M
<1>3. Copying(c, R, L)
  BY <1>1, <1>2, CopyStepsCopy
<1>. QED
  BY <1>2, <1>3, TreeAssumption DEF Copying, Filling

-----------------------------------------------------------------------------
(* json_object_dotset_value.                                               *)

LEMMA RangeAppend ==
  ASSUME NEW S, NEW s \in Seq(S), NEW v \in S
  PROVE  /\ Append(s, v) \in Seq(S)
         /\ Append(s, v) # <<>>
         /\ Len(Append(s, v)) = Len(s) + 1
         /\ Range(Append(s, v)) = Range(s) \union {v}
<1>. DEFINE t == Append(s, v)
            M == Len(s)
<1>1. /\ t \in Seq(S) /\ t # <<>> /\ Len(t) = M + 1
      /\ \A i \in 1 .. M : t[i] = s[i]
      /\ t[M + 1] = v
  BY AppendProperties
<1>2. M \in Nat /\ DOMAIN s = 1 .. M
  BY LenProperties
<1>. HIDE DEF t, M
<1>3. DOMAIN t = 1 .. M + 1
  BY <1>1, LenProperties
<1>4. Range(t) \subseteq Range(s) \union {v}
  BY <1>1, <1>2, <1>3 DEF Range
<1>5. Range(s) \subseteq Range(t)
  BY <1>1, <1>2, <1>3 DEF Range
<1>6. v \in Range(t)
  BY <1>1, <1>2, <1>3 DEF Range
<1>7. Range(t) = Range(s) \union {v}
  BY <1>4, <1>5, <1>6
<1>. QED
  BY <1>1, <1>7 DEF t, M

\* All values in a sequence are different.
AllDifferent(s) == \A j, k \in DOMAIN s : s[j] = s[k] => j = k

LEMMA AppendDifferent ==
  ASSUME NEW S, NEW s \in Seq(S), NEW v \in S, AllDifferent(s), v \notin Range(s)
  PROVE  AllDifferent(Append(s, v))
<1>. DEFINE t == Append(s, v)
            M == Len(s)
<1>1. /\ t \in Seq(S) /\ Len(t) = M + 1
      /\ \A i \in 1 .. M : t[i] = s[i]
      /\ t[M + 1] = v
  BY AppendProperties
<1>2. M \in Nat /\ DOMAIN s = 1 .. M
  BY LenProperties
<1>. HIDE DEF t, M
<1>3. DOMAIN t = 1 .. M + 1
  BY <1>1, LenProperties
<1>4. \A i \in 1 .. M : s[i] # v
  BY <1>2 DEF Range
<1>. SUFFICES ASSUME NEW j \in 1 .. M + 1, NEW k \in 1 .. M + 1, t[j] = t[k]
              PROVE  j = k
  BY <1>3 DEF AllDifferent, t
<1>5. CASE j # M + 1 /\ k # M + 1
  BY <1>1, <1>2, <1>5 DEF AllDifferent
<1>6. CASE j = M + 1 \/ k = M + 1
  BY <1>1, <1>2, <1>4, <1>6
<1>. QED
  BY <1>5, <1>6

LEMMA RangeFront ==
  ASSUME NEW S, NEW s \in Seq(S), s # <<>>
  PROVE  /\ Front(s) \in Seq(S)
         /\ Len(s) \in Nat \ {0}
         /\ Len(Front(s)) = Len(s) - 1
         /\ Last(s) \in S
         /\ Range(s) = Range(Front(s)) \union {Last(s)}
         /\ AllDifferent(s) => AllDifferent(Front(s)) /\ Last(s) \notin Range(Front(s))
<1>. DEFINE t == Front(s)
            M == Len(s)
            z == Last(s)
<1>1. /\ M \in Nat \ {0} /\ DOMAIN s = 1 .. M
      /\ t \in Seq(S) /\ DOMAIN t = 1 .. M - 1 /\ Len(t) = M - 1
      /\ \A k \in 1 .. M - 1 : t[k] = s[k]
      /\ z = s[M] /\ z \in S
  BY FrontAndLast
<1>. HIDE DEF t, M, z
<1>2. Range(s) \subseteq Range(t) \union {z}
  BY <1>1 DEF Range
<1>3. Range(t) \subseteq Range(s)
  BY <1>1 DEF Range
<1>4. z \in Range(s)
  BY <1>1 DEF Range
<1>5. ASSUME AllDifferent(s)
      PROVE  AllDifferent(t) /\ z \notin Range(t)
  <2>1. AllDifferent(t)
    BY <1>1, <1>5 DEF AllDifferent
  <2>2. \A i \in 1 .. M - 1 : t[i] # z
    BY <1>1, <1>5 DEF AllDifferent
  <2>3. z \notin Range(t)
    BY <1>1, <2>2 DEF Range
  <2>. QED
    BY <2>1, <2>3
<1>6. Range(s) = Range(t) \union {z}
  BY <1>2, <1>3, <1>4
<1>. QED
  BY <1>1, <1>5, <1>6 DEF t, M, z

\* A member of a path is a name.
LEMMA PathNames ==
  ASSUME NEW path \in Paths
  PROVE  /\ Len(path) \in Nat \ {0}
         /\ Last(path) = path[Len(path)]
         /\ \A n \in 1 .. Len(path) : path[n] \in MemberNames
<1>1. path \in Seq(MemberNames) /\ path # <<>>
  BY TreeAssumption
<1>. QED
  BY <1>1, EmptySeq, ElementOfSeq DEF Last

\* Nothing is below no values.
LEMMA BelowNothing ==
  ASSUME NEW h \in Heaps
  PROVE  Below(h)[{}] = {}
<1>1. {} \in SUBSET Ids /\ Closed(h, {})
  BY DEF Closed
<1>. QED
  BY <1>1, BelowLeast

\* More is below more.
LEMMA BelowGrows ==
  ASSUME NEW h \in Heaps, NEW X \in SUBSET Ids, NEW Y \in SUBSET X
  PROVE  Below(h)[Y] \subseteq Below(h)[X]
<1>1. /\ X \subseteq Below(h)[X] /\ Below(h)[X] \in SUBSET Ids /\ Closed(h, Below(h)[X])
      /\ Y \in SUBSET Ids
  BY BelowLeast
<1>. QED
  BY <1>1, BelowLeast

\* Roots are freed.
LEMMA FreeRootsSound ==
  ASSUME NEW h, NEW Q, NEW P, Sound(h, Q, P), NEW X \in SUBSET Q, NEW R, R = Q \ X,
         NEW L, L = P \ X
  PROVE  Sound(FreeValues(h, X), R, L)
<1>. DEFINE g == FreeValues(h, X)
<1>1. h \in Heaps /\ X \in SUBSET Ids
  BY LiveTyped DEF Sound
<1>2. Freed(h, g, X)
  BY <1>1, FreeValuesFrees
<1>. HIDE DEF g
<1>3. Sound(g, Q \ X, P \ X)
  BY <1>2, FreedSound
<1>. QED
  BY <1>3 DEF g

\* What has been added to an object without members is found.
LEMMA AddedFound ==
  ASSUME NEW h \in Heaps, NEW g, NEW o \in Ids, NEW name, NEW v, Added(h, g, o, name, v),
         h.items[o] = <<>>
  PROVE  GetMember(g, o, name) = v
<1>1. Len(h.items[o]) = 0
  BY EmptySeq
<1>2. PICK s \in Items : /\ Storing(h, g, o, s, Len(h.items[o]) + 1, v)
                         /\ DOMAIN s = 1 .. Len(h.items[o]) + 1
                         /\ s[Len(h.items[o]) + 1] = [name |-> name, value |-> v]
  BY DEF Added
<1>3. DOMAIN s = {1} /\ s[1] = [name |-> name, value |-> v] /\ g.items[o] = s /\ g \in Heaps
  BY <1>1, <1>2 DEF Storing
<1>4. s[1].name = name /\ s[1].value = v
  BY <1>3
<1>5. SlotOf(g, o, name) # 0 /\ SlotOf(g, o, name) \in DOMAIN g.items[o]
  BY <1>3, <1>4, SlotFound
<1>6. SlotOf(g, o, name) = 1
  BY <1>3, <1>5
<1>. QED
  BY <1>3, <1>4, <1>6 DEF GetMember

\* The objects on the path from o, the last of which has v.
Leads(h, o, path, n, v) ==
  \E w \in Walks(h, o, path, n) : GetMember(h, w[Len(path)], Last(path)) = v

LEMMA LeadsLast ==
  ASSUME NEW h, NEW o \in Ids, NEW path \in Paths, NEW v,
         GetMember(h, o, path[Len(path)]) = v
  PROVE  Leads(h, o, path, Len(path), v)
<1>. DEFINE M == Len(path)
            w == [k \in M .. M |-> o]
<1>1. M \in Nat /\ Last(path) = path[M]
  BY PathNames
<1>. HIDE DEF M
<1>2. w \in [M .. M -> Ids] /\ w[M] = o /\ M .. M - 1 = {}
  BY <1>1
<1>. HIDE DEF w
<1>3. w \in Walks(h, o, path, M)
  BY <1>2 DEF Walks, M
<1>. QED
  BY <1>1, <1>2, <1>3 DEF Leads, M

\* There is one way along the path.
LEMMA OneWalk ==
  ASSUME NEW h, NEW o \in Ids, NEW path \in Paths, NEW n \in 1 .. Len(path),
         NEW w \in Walks(h, o, path, n), NEW u \in Walks(h, o, path, n)
  PROVE  w[Len(path)] = u[Len(path)]
<1>. DEFINE M == Len(path)
            D == {i \in 0 .. M - n : w[n + i] = u[n + i]}
<1>1. M \in Nat /\ n \in 1 .. M
  BY PathNames
<1>2. /\ w[n] = o /\ u[n] = o
      /\ \A k \in n .. M - 1 : w[k + 1] = GetMember(h, w[k], path[k])
      /\ \A k \in n .. M - 1 : u[k + 1] = GetMember(h, u[k], path[k])
  BY DEF Walks
<1>. HIDE DEF M
<1>3. 0 \in D
  BY <1>1, <1>2
<1>4. ASSUME NEW i \in 1 .. M - n, i - 1 \in D
      PROVE  i \in D
  <2>. DEFINE k == n + (i - 1)
  <2>1. k \in n .. M - 1 /\ n + i = k + 1 /\ i \in 0 .. M - n
    BY <1>1
  <2>2. w[k] = u[k]
    BY <1>4
  <2>. HIDE DEF k
  <2>3. w[k + 1] = u[k + 1]
    BY <1>2, <2>1, <2>2
  <2>. QED
    BY <2>1, <2>3
<1>5. M - n \in Nat
  BY <1>1
<1>6. M - n \in D
  <2>. DEFINE N == M - n
  <2>1. N \in Nat /\ 0 \in D /\ \A i \in 1 .. N : i - 1 \in D => i \in D
    BY <1>3, <1>4, <1>5
  <2>. HIDE DEF D, N
  <2>2. \A i \in 0 .. N : i \in D
    BY <2>1, Forward
  <2>3. N \in D
    BY <2>1, <2>2
  <2>. QED
    BY <2>3 DEF N
<1>7. n + (M - n) = M
  BY <1>1
<1>8. w[M] = u[M]
  BY <1>6, <1>7
<1>. QED
  BY <1>8 DEF M

\* What is found is a matter of the items.
MemberIn(its, name) ==
  LET n == IF \E n \in DOMAIN its : its[n].name = name
           THEN CHOOSE n \in DOMAIN its : its[n].name = name ELSE 0
  IN  IF n = 0 THEN NULL ELSE its[n].value

LEMMA MemberOfItems == \A h, u, name : GetMember(h, u, name) = MemberIn(h.items[u], name)
  BY DEF GetMember, SlotOf, MemberIn

\* The way goes on from an object that gets the first one of it.
LEMMA LeadsOn ==
  ASSUME NEW h \in Heaps, NEW g, NEW to \in Ids, NEW o \in Ids, NEW path \in Paths,
         NEW n \in 2 .. Len(path), NEW v \in Ids,
         h.items[to] = <<>>, h.kind[o] = "object",
         Added(h, g, to, path[n - 1], o), Leads(h, o, path, n, v)
  PROVE  Leads(g, to, path, n - 1, v)
<1>. DEFINE M == Len(path)
<1>1. M \in Nat /\ n \in 2 .. M
  BY PathNames
<1>2. PICK w \in Walks(h, o, path, n) : GetMember(h, w[M], Last(path)) = v
  BY DEF Leads
<1>3. /\ w \in [n .. M -> Ids] /\ w[n] = o
      /\ \A k \in n .. M - 1 :
           w[k + 1] = GetMember(h, w[k], path[k]) /\ h.kind[w[k + 1]] = "object"
  BY DEF Walks
<1>4. /\ g.kind = h.kind
      /\ \A u \in Ids \ {to} : g.items[u] = h.items[u]
  BY DEF Added, Storing
<1>5. GetMember(g, to, path[n - 1]) = o
  BY AddedFound
<1>. HIDE DEF M
<1>6. ASSUME NEW name
      PROVE  GetMember(h, to, name) = NULL
  BY DEF GetMember, SlotOf
<1>7. \A u \in Ids \ {to} : \A name : GetMember(g, u, name) = GetMember(h, u, name)
  BY <1>4, MemberOfItems
<1>8. \A k \in n .. M - 1 : w[k] \in Ids \ {to}
  <2>. SUFFICES ASSUME NEW k \in n .. M - 1
                PROVE  w[k] \in Ids /\ w[k] # to
    OBVIOUS
  <2>1. k \in n .. M /\ k + 1 \in n .. M
    BY <1>1
  <2>2. w[k] \in Ids /\ w[k + 1] \in Ids
    BY <1>3, <2>1
  <2>3. GetMember(h, w[k], path[k]) # NULL
    BY <1>3, <2>2, TreeAssumption
  <2>. QED
    BY <1>6, <2>2, <2>3
<1>9. w[M] \in Ids \ {to}
  <2>1. M \in n .. M
    BY <1>1
  <2>2. w[M] \in Ids
    BY <1>3, <2>1
  <2>. QED
    BY <1>2, <1>6, <2>2, TreeAssumption
<1>. DEFINE x == [k \in n - 1 .. M |-> IF k = n - 1 THEN to ELSE w[k]]
<1>10. x \in [n - 1 .. M -> Ids] /\ x[n - 1] = to /\ x[M] = w[M]
  BY <1>1, <1>3
<1>11. ASSUME NEW k \in n - 1 .. M - 1
       PROVE  x[k + 1] = GetMember(g, x[k], path[k]) /\ g.kind[x[k + 1]] = "object"
  <2>1. CASE k = n - 1
    <3>1. x[k + 1] = o /\ x[k] = to
      BY <1>1, <1>3, <2>1
    <3>. HIDE DEF x
    <3>. QED
      BY <1>4, <1>5, <2>1, <3>1
  <2>2. CASE k # n - 1
    <3>1. k \in n .. M - 1 /\ x[k] = w[k] /\ x[k + 1] = w[k + 1]
      BY <1>1, <2>2
    <3>. HIDE DEF x
    <3>2. w[k + 1] = GetMember(h, w[k], path[k]) /\ h.kind[w[k + 1]] = "object"
      BY <1>3, <3>1
    <3>3. GetMember(g, w[k], path[k]) = GetMember(h, w[k], path[k])
      BY <1>7, <1>8, <3>1
    <3>. QED
      BY <1>4, <3>1, <3>2, <3>3
  <2>. QED
    BY <2>1, <2>2
<1>. HIDE DEF x
<1>12. x \in Walks(g, to, path, n - 1)
  BY <1>10, <1>11 DEF Walks, M
<1>13. GetMember(g, x[M], Last(path)) = v
  BY <1>2, <1>7, <1>9, <1>10
<1>. QED
  BY <1>12, <1>13 DEF Leads, M

\* json_object_dotremove_internal takes out what the path leads to.
LEMMA LeadsRemoves ==
  ASSUME NEW h, NEW Q, NEW P, Sound(h, Q, P), NEW o \in Ids, NEW path \in Paths,
         NEW n \in 1 .. Len(path), NEW v \in Ids, Leads(h, o, path, n, v)
  PROVE  Sound(DotRemove(h, o, path, n, FALSE).heap, Q \union {v}, P \union {v})
<1>. DEFINE M == Len(path)
            w == CHOOSE w \in Walks(h, o, path, n) : TRUE
<1>1. M \in Nat /\ n \in 1 .. M
  BY PathNames
<1>2. PICK u \in Walks(h, o, path, n) : GetMember(h, u[M], Last(path)) = v
  BY DEF Leads
<1>3. w \in Walks(h, o, path, n)
  BY <1>2
<1>4. DotRemove(h, o, path, n, FALSE) = RemoveMember(h, w[M], Last(path), FALSE)
  BY <1>2 DEF DotRemove
<1>. HIDE DEF w
<1>5. w[M] = u[M]
  BY <1>2, <1>3, OneWalk
<1>6. w[M] \in Ids
  BY <1>1, <1>3 DEF Walks
<1>. DEFINE z == w[M]
            name == Last(path)
<1>7. z \in Ids /\ GetMember(h, z, name) = v /\ v # NULL
  BY <1>2, <1>5, <1>6, TreeAssumption
<1>. HIDE DEF z, name
<1>8. Sound(RemoveMember(h, z, name, FALSE).heap, Q \union {v}, P \union {v})
  BY <1>7, RemoveKeepsSound
<1>. QED
  BY <1>4, <1>8 DEF z, name

\* One of the calls is under way: R and L are the caller's before.
DotCalls == [heap : Heaps, at : Ids, made : Seq(Ids), n : Nat,
             stored : BOOLEAN, done : BOOLEAN, ok : BOOLEAN]

\* On the way in: what has been made are empty objects that nobody holds yet.
Inward(c, R, L, path, v) ==
  /\ c.n \in 1 .. Len(path) /\ Len(c.made) < c.n
  /\ Sound(c.heap, R \union Range(c.made), L)
  /\ c.at \in Live(c.heap)
  /\ c.at \notin Below(c.heap)[Range(c.made)]
  /\ v \in R => c.at \notin Below(c.heap)[{v}]
  /\ v \in Live(c.heap) \ Range(c.made)
  /\ \A m \in Range(c.made) : c.heap.items[m] = <<>> /\ c.heap.kind[m] = "object"

\* On the way out: the path leads from the innermost of them to the value.
Outward(c, R, L, path, v) ==
  /\ v \in R \ L /\ v \notin Range(c.made)
  /\ Sound(c.heap, (R \ {v}) \union Range(c.made), L)
  /\ c.made # <<>> =>
       /\ c.n \in 1 .. Len(path) /\ Len(c.made) < c.n
       /\ c.at \in Live(c.heap)
       /\ c.at \notin Below(c.heap)[Range(c.made)]
       /\ \A m \in Range(c.made) \ {Last(c.made)} : c.heap.items[m] = <<>>
       /\ \A m \in Range(c.made) : c.heap.kind[m] = "object"
       /\ Leads(c.heap, Last(c.made), path, c.n, v)

DotInv(c, R, L, path, v) ==
  /\ c \in DotCalls /\ L \subseteq R
  /\ ~c.done => ~c.ok /\ AllDifferent(c.made) /\ Range(c.made) \intersect R = {}
  /\ ~c.done /\ ~c.stored => Inward(c, R, L, path, v)
  /\ ~c.done /\ c.stored => Outward(c, R, L, path, v)
  /\ c.done => PassedSound(R, L, v, c)

\* What is said of a call that has not returned.
LEMMA UnderWay ==
  ASSUME NEW c, NEW R, NEW L, NEW path, NEW v, DotInv(c, R, L, path, v), ~c.done
  PROVE  /\ c \in DotCalls /\ L \subseteq R
         /\ AllDifferent(c.made) /\ Range(c.made) \intersect R = {}
         /\ c.done = FALSE /\ c.ok = FALSE
         /\ ~c.stored => c.stored = FALSE /\ Inward(c, R, L, path, v)
         /\ c.stored => c.stored = TRUE /\ Outward(c, R, L, path, v)
<1>1. c \in DotCalls
  BY DEF DotInv
<1>2. c.done \in BOOLEAN /\ c.ok \in BOOLEAN /\ c.stored \in BOOLEAN
  BY <1>1 DEF DotCalls
<1>. QED
  BY <1>1, <1>2 DEF DotInv

\* The innermost object is the last that was made.
LEMMA LastMade ==
  ASSUME NEW s \in Seq(Ids), s # <<>>
  PROVE  Last(s) \in Range(s)
<1>1. Range(s) = Range(Front(s)) \union {Last(s)}
  BY RangeFront
<1>. QED
  BY <1>1

\* What holds of the calls when they have failed.
LEMMA DotFailsInv ==
  ASSUME NEW c, NEW R, NEW L, NEW path, NEW v, c \in DotCalls, L \subseteq R, c.ok = FALSE,
         Range(c.made) \intersect R = {},
         NEW h, \/ Sound(h, R \union Range(c.made), L)
                \/ /\ v \in R /\ Sound(h, R \union Range(c.made), L \union {v})
  PROVE  DotInv(DotFails(c, h), R, L, path, v)
<1>. DEFINE X == Range(c.made)
            Q == R \union X
            g == FreeValues(h, X)
            d == DotFails(c, h)
<1>1. \/ Sound(g, R, L)
      \/ v \in R /\ Sound(g, R, L \union {v})
  <2>1. X \in SUBSET Q /\ R = Q \ X /\ L = L \ X
    OBVIOUS
  <2>2. CASE Sound(h, Q, L)
    <3>. HIDE DEF X, Q
    <3>. QED
      BY <2>1, <2>2, FreeRootsSound
  <2>3. CASE v \in R /\ Sound(h, Q, L \union {v})
    <3>. DEFINE P == L \union {v}
    <3>1. P = P \ X
      BY <2>3
    <3>. HIDE DEF X, Q, P
    <3>2. Sound(g, R, P)
      BY <2>1, <2>3, <3>1, FreeRootsSound DEF P
    <3>. QED
      BY <2>3, <3>2 DEF P
  <2>. QED
    BY <2>2, <2>3
<1>. HIDE DEF g
<1>2. g \in Heaps
  BY <1>1 DEF Sound
<1>3. <<>> \in Seq(Ids)
  BY EmptySeq
<1>4. d = [c EXCEPT !.heap = g, !.made = <<>>, !.done = TRUE]
  BY DEF DotFails, g
<1>5. d \in DotCalls /\ d.done = TRUE /\ d.ok = FALSE /\ d.heap = g
  BY <1>2, <1>3, <1>4 DEF DotCalls
<1>. HIDE DEF d
<1>6. PassedSound(R, L, v, d)
  BY <1>1, <1>5 DEF PassedSound
<1>7. DotInv(d, R, L, path, v)
  BY <1>5, <1>6 DEF DotInv
<1>. QED
  BY <1>7 DEF d

\* The value is stored in the innermost object.
LEMMA DotStoresInv ==
  ASSUME NEW c, NEW R, NEW L, NEW path \in Paths, NEW v, DotInv(c, R, L, path, v),
         ~c.done, ~c.stored, c.n = Len(path), NEW d \in DotPasses(c, path, v)
  PROVE  DotInv(d, R, L, path, v)
<1>. DEFINE o == Innermost(c)
            name == path[c.n]
            X == Range(c.made)
            Q == R \union X
            h == c.heap
<1>1. /\ c \in DotCalls /\ L \subseteq R
      /\ AllDifferent(c.made) /\ X \intersect R = {}
      /\ c.done = FALSE /\ c.ok = FALSE /\ c.stored = FALSE
      /\ Inward(c, R, L, path, v)
  BY UnderWay
<1>2. /\ c.n \in 1 .. Len(path) /\ Len(c.made) < c.n
      /\ Sound(h, Q, L)
      /\ c.at \in Live(h)
      /\ c.at \notin Below(h)[X]
      /\ v \in R => c.at \notin Below(h)[{v}]
      /\ v \in Live(h) \ X
      /\ \A m \in X : h.items[m] = <<>> /\ h.kind[m] = "object"
  BY <1>1 DEF Inward
<1>3. c.made \in Seq(Ids) /\ h \in Heaps /\ v \in Ids /\ Q \subseteq Ids /\ X \subseteq Ids
  BY <1>1, <1>2, LiveTyped DEF DotCalls, Sound
<1>4. c.made # <<>> => o = Last(c.made) /\ o \in X
  BY <1>3, LastMade DEF Innermost
<1>5. o \in Live(h) /\ (v \in R => o \notin Below(h)[{v}])
  <2>1. CASE c.made = <<>>
    BY <1>2, <2>1 DEF Innermost
  <2>2. CASE c.made # <<>>
    <3>1. o \in Q /\ {v} \in SUBSET Ids /\ o \notin {v}
      BY <1>2, <1>3, <1>4, <2>2
    <3>. HIDE DEF o, Q
    <3>2. o \notin Below(h)[{v}]
      BY <1>2, <3>1, RootsApart
    <3>. QED
      BY <1>2, <3>1, <3>2 DEF Sound
  <2>. QED
    BY <2>1, <2>2
<1>6. name \in MemberNames /\ Last(path) = name
  BY <1>2, PathNames
<1>7. Passable(h, Q, L, o, v)
  BY <1>2, <1>5 DEF Passable
<1>8. PICK set \in SetValue(h, o, name, v) :
        d = IF set.ok THEN [c EXCEPT !.heap = set.heap, !.stored = TRUE] ELSE DotFails(c, set.heap)
  BY DEF DotPasses
<1>. HIDE DEF o, name, Q, X
<1>9. /\ PassedSound(Q, L, v, set)
      /\ ~set.ok => set.heap = h
      /\ set.ok /\ h.items[o] = <<>> => Added(h, set.heap, o, name, v)
  BY <1>6, <1>7, SetPasses
<1>10. CASE ~set.ok
  <2>1. d = DotFails(c, h)
    BY <1>8, <1>9, <1>10
  <2>2. Sound(h, R \union Range(c.made), L) /\ Range(c.made) \intersect R = {}
    BY <1>1, <1>2 DEF Q, X
  <2>. QED
    BY <1>1, <2>1, <2>2, DotFailsInv
<1>11. CASE set.ok
  <2>. DEFINE g == set.heap
  <2>1. v \in Q \ L /\ Sound(g, Q \ {v}, L)
    BY <1>9, <1>11 DEF PassedSound
  <2>2. d = [c EXCEPT !.heap = g, !.stored = TRUE]
    BY <1>8, <1>11
  <2>. HIDE DEF g
  <2>3. g \in Heaps
    BY <2>1 DEF Sound
  <2>4. /\ d \in DotCalls /\ d.heap = g /\ d.stored = TRUE /\ d.done = FALSE
        /\ d.made = c.made /\ d.n = c.n /\ d.at = c.at /\ d.ok = FALSE
    BY <1>1, <2>2, <2>3 DEF DotCalls
  <2>5. v \in R \ L /\ v \notin X
    BY <1>2, <2>1 DEF Q
  <2>6. Q \ {v} = (R \ {v}) \union X
    BY <2>5 DEF Q
  <2>7. ASSUME c.made # <<>>
        PROVE  /\ c.at \in Live(g)
               /\ c.at \notin Below(g)[X]
               /\ \A m \in X \ {Last(c.made)} : g.items[m] = <<>>
               /\ \A m \in X : g.kind[m] = "object"
               /\ Leads(g, Last(c.made), path, c.n, v)
    <3>1. o = Last(c.made) /\ o \in X /\ o \in Ids
      BY <1>3, <1>4, <2>7
    <3>2. h.items[o] = <<>> /\ Added(h, g, o, name, v)
      BY <1>2, <1>9, <1>11, <3>1 DEF g
    <3>3. PICK s \in Items : /\ Storing(h, g, o, s, Len(h.items[o]) + 1, v)
                             /\ DOMAIN s = 1 .. Len(h.items[o]) + 1
                             /\ s[Len(h.items[o]) + 1] = [name |-> name, value |-> v]
      BY <3>2 DEF Added
    <3>4. /\ g.kind = h.kind /\ g.items[o] = s
          /\ \A u \in Ids \ {o} : g.items[u] = h.items[u]
      BY <3>3 DEF Storing
    <3>5. Live(g) = Live(h)
      BY <3>4 DEF Live
    <3>6. \A u \in Ids : Members(g, u) \subseteq Members(h, u) \union {v}
      <4>1. \A u \in Ids \ {o} : Members(g, u) = Members(h, u)
        BY <3>4 DEF Members
      <4>2. Len(h.items[o]) = 0
        BY <3>2, EmptySeq
      <4>3. Members(g, o) = {v}
        BY <3>3, <3>4, <4>2 DEF Members
      <4>. QED
        BY <4>1, <4>3
    <3>7. c.at \notin Below(g)[X]
      <4>. DEFINE T == Below(h)[X] \union Below(h)[{v}]
      <4>1. /\ X \subseteq Below(h)[X] /\ Below(h)[X] \subseteq Ids /\ Closed(h, Below(h)[X])
            /\ {v} \subseteq Below(h)[{v}] /\ Below(h)[{v}] \subseteq Ids
            /\ Closed(h, Below(h)[{v}])
        BY <1>3, BelowLeast
      <4>2. X \subseteq T /\ T \in SUBSET Ids /\ v \in T
        BY <4>1
      <4>3. Closed(g, T)
        BY <3>6, <4>1, <4>2 DEF Closed
      <4>4. Below(g)[X] \subseteq T
        BY <1>3, <2>3, <4>2, <4>3, BelowLeast
      <4>5. c.at \notin T
        BY <1>2, <2>5
      <4>. QED
        BY <4>4, <4>5
    <3>8. GetMember(g, o, name) = v
      BY <1>3, <3>1, <3>2, AddedFound
    <3>9. Leads(g, o, path, c.n, v)
      <4>1. GetMember(g, o, path[Len(path)]) = v
        BY <3>8 DEF name
      <4>. QED
        BY <3>1, <4>1, LeadsLast
    <3>10. \A m \in X \ {o} : g.items[m] = <<>>
      BY <1>2, <1>3, <3>4
    <3>. QED
      BY <1>2, <3>1, <3>4, <3>5, <3>7, <3>9, <3>10
  <2>8. Outward(d, R, L, path, v)
    BY <1>2, <2>1, <2>4, <2>5, <2>6, <2>7 DEF Outward, X
  <2>. QED
    BY <1>1, <2>4, <2>8 DEF DotInv, X
<1>. QED
  BY <1>10, <1>11

\* An object is made, the next one is there, or the path cannot be followed.
LEMMA DotPassesInv ==
  ASSUME NEW c, NEW R, NEW L, NEW path \in Paths, NEW v, DotInv(c, R, L, path, v),
         ~c.done, ~c.stored, c.n # Len(path), NEW d \in DotPasses(c, path, v)
  PROVE  DotInv(d, R, L, path, v)
<1>. DEFINE o == Innermost(c)
            name == path[c.n]
            m == GetMember(c.heap, o, name)
            X == Range(c.made)
            Q == R \union X
            h == c.heap
<1>1. /\ c \in DotCalls /\ L \subseteq R
      /\ AllDifferent(c.made) /\ X \intersect R = {}
      /\ c.done = FALSE /\ c.ok = FALSE /\ c.stored = FALSE
      /\ Inward(c, R, L, path, v)
  BY UnderWay
<1>2. /\ c.n \in 1 .. Len(path) /\ Len(c.made) < c.n
      /\ Sound(h, Q, L)
      /\ c.at \in Live(h)
      /\ c.at \notin Below(h)[X]
      /\ v \in R => c.at \notin Below(h)[{v}]
      /\ v \in Live(h) \ X
      /\ \A u \in X : h.items[u] = <<>> /\ h.kind[u] = "object"
  BY <1>1 DEF Inward
<1>3. /\ c.made \in Seq(Ids) /\ h \in Heaps /\ v \in Ids /\ Q \subseteq Ids /\ X \subseteq Ids
      /\ Len(c.made) \in Nat
  BY <1>1, <1>2, LiveTyped, LenProperties DEF DotCalls, Sound
<1>4. Len(path) \in Nat /\ c.n + 1 \in 1 .. Len(path) /\ c.n \in Nat
  BY <1>2, PathNames
<1>5. DotInv(DotFails(c, h), R, L, path, v)
  BY <1>1, <1>2, DotFailsInv DEF Q, X
<1>6. CASE m = NULL
  <2>1. PICK new \in New(h, "object") :
          d = IF new.id = NULL THEN DotFails(c, new.heap)
              ELSE [c EXCEPT !.heap = new.heap, !.made = Append(@, new.id), !.n = @ + 1]
    BY <1>6 DEF DotPasses
  <2>. HIDE DEF o, name, Q, X, m
  <2>. DEFINE kind == "object"
  <2>2. kind \in Kinds
    BY DEF Kinds
  <2>. HIDE DEF kind
  <2>3. CASE new.id = NULL
    <3>1. new.heap = h
      BY <1>3, <2>2, <2>3, NewMakes, TreeAssumption DEF kind
    <3>. QED
      BY <1>5, <2>1, <2>3, <3>1
  <2>4. CASE new.id # NULL
    <3>. DEFINE x == new.id
                g == new.heap
                made == Append(c.made, x)
                Y == X \union {x}
    <3>1. Fresh(h, Q, L, x, kind, g)
      BY <1>2, <2>2, <2>4, NewSound DEF kind
    <3>2. d = [c EXCEPT !.heap = g, !.made = made, !.n = c.n + 1]
      BY <1>1, <2>1, <2>4 DEF DotCalls
    <3>. HIDE DEF x, g
    <3>3. /\ x \in Ids \ Live(h)
          /\ Made(h, g, x, kind)
          /\ Sound(g, Q \union {x}, L)
          /\ Live(g) = Live(h) \union {x}
          /\ SameTrees(h, g)
      BY <3>1 DEF Fresh
    <3>4. x \notin Q /\ x # c.at /\ x # v
      BY <1>2, <3>3 DEF Sound
    <3>5. made \in Seq(Ids) /\ Range(made) = Y /\ Len(made) = Len(c.made) + 1
      BY <1>3, <3>3, RangeAppend DEF X
    <3>6. AllDifferent(made)
      BY <1>1, <1>3, <3>3, <3>4, AppendDifferent DEF Q, X
    <3>7. g \in Heaps
      BY <3>3 DEF Made
    <3>. HIDE DEF made
    <3>8. /\ d \in DotCalls /\ d.heap = g /\ d.stored = FALSE /\ d.done = FALSE
          /\ d.made = made /\ d.n = c.n + 1 /\ d.at = c.at /\ d.ok = FALSE
      <4>1. c \in DotCalls /\ c.done = FALSE /\ c.ok = FALSE /\ c.stored = FALSE /\ c.n + 1 \in Nat
        BY <1>1, <1>4
      <4>. QED
        BY ONLY <3>2, <3>5, <3>7, <4>1 DEF DotCalls
    <3>9. c.at \notin Below(g)[Y]
      <4>. DEFINE T == Below(h)[X] \union {x}
      <4>1. /\ X \subseteq Below(h)[X] /\ Below(h)[X] \subseteq Ids /\ Closed(h, Below(h)[X])
        BY <1>3, BelowLeast
      <4>2. Y \subseteq T /\ T \in SUBSET Ids /\ Y \in SUBSET Ids
        BY <1>3, <3>3, <4>1
      <4>3. \A u \in Ids : Members(g, u) = Members(h, u)
        BY <3>3 DEF SameTrees, Members
      <4>4. Members(g, x) = {}
        BY <3>3 DEF Made, Members
      <4>5. Closed(g, T)
        BY <4>1, <4>3, <4>4 DEF Closed
      <4>6. Below(g)[Y] \subseteq T
        BY <3>7, <4>2, <4>5, BelowLeast
      <4>. QED
        BY <1>2, <3>4, <4>6
    <3>10. v \in R => c.at \notin Below(g)[{v}]
      <4>1. {v} \in SUBSET Ids
        BY <1>3
      <4>2. Below(g)[{v}] = Below(h)[{v}]
        BY <3>3, <4>1 DEF SameTrees
      <4>. QED
        BY <1>2, <4>2
    <3>11. \A u \in Y : g.items[u] = <<>> /\ g.kind[u] = "object"
      <4>1. g.items[x] = <<>> /\ g.kind[x] = "object"
        BY <3>3 DEF Made, kind
      <4>2. ASSUME NEW u \in X
            PROVE  g.items[u] = <<>> /\ g.kind[u] = "object"
        <5>1. u \in Ids \ {x}
          BY <1>3, <3>4 DEF Q
        <5>. QED
          BY <1>2, <3>3, <5>1 DEF Made
      <4>. QED
        BY <4>1, <4>2
    <3>12. R \union Y = Q \union {x} /\ Y \intersect R = {} /\ v \notin Y
      BY <1>1, <1>2, <3>4 DEF Q
    <3>13. Len(made) < c.n + 1
      BY <1>2, <1>3, <1>4, <3>5
    <3>. HIDE DEF Y
    <3>14. Sound(g, R \union Y, L) /\ c.at \in Live(g) /\ v \in Live(g) \ Y
      BY <1>2, <3>3, <3>12
    <3>15. Inward(d, R, L, path, v)
      BY <1>4, <3>5, <3>8, <3>9, <3>10, <3>11, <3>13, <3>14 DEF Inward
    <3>. QED
      BY <1>1, <3>5, <3>6, <3>8, <3>12, <3>15 DEF DotInv
  <2>. QED
    BY <2>3, <2>4
<1>7. CASE m # NULL /\ h.kind[m] = "object"
  <2>1. d = [c EXCEPT !.at = m, !.n = c.n + 1]
    BY <1>1, <1>7 DEF DotPasses, DotCalls
  <2>2. c.made = <<>>
    <3>. SUFFICES ASSUME c.made # <<>>
                  PROVE  FALSE
      OBVIOUS
    <3>1. o = Last(c.made) /\ o \in X
      BY <1>3, LastMade DEF Innermost
    <3>2. h.items[o] = <<>>
      BY <1>2, <3>1
    <3>3. m = NULL
      BY <3>2 DEF GetMember, SlotOf
    <3>. QED
      BY <1>7, <3>3
  <2>3. o = c.at /\ X = {}
    BY <2>2 DEF Innermost, Range
  <2>4. c.at \in Ids
    BY <1>2, LiveTyped
  <2>. HIDE DEF name
  <2>5. m \in Members(h, c.at)
    BY <1>3, <1>7, <2>3, <2>4, MemberFound
  <2>6. m \in Live(h) \ Q /\ m \in Ids
    BY <1>2, <2>4, <2>5, LiveTyped DEF Sound, MembersHeld
  <2>. HIDE DEF m
  <2>7. v \in R => m \notin Below(h)[{v}]
    <3>. SUFFICES ASSUME v \in R
                  PROVE  m \notin Below(h)[{v}]
      OBVIOUS
    <3>. DEFINE V == {v}
    <3>1. V \in SUBSET Ids /\ c.at \notin Below(h)[V] /\ m \notin V
      BY <1>2, <1>3, <2>6 DEF Q
    <3>. HIDE DEF V, Q
    <3>2. m \notin Below(h)[V]
      BY <1>2, <2>4, <2>5, <3>1, OutsideClosed
    <3>. QED
      BY <3>2 DEF V
  <2>8. /\ d \in DotCalls /\ d.heap = h /\ d.stored = FALSE /\ d.done = FALSE
        /\ d.made = c.made /\ d.n = c.n + 1 /\ d.at = m /\ d.ok = FALSE
    <3>1. c \in DotCalls /\ c.done = FALSE /\ c.ok = FALSE /\ c.stored = FALSE /\ c.n + 1 \in Nat
      BY <1>1, <1>4
    <3>. QED
      BY ONLY <2>1, <2>6, <3>1 DEF DotCalls
  <2>9. m \notin Below(h)[X]
    BY <1>3, <2>3, BelowNothing
  <2>10. Len(c.made) < c.n + 1
    BY <1>2, <1>3, <1>4
  <2>. HIDE DEF X, Q
  <2>11. Inward(d, R, L, path, v)
    BY <1>2, <1>4, <2>6, <2>7, <2>8, <2>9, <2>10 DEF Inward, X, Q
  <2>. QED
    BY <1>1, <2>8, <2>11 DEF DotInv, X
<1>8. CASE m # NULL /\ h.kind[m] # "object"
  <2>1. d = DotFails(c, h)
    BY <1>8 DEF DotPasses
  <2>. QED
    BY <1>5, <2>1
<1>. QED
  BY <1>6, <1>7, <1>8

\* The caller of the outermost call gets its result.
LEMMA DotEndsInv ==
  ASSUME NEW c, NEW R, NEW L, NEW path \in Paths, NEW v, DotInv(c, R, L, path, v),
         ~c.done, c.stored, c.made = <<>>, NEW d \in DotReturns(c, path)
  PROVE  DotInv(d, R, L, path, v)
<1>1. c \in DotCalls /\ L \subseteq R /\ Outward(c, R, L, path, v)
  BY UnderWay
<1>2. d = [c EXCEPT !.done = TRUE, !.ok = TRUE]
  BY DEF DotReturns
<1>3. d \in DotCalls /\ d.done = TRUE /\ d.ok = TRUE /\ d.heap = c.heap
  BY <1>1, <1>2 DEF DotCalls
<1>4. v \in R \ L /\ Sound(c.heap, R \ {v}, L)
  <2>1. Range(c.made) = {}
    BY DEF Range
  <2>2. (R \ {v}) \union {} = R \ {v}
    OBVIOUS
  <2>. QED
    BY <1>1, <2>1, <2>2 DEF Outward
<1>5. PassedSound(R, L, v, d)
  BY <1>3, <1>4 DEF PassedSound
<1>. QED
  BY <1>1, <1>3, <1>5 DEF DotInv

\* The innermost object that was made goes into the one around it, or the value is
\* taken out of it again and all are freed.
LEMMA DotReturnsInv ==
  ASSUME NEW c, NEW R, NEW L, NEW path \in Paths, NEW v \in Ids, DotInv(c, R, L, path, v),
         ~c.done, c.stored, c.made # <<>>, NEW d \in DotReturns(c, path)
  PROVE  DotInv(d, R, L, path, v)
<1>. DEFINE o == Last(c.made)
            F == Front(c.made)
            around == [c EXCEPT !.made = F, !.n = c.n - 1]
            to == Innermost(around)
            name == path[c.n - 1]
            X == Range(c.made)
            Y == Range(F)
            Q == (R \ {v}) \union X
            h == c.heap
<1>1. /\ c \in DotCalls /\ L \subseteq R
      /\ AllDifferent(c.made) /\ X \intersect R = {}
      /\ c.done = FALSE /\ c.ok = FALSE /\ c.stored = TRUE
      /\ Outward(c, R, L, path, v)
  BY UnderWay
<1>2. /\ v \in R \ L /\ v \notin X
      /\ Sound(h, Q, L)
      /\ c.n \in 1 .. Len(path) /\ Len(c.made) < c.n
      /\ c.at \in Live(h)
      /\ c.at \notin Below(h)[X]
      /\ \A m \in X \ {o} : h.items[m] = <<>>
      /\ \A m \in X : h.kind[m] = "object"
      /\ Leads(h, o, path, c.n, v)
  BY <1>1 DEF Outward
<1>3. /\ c.made \in Seq(Ids) /\ h \in Heaps /\ c.at \in Ids /\ Q \subseteq Live(h) /\ Live(h) \subseteq Ids
      /\ X \subseteq Q
  BY <1>1, <1>2, LiveTyped DEF DotCalls, Sound
<1>4. /\ F \in Seq(Ids) /\ Len(c.made) \in Nat \ {0} /\ Len(F) = Len(c.made) - 1
      /\ o \in Ids /\ X = Y \union {o}
      /\ AllDifferent(F) /\ o \notin Y
  BY <1>1, <1>3, RangeFront
<1>5. /\ c.n \in 2 .. Len(path) /\ c.n - 1 \in 1 .. Len(path) /\ c.n - 1 \in Nat /\ Len(F) < c.n - 1
  BY <1>2, <1>4, PathNames
<1>6. name \in MemberNames
  BY <1>5, PathNames
<1>7. /\ around \in DotCalls /\ around.heap = h /\ around.at = c.at /\ around.made = F
      /\ around.n = c.n - 1 /\ around.stored = TRUE /\ around.done = FALSE /\ around.ok = FALSE
  <2>. HIDE DEF F
  <2>. QED
    BY ONLY <1>1, <1>4, <1>5 DEF DotCalls
<1>8. DotReturns(c, path) =
        {IF add.ok THEN [around EXCEPT !.heap = add.heap]
         ELSE DotFails(c, DotRemove(add.heap, o, path, c.n, FALSE).heap) : add \in Add(h, to, name, o)}
  <2>1. around = [c EXCEPT !.made = Front(@), !.n = @ - 1]
    BY <1>1 DEF DotCalls
  <2>. QED
    BY <2>1 DEF DotReturns
<1>9. to = IF F = <<>> THEN c.at ELSE Last(F)
  BY <1>7 DEF Innermost
<1>. HIDE DEF around, to, name
<1>10. F # <<>> => to = Last(F) /\ to \in Y
  BY <1>4, <1>9, LastMade
<1>11. Adds(h, Q, L, to, name, o)
  <2>1. o \in Q
    BY <1>3, <1>4
  <2>2. CASE F = <<>>
    <3>1. X \in SUBSET Ids /\ {o} \in SUBSET X
      BY <1>3, <1>4
    <3>. HIDE DEF X, o, Q
    <3>2. Below(h)[{o}] \subseteq Below(h)[X]
      BY <1>3, <3>1, BelowGrows
    <3>. QED
      BY <1>2, <1>6, <1>9, <2>1, <2>2, <3>2 DEF Adds
  <2>3. CASE F # <<>>
    <3>. DEFINE O == {o}
    <3>1. to \in Q /\ to \notin O /\ O \in SUBSET Ids /\ to \in Live(h)
      BY <1>3, <1>4, <1>10, <2>3
    <3>. HIDE DEF O, Q
    <3>2. to \notin Below(h)[O]
      BY <1>2, <3>1, RootsApart
    <3>. QED
      BY <1>2, <1>6, <2>1, <3>1, <3>2 DEF Adds, O
  <2>. QED
    BY <2>2, <2>3
<1>12. PICK add \in Add(h, to, name, o) :
         d = IF add.ok THEN [around EXCEPT !.heap = add.heap]
             ELSE DotFails(c, DotRemove(add.heap, o, path, c.n, FALSE).heap)
  BY <1>8
<1>. DEFINE g == add.heap
<1>. HIDE DEF o, F, X, Y, Q
<1>13. AddEnds(h, Q, L, to, name, o, add)
  BY <1>11, AddSound
<1>14. CASE ~add.ok
  <2>. DEFINE k == DotRemove(h, o, path, c.n, FALSE).heap
  <2>1. d = DotFails(c, k)
    BY <1>12, <1>13, <1>14 DEF AddEnds
  <2>2. Sound(k, Q \union {v}, L \union {v})
    BY <1>2, <1>4, LeadsRemoves
  <2>. HIDE DEF k
  <2>3. Q \union {v} = R \union X
    BY <1>2 DEF Q
  <2>4. v \in R /\ Sound(k, R \union Range(c.made), L \union {v}) /\ Range(c.made) \intersect R = {}
    BY <1>1, <1>2, <2>2, <2>3 DEF X
  <2>. QED
    BY <1>1, <2>1, <2>4, DotFailsInv
<1>15. CASE add.ok
  <2>1. /\ Sound(g, Q \ {o}, L \ {o})
        /\ Live(g) = Live(h)
        /\ Added(h, g, to, name, o)
    BY <1>13, <1>15 DEF AddEnds
  <2>2. d = [around EXCEPT !.heap = g]
    BY <1>12, <1>15
  <2>. HIDE DEF g
  <2>3. Q \ {o} = (R \ {v}) \union Y /\ L \ {o} = L /\ Y \intersect R = {} /\ v \notin Y
    BY <1>1, <1>2, <1>4 DEF Q
  <2>4. g \in Heaps
    BY <2>1 DEF Sound
  <2>5. /\ d \in DotCalls /\ d.heap = g /\ d.at = c.at /\ d.made = F
        /\ d.n = c.n - 1 /\ d.stored = TRUE /\ d.done = FALSE /\ d.ok = FALSE
    BY ONLY <1>7, <2>2, <2>4 DEF DotCalls
  <2>6. ASSUME F # <<>>
        PROVE  /\ c.at \notin Below(g)[Y]
               /\ \A m \in Y \ {to} : g.items[m] = <<>>
               /\ \A m \in Y : g.kind[m] = "object"
               /\ Leads(g, to, path, c.n - 1, v)
    <3>1. to \in Y /\ to \in X /\ to # o /\ to \in Ids /\ o \in X
      BY <1>3, <1>4, <1>10, <2>6
    <3>2. h.items[to] = <<>> /\ h.kind[o] = "object"
      BY <1>2, <3>1
    <3>3. PICK s \in Items : /\ Storing(h, g, to, s, Len(h.items[to]) + 1, o)
                             /\ DOMAIN s = 1 .. Len(h.items[to]) + 1
                             /\ s[Len(h.items[to]) + 1] = [name |-> name, value |-> o]
      BY <2>1 DEF Added
    <3>4. /\ g.kind = h.kind /\ g.items[to] = s
          /\ \A u \in Ids \ {to} : g.items[u] = h.items[u]
      BY <3>3 DEF Storing
    <3>5. \A u \in Ids : Members(g, u) \subseteq Members(h, u) \union {o}
      <4>1. \A u \in Ids \ {to} : Members(g, u) = Members(h, u)
        BY <3>4 DEF Members
      <4>2. Len(h.items[to]) = 0
        BY <3>2, EmptySeq
      <4>3. Members(g, to) = {o}
        BY <3>3, <3>4, <4>2 DEF Members
      <4>. QED
        BY <4>1, <4>3
    <3>6. c.at \notin Below(g)[Y]
      <4>. DEFINE T == Below(h)[X]
      <4>1. X \in SUBSET Ids /\ Y \in SUBSET Ids /\ Y \subseteq X
        BY <1>3, <1>4
      <4>2. X \subseteq T /\ T \subseteq Ids /\ Closed(h, T)
        BY <1>3, <4>1, BelowLeast
      <4>3. Closed(g, T)
        BY <3>1, <3>5, <4>2 DEF Closed
      <4>4. T \in SUBSET Ids /\ Y \subseteq T
        BY <4>1, <4>2
      <4>5. Below(g)[Y] \subseteq T
        BY <2>4, <4>1, <4>3, <4>4, BelowLeast
      <4>. QED
        BY <1>2, <4>5
    <3>7. \A m \in Y \ {to} : g.items[m] = <<>>
      <4>. SUFFICES ASSUME NEW m \in Y \ {to}
                    PROVE  g.items[m] = <<>>
        OBVIOUS
      <4>1. m \in X \ {o} /\ m \in Ids \ {to}
        BY <1>3, <1>4
      <4>. QED
        BY <1>2, <3>4, <4>1
    <3>8. \A m \in Y : g.kind[m] = "object"
      BY <1>2, <1>4, <3>4
    <3>9. Leads(g, to, path, c.n - 1, v)
      <4>1. Added(h, g, to, path[c.n - 1], o)
        BY <2>1 DEF name
      <4>. QED
        BY <1>2, <1>3, <1>4, <1>5, <3>1, <3>2, <4>1, LeadsOn
    <3>. QED
      BY <3>6, <3>7, <3>8, <3>9
  <2>7. F # <<>> => Last(F) = to
    BY <1>10
  <2>8. /\ Sound(g, (R \ {v}) \union Y, L) /\ c.at \in Live(g)
    BY <1>2, <2>1, <2>3
  <2>9. Outward(d, R, L, path, v)
    BY <1>2, <1>5, <2>3, <2>5, <2>6, <2>7, <2>8 DEF Outward, Y
  <2>. QED
    BY <1>1, <1>4, <2>3, <2>5, <2>9 DEF DotInv, Y
<1>. QED
  BY <1>14, <1>15

LEMMA DotStepInv ==
  ASSUME NEW c, NEW R, NEW L, NEW path \in Paths, NEW v \in Ids, DotInv(c, R, L, path, v),
         NEW d \in DotStep(c, path, v)
  PROVE  DotInv(d, R, L, path, v)
<1>1. CASE c.done
  BY <1>1 DEF DotStep
<1>2. CASE ~c.done /\ c.stored
  <2>1. d \in DotReturns(c, path)
    BY <1>2 DEF DotStep
  <2>. QED
    BY <1>2, <2>1, DotEndsInv, DotReturnsInv
<1>3. CASE ~c.done /\ ~c.stored
  <2>1. d \in DotPasses(c, path, v)
    BY <1>3 DEF DotStep
  <2>. QED
    BY <1>3, <2>1, DotStoresInv, DotPassesInv
<1>. QED
  BY <1>1, <1>2, <1>3

\* All the calls can come to after some steps.
LEMMA DotStepsInv ==
  ASSUME NEW h, NEW R, NEW L, NEW path \in Paths, NEW v, NEW o, Passable(h, R, L, o, v),
         NEW M \in Nat, NEW c \in DotSteps(h, o, path, v, M)
  PROVE  DotInv(c, R, L, path, v)
<1>. DEFINE C == {b \in DotCalls : DotInv(b, R, L, path, v)}
            A == {Setting(h, o)}
            G == [n \in 1 .. M |-> [S \in SUBSET C |-> UNION {DotStep(b, path, v) : b \in S}]]
            After(f, n) == IF n = 0 THEN A ELSE UNION {DotStep(b, path, v) : b \in f[n - 1]}
            Steps(f) == f = [n \in 0 .. M |-> After(f, n)]
            g == CHOOSE f : Steps(f)
<1>1. /\ Sound(h, R, L) /\ h \in Heaps /\ o \in Live(h) /\ v \in Live(h) /\ L \subseteq R
      /\ o \in Ids /\ v \in Ids
      /\ v \in R => o \notin Below(h)[{v}]
  BY LiveTyped DEF Passable, Sound
<1>2. A \in SUBSET C
  <2>. DEFINE b == Setting(h, o)
              nothing == <<>>
  <2>1. nothing \in Seq(Ids) /\ Range(nothing) = {} /\ AllDifferent(nothing) /\ Len(nothing) = 0
    BY EmptySeq DEF Range, AllDifferent
  <2>2. b = [heap |-> h, at |-> o, made |-> nothing, n |-> 1, stored |-> FALSE, done |-> FALSE,
             ok |-> FALSE]
    BY DEF Setting
  <2>. HIDE DEF b, nothing
  <2>3. /\ b \in DotCalls /\ b.done = FALSE /\ b.ok = FALSE /\ b.stored = FALSE
        /\ b.heap = h /\ b.at = o /\ b.made = nothing /\ b.n = 1
    BY <1>1, <2>1, <2>2 DEF DotCalls
  <2>4. /\ b.n \in 1 .. Len(path) /\ Len(b.made) < b.n
    BY <2>1, <2>3, PathNames
  <2>5. o \notin Below(h)[{}]
    BY <1>1, BelowNothing
  <2>6. R \union {} = R /\ Live(h) \ {} = Live(h)
    OBVIOUS
  <2>7. Inward(b, R, L, path, v)
    BY <1>1, <2>1, <2>3, <2>4, <2>5, <2>6 DEF Inward
  <2>8. DotInv(b, R, L, path, v)
    BY <1>1, <2>1, <2>3, <2>7 DEF DotInv
  <2>. QED
    BY <2>3, <2>8 DEF b
<1>3. \A n \in 1 .. M : \A S \in SUBSET C : UNION {DotStep(b, path, v) : b \in S} \in SUBSET C
  <2>. SUFFICES ASSUME NEW b \in C, NEW d \in DotStep(b, path, v)
                PROVE  d \in C
    OBVIOUS
  <2>1. DotInv(b, R, L, path, v)
    OBVIOUS
  <2>. HIDE DEF C
  <2>2. DotInv(d, R, L, path, v)
    BY <1>1, <2>1, DotStepInv
  <2>3. d \in DotCalls
    BY <2>2 DEF DotInv
  <2>. QED
    BY <2>2, <2>3 DEF C
<1>. HIDE DEF C, A
<1>4. G \in [1 .. M -> [SUBSET C -> SUBSET C]]
  BY <1>3
<1>5. \E f : Steps(f)
  <2>. HIDE DEF G
  <2>1. Loop(M, C, A, G)
    BY <1>2, <1>4 DEF Loop
  <2>2. PICK f \in [0 .. M -> SUBSET C] : /\ f[0] = A
                                         /\ \A n \in 1 .. M : f[n] = G[n][f[n - 1]]
    <3>1. Looped(M, C, A, G)
      BY <2>1, LoopExists
    <3>. QED
      BY <3>1 DEF Looped
  <2>3. ASSUME NEW n \in 0 .. M
        PROVE  f[n] = After(f, n)
    <3>1. CASE n = 0
      BY <2>2, <3>1
    <3>2. CASE n # 0
      <4>1. n \in 1 .. M /\ n - 1 \in 0 .. M
        BY <3>2
      <4>2. f[n - 1] \in SUBSET C
        BY <4>1
      <4>3. G[n][f[n - 1]] = UNION {DotStep(b, path, v) : b \in f[n - 1]}
        BY <4>1, <4>2 DEF G
      <4>. QED
        BY <2>2, <3>2, <4>1, <4>3
    <3>. QED
      BY <3>1, <3>2
  <2>4. Steps(f)
    <3>. HIDE DEF After
    <3>. QED
      BY <2>3
  <2>. HIDE DEF Steps
  <2>. QED
    BY <2>4
<1>6. \A n \in 0 .. M : g[n] = After(g, n)
  <2>1. Steps(g)
    <3>. HIDE DEF Steps
    <3>. QED
      BY <1>5
  <2>. HIDE DEF After, g
  <2>. QED
    BY <2>1
<1>7. c \in g[M]
  BY DEF DotSteps, A
<1>. HIDE DEF g
<1>8. \A n \in 0 .. M : g[n] \in SUBSET C
  <2>. DEFINE D == {n \in 0 .. M : g[n] \in SUBSET C}
  <2>1. 0 \in D
    <3>1. 0 \in 0 .. M
      OBVIOUS
    <3>2. g[0] = After(g, 0)
      BY <1>6, <3>1
    <3>. QED
      BY <1>2, <3>1, <3>2
  <2>2. ASSUME NEW n \in 1 .. M, n - 1 \in D
        PROVE  n \in D
    <3>1. n \in 0 .. M /\ n # 0
      OBVIOUS
    <3>2. g[n] = UNION {DotStep(b, path, v) : b \in g[n - 1]}
      BY <1>6, <3>1
    <3>. QED
      BY <1>3, <2>2, <3>2
  <2>. HIDE DEF D
  <2>3. \A n \in 0 .. M : n \in D
    BY <2>1, <2>2, Forward
  <2>. QED
    BY <2>3 DEF D
<1>. QED
  BY <1>7, <1>8 DEF C

\* json_object_dotset_value, whatever fails: the value has been taken, or is still the
\* caller's, but then it may have a parent.
LEMMA DotSetPasses ==
  ASSUME NEW h, NEW R, NEW L, NEW path \in Paths, NEW v, NEW o, Passable(h, R, L, o, v),
         NEW c \in DotSet(h, o, path, v)
  PROVE  PassedSound(R, L, v, c)
<1>. DEFINE M == 2 * Len(path)
<1>1. M \in Nat
  BY PathNames
<1>2. c \in DotSteps(h, o, path, v, M) /\ c.done
  BY DEF DotSet
<1>. HIDE DEF M
<1>3. DotInv(c, R, L, path, v)
  BY <1>1, <1>2, DotStepsInv
<1>. QED
  BY <1>2, <1>3 DEF DotInv

-----------------------------------------------------------------------------
(* The caller's steps.                                                     *)

TreeInv == Sound(heap, roots, left)

LEMMA InitSound == TreeInit => TreeInv
<1>. SUFFICES ASSUME TreeInit
              PROVE  TreeInv
  OBVIOUS
<1>1. <<>> \in Items
  BY EmptySeq DEF Items
<1>2. /\ \A v \in Ids : heap.kind[v] = "free" /\ heap.parent[v] = NULL /\ heap.items[v] = <<>>
      /\ heap \in Heaps
  BY <1>1 DEF TreeInit, Heaps
<1>3. Live(heap) = {} /\ roots = {} /\ left = {}
  BY <1>2 DEF Live, TreeInit
<1>4. \A v \in Ids : Members(heap, v) = {} /\ DOMAIN heap.items[v] = {}
  <2>1. DOMAIN <<>> = {}
    OBVIOUS
  <2>. QED
    BY <1>2, <2>1 DEF Members
<1>5. SlotsDistinct(heap) /\ MembersHeld(heap, roots)
  BY <1>4 DEF SlotsDistinct, MembersHeld
<1>6. FreedEmpty(heap) /\ NamesDistinct(heap)
  BY <1>2, <1>4 DEF FreedEmpty, NamesDistinct
<1>7. AllReached(heap, roots)
  BY <1>3 DEF AllReached
<1>8. roots \subseteq Live(heap) /\ left = {v \in roots : heap.parent[v] # NULL}
  BY <1>3
<1>. QED
  BY <1>2, <1>5, <1>6, <1>7, <1>8 DEF TreeInv, Sound

LEMMA GivenSound ==
  ASSUME NEW new, Sound(new.heap, roots \union ({new.id} \ {NULL}), left), Given(new)
  PROVE  TreeInv'
BY DEF Given, TreeInv

\* The caller goes on holding what the call has not taken.
LEMMA PassedKeeps ==
  ASSUME NEW v, NEW o, PassedSound(roots, left, v, o), Passed(v, o)
  PROVE  TreeInv'
<1>1. CASE o.ok = TRUE
  <2>1. Sound(o.heap, roots \ {v}, left)
    BY <1>1 DEF PassedSound
  <2>. QED
    BY <1>1, <2>1 DEF Passed, TreeInv
<1>2. CASE o.ok = FALSE /\ Sound(o.heap, roots, left)
  <2>1. v \in roots /\ o.heap.parent[v] # NULL => v \in left
    BY <1>2 DEF Sound
  <2>2. heap' = o.heap /\ roots' = roots
    BY <1>2 DEF Passed
  <2>3. left' = left
    <3>1. CASE v \in roots /\ o.heap.parent[v] # NULL
      BY <1>2, <2>1, <3>1 DEF Passed
    <3>2. CASE ~(v \in roots /\ o.heap.parent[v] # NULL)
      BY <1>2, <3>2 DEF Passed
    <3>. QED
      BY <3>1, <3>2
  <2>. QED
    BY <1>2, <2>2, <2>3 DEF TreeInv
<1>3. CASE o.ok = FALSE /\ v \in roots /\ Sound(o.heap, roots, left \union {v})
  <2>1. o.heap.parent[v] # NULL
    BY <1>3 DEF Sound
  <2>. QED
    BY <1>3, <2>1 DEF Passed, TreeInv
<1>. QED
  BY <1>1, <1>2, <1>3 DEF PassedSound

LEMMA CalledKeeps ==
  ASSUME NEW gs, \A g \in gs : Sound(g, roots, left), Called(gs)
  PROVE  TreeInv'
BY DEF Called, TreeInv

LEMMA OfLive ==
  ASSUME NEW kind, NEW c \in Of(kind)
  PROVE  c \in Live(heap)
BY DEF Of

LEMMA InitValueKeeps ==
  ASSUME TreeInv, InitValue
  PROVE  TreeInv'
<1>1. PICK kind \in Kinds : \E new \in New(heap, kind) : Given(new)
  BY DEF InitValue
<1>2. PICK new \in New(heap, kind) : Given(new)
  BY <1>1
<1>3. Sound(heap, roots, left) /\ heap \in Heaps
  BY DEF TreeInv, Sound
<1>4. CASE new.id = NULL
  <2>1. new.heap = heap
    BY <1>3, <1>4, NewMakes, TreeAssumption
  <2>2. roots \union ({new.id} \ {NULL}) = roots
    BY <1>4
  <2>. QED
    BY <1>2, <1>3, <2>1, <2>2, GivenSound
<1>5. CASE new.id # NULL
  <2>1. Fresh(heap, roots, left, new.id, kind, new.heap)
    BY <1>3, <1>5, NewSound
  <2>2. Sound(new.heap, roots \union {new.id}, left)
    BY <2>1 DEF Fresh
  <2>3. {new.id} \ {NULL} = {new.id}
    BY <1>5
  <2>. QED
    BY <1>2, <2>2, <2>3, GivenSound
<1>. QED
  BY <1>4, <1>5

LEMMA ParseStringKeeps ==
  ASSUME TreeInv, ParseString
  PROVE  TreeInv'
<1>1. PICK t \in Texts : \E new \in ParseText(heap, t) : Given(new)
  BY DEF ParseString
<1>2. PICK new \in ParseText(heap, t) : Given(new)
  BY <1>1
<1>3. Sound(new.heap, roots \union ({new.id} \ {NULL}), left)
  BY ParseTextSound DEF TreeInv
<1>. QED
  BY <1>2, <1>3, GivenSound

LEMMA DeepCopyKeeps ==
  ASSUME TreeInv, DeepCopyValue
  PROVE  TreeInv'
<1>1. PICK v \in Live(heap) : \E copy \in DeepCopy(heap, v) : Given(copy)
  BY DEF DeepCopyValue
<1>2. PICK copy \in DeepCopy(heap, v) : Given(copy)
  BY <1>1
<1>3. Sound(copy.heap, roots \union ({copy.id} \ {NULL}), left)
  BY DeepCopySound DEF TreeInv
<1>. QED
  BY <1>2, <1>3, GivenSound

LEMMA FreeKeeps ==
  ASSUME TreeInv, Free
  PROVE  TreeInv'
<1>1. PICK v \in roots : /\ heap' = FreeValue(heap, v)
                         /\ roots' = roots \ {v}
                         /\ left' = left \ {v}
  BY DEF Free
<1>. DEFINE X == {v}
<1>2. X \in SUBSET roots /\ heap' = FreeValues(heap, X) /\ roots' = roots \ X /\ left' = left \ X
  BY <1>1 DEF FreeValue
<1>. HIDE DEF X
<1>3. Sound(FreeValues(heap, X), roots \ X, left \ X)
  BY <1>2, FreeRootsSound DEF TreeInv
<1>. QED
  BY <1>2, <1>3 DEF TreeInv

LEMMA PassToArrayKeeps ==
  ASSUME TreeInv, PassToArray
  PROVE  TreeInv'
<1>1. PICK a \in Of("array"), v \in Live(heap) :
        /\ a \notin Tree(heap, v)
        /\ \E o \in AppendValue(heap, a, v) \union
                    UNION {ReplaceValue(heap, a, n, v) : n \in 1 .. Len(heap.items[a]) + 1} :
             Passed(v, o)
  BY DEF PassToArray
<1>2. PICK o \in AppendValue(heap, a, v) \union
                 UNION {ReplaceValue(heap, a, n, v) : n \in 1 .. Len(heap.items[a]) + 1} :
        Passed(v, o)
  BY <1>1
<1>3. Passable(heap, roots, left, a, v)
  BY <1>1, OfLive DEF Passable, TreeInv, Tree
<1>4. PassedSound(roots, left, v, o)
  <2>1. CASE o \in AppendValue(heap, a, v)
    BY <1>3, <2>1, AppendPasses
  <2>2. CASE o \notin AppendValue(heap, a, v)
    <3>1. PICK n \in 1 .. Len(heap.items[a]) + 1 : o \in ReplaceValue(heap, a, n, v)
      BY <1>2, <2>2
    <3>. QED
      BY <1>3, <3>1, ReplacePasses
  <2>. QED
    BY <2>1, <2>2
<1>. QED
  BY <1>2, <1>4, PassedKeeps

LEMMA PassToObjectKeeps ==
  ASSUME TreeInv, PassToObject
  PROVE  TreeInv'
<1>1. PICK object \in Of("object"), v \in Live(heap), path \in Paths :
        /\ object \notin Tree(heap, v)
        /\ \E o \in DotSet(heap, object, path, v) : Passed(v, o)
  BY DEF PassToObject
<1>2. PICK o \in DotSet(heap, object, path, v) : Passed(v, o)
  BY <1>1
<1>3. Passable(heap, roots, left, object, v)
  BY <1>1, OfLive DEF Passable, TreeInv, Tree
<1>4. PassedSound(roots, left, v, o)
  BY <1>3, DotSetPasses
<1>. QED
  BY <1>2, <1>4, PassedKeeps

LEMMA ArrayCallKeeps ==
  ASSUME TreeInv, ArrayCall
  PROVE  TreeInv'
<1>1. PICK a \in Of("array") :
        \/ \E kind \in Scalars : \E new \in New(heap, kind) :
             Called(WithNew(new, AppendValue(new.heap, a, new.id)))
        \/ \E n \in 1 .. Len(heap.items[a]) + 1 :
             \/ \E kind \in Scalars : \E new \in New(heap, kind) :
                  Called(WithNew(new, ReplaceValue(new.heap, a, n, new.id)))
             \/ Called({RemoveAtIx(heap, a, n).heap})
        \/ Called({ClearItems(heap, a)})
  BY DEF ArrayCall
<1>2. a \in Live(heap) /\ Sound(heap, roots, left)
  BY OfLive DEF TreeInv
<1>3. ASSUME NEW kind \in Scalars, NEW new \in New(heap, kind),
             Called(WithNew(new, AppendValue(new.heap, a, new.id)))
      PROVE  TreeInv'
  <2>. DEFINE os == AppendValue(new.heap, a, new.id)
  <2>1. kind \in Kinds
    BY DEF Kinds
  <2>2. Passable(new.heap, roots \union {new.id}, left, a, new.id) =>
          \A o \in os : PassedSound(roots \union {new.id}, left, new.id, o)
    BY AppendPasses
  <2>. HIDE DEF os
  <2>3. \A g \in WithNew(new, os) : Sound(g, roots, left)
    BY <1>2, <2>1, <2>2, WithNewSound
  <2>. QED
    BY <1>3, <2>3, CalledKeeps DEF os
<1>4. ASSUME NEW n, NEW kind \in Scalars, NEW new \in New(heap, kind),
             Called(WithNew(new, ReplaceValue(new.heap, a, n, new.id)))
      PROVE  TreeInv'
  <2>. DEFINE os == ReplaceValue(new.heap, a, n, new.id)
  <2>1. kind \in Kinds
    BY DEF Kinds
  <2>2. Passable(new.heap, roots \union {new.id}, left, a, new.id) =>
          \A o \in os : PassedSound(roots \union {new.id}, left, new.id, o)
    BY ReplacePasses
  <2>. HIDE DEF os
  <2>3. \A g \in WithNew(new, os) : Sound(g, roots, left)
    BY <1>2, <2>1, <2>2, WithNewSound
  <2>. QED
    BY <1>4, <2>3, CalledKeeps DEF os
<1>5. ASSUME NEW n, Called({RemoveAtIx(heap, a, n).heap})
      PROVE  TreeInv'
  <2>1. Sound(RemoveAtIx(heap, a, n).heap, roots, left)
    BY <1>2, RemoveAtIxSound
  <2>. QED
    BY <1>5, <2>1 DEF Called, TreeInv
<1>6. CASE Called({ClearItems(heap, a)})
  <2>1. Sound(ClearItems(heap, a), roots, left)
    BY <1>2, ClearItemsSound
  <2>. QED
    BY <1>6, <2>1 DEF Called, TreeInv
<1>. QED
  BY <1>1, <1>3, <1>4, <1>5, <1>6

LEMMA ObjectCallKeeps ==
  ASSUME TreeInv, ObjectCall
  PROVE  TreeInv'
<1>1. PICK object \in Of("object") :
        \/ \E path \in Paths :
             \/ \E kind \in Scalars : \E new \in New(heap, kind) :
                  Called(WithNew(new, DotSet(new.heap, object, path, new.id)))
             \/ Called({DotRemove(heap, object, path, 1, TRUE).heap})
        \/ Called({ClearItems(heap, object)})
  BY DEF ObjectCall
<1>2. object \in Live(heap) /\ Sound(heap, roots, left) /\ object \in Ids
  BY OfLive, LiveTyped DEF TreeInv
<1>3. ASSUME NEW path \in Paths, NEW kind \in Scalars, NEW new \in New(heap, kind),
             Called(WithNew(new, DotSet(new.heap, object, path, new.id)))
      PROVE  TreeInv'
  <2>. DEFINE os == DotSet(new.heap, object, path, new.id)
  <2>1. kind \in Kinds
    BY DEF Kinds
  <2>2. Passable(new.heap, roots \union {new.id}, left, object, new.id) =>
          \A o \in os : PassedSound(roots \union {new.id}, left, new.id, o)
    BY DotSetPasses
  <2>. HIDE DEF os
  <2>3. \A g \in WithNew(new, os) : Sound(g, roots, left)
    BY <1>2, <2>1, <2>2, WithNewSound
  <2>. QED
    BY <1>3, <2>3, CalledKeeps DEF os
<1>4. ASSUME NEW path \in Paths, Called({DotRemove(heap, object, path, 1, TRUE).heap})
      PROVE  TreeInv'
  <2>1. Sound(DotRemove(heap, object, path, 1, TRUE).heap, roots, left)
    BY <1>2, DotRemoveSound
  <2>. QED
    BY <1>4, <2>1 DEF Called, TreeInv
<1>5. CASE Called({ClearItems(heap, object)})
  <2>1. Sound(ClearItems(heap, object), roots, left)
    BY <1>2, ClearItemsSound
  <2>. QED
    BY <1>5, <2>1 DEF Called, TreeInv
<1>. QED
  BY <1>1, <1>3, <1>4, <1>5

LEMMA NextKeeps == TreeInv /\ [TreeNext]_treeVars => TreeInv'
<1>. SUFFICES ASSUME TreeInv, [TreeNext]_treeVars
              PROVE  TreeInv'
  OBVIOUS
<1>1. CASE UNCHANGED treeVars
  BY <1>1 DEF treeVars, TreeInv
<1>2. CASE TreeNext
  BY <1>2, InitValueKeeps, ParseStringKeeps, DeepCopyKeeps, FreeKeeps, PassToArrayKeeps,
     PassToObjectKeeps, ArrayCallKeeps, ObjectCallKeeps DEF TreeNext
<1>. QED
  BY <1>1, <1>2

-----------------------------------------------------------------------------
(* What the properties say of sound trees.                                 *)

LEMMA SoundOwner ==
  ASSUME TreeInv, NEW v \in Ids
  PROVE  Cardinality(SlotsOf(v)) = IF v \in Live(heap) \ roots THEN 1 ELSE 0
<1>1. Sound(heap, roots, left) /\ heap \in Heaps
  BY DEF TreeInv, Sound
<1>2. SlotsDistinct(heap) /\ MembersHeld(heap, roots)
  BY <1>1 DEF Sound
<1>3. CASE v \in Live(heap) \ roots
  <2>1. PICK c \in Live(heap) : v \in Members(heap, c)
    BY <1>1, <1>3, HasSlot
  <2>2. PICK n \in DOMAIN heap.items[c] : heap.items[c][n].value = v
    BY <2>1 DEF Members
  <2>3. ASSUME NEW d \in Live(heap), NEW m \in DOMAIN heap.items[d], heap.items[d][m].value = v
        PROVE  d = c /\ m = n
    <3>1. c \in Ids /\ d \in Ids
      BY LiveTyped
    <3>. QED
      BY <1>2, <2>2, <2>3, <3>1 DEF SlotsDistinct
  <2>4. SlotsOf(v) \subseteq {<<c, n>>}
    <3>. SUFFICES ASSUME NEW d \in Live(heap),
                         NEW s \in {d} \X {m \in DOMAIN heap.items[d] : heap.items[d][m].value = v}
                  PROVE  s = <<c, n>>
      BY DEF SlotsOf
    <3>1. PICK m \in DOMAIN heap.items[d] : heap.items[d][m].value = v /\ s = <<d, m>>
      OBVIOUS
    <3>. QED
      BY <2>3, <3>1
  <2>5. <<c, n>> \in SlotsOf(v)
    <3>1. <<c, n>> \in {c} \X {m \in DOMAIN heap.items[c] : heap.items[c][m].value = v}
      BY <2>2
    <3>. QED
      BY <3>1 DEF SlotsOf
  <2>. DEFINE slot == <<c, n>>
  <2>6. SlotsOf(v) = {slot}
    BY <2>4, <2>5
  <2>. HIDE DEF slot
  <2>. QED
    BY <1>3, <2>6, FS_Singleton
<1>4. CASE v \notin Live(heap) \ roots
  <2>1. \A c \in Live(heap) : \A n \in DOMAIN heap.items[c] : heap.items[c][n].value # v
    BY <1>2, <1>4, LiveTyped DEF MembersHeld, Members
  <2>2. SlotsOf(v) = {}
    BY <2>1 DEF SlotsOf
  <2>. QED
    BY <1>4, <2>2, FS_EmptySet
<1>. QED
  BY <1>3, <1>4

LEMMA SoundTrees == TreeInv => TreeTypeOK /\ TreesSound /\ NothingLeaks
<1>. SUFFICES ASSUME TreeInv
              PROVE  TreeTypeOK /\ TreesSound /\ NothingLeaks
  OBVIOUS
<1>1. /\ Sound(heap, roots, left) /\ heap \in Heaps
      /\ roots \subseteq Live(heap)
      /\ left = {v \in roots : heap.parent[v] # NULL}
      /\ MembersHeld(heap, roots) /\ NamesDistinct(heap) /\ AllReached(heap, roots)
  BY DEF TreeInv, Sound
<1>2. TreeTypeOK
  BY <1>1 DEF TreeTypeOK, Heaps, Items
<1>3. OneOwner
  BY SoundOwner DEF OneOwner
<1>4. ParentsTrue
  BY <1>1, LiveTyped DEF ParentsTrue, MembersHeld
<1>5. NamesOnce
  BY <1>1, LiveTyped DEF NamesOnce, NamesDistinct, Of
<1>6. NothingLeaks
  <2>1. roots \in SUBSET Ids
    BY <1>1, LiveTyped
  <2>2. /\ roots \subseteq Below(heap)[roots] /\ Below(heap)[roots] \in SUBSET Ids
        /\ Closed(heap, Below(heap)[roots])
    BY <1>1, <2>1, BelowLeast
  <2>3. Live(heap) \subseteq Below(heap)[roots]
    BY <1>1, <2>2 DEF AllReached
  <2>4. Below(heap)[roots] \subseteq Live(heap)
    BY <1>1, BelowLive
  <2>. QED
    BY <2>3, <2>4 DEF NothingLeaks
<1>. QED
  BY <1>2, <1>3, <1>4, <1>5, <1>6 DEF TreesSound

-----------------------------------------------------------------------------
\* Whatever calls the caller makes, and wherever in them memory runs out, the heap
\* is a set of trees whose roots the caller holds.
THEOREM TreeSpecInv == TreeSpec => []TreeInv
<1>. QED
  BY InitSound, NextKeeps, PTL DEF TreeSpec

\* Every value, its parent and its items are of their types; the caller holds live
\* values only.
THEOREM TreeSpecTypeOK == TreeSpec => []TreeTypeOK
BY TreeSpecInv, SoundTrees, PTL

\* Every value has one owner, the caller or one slot of one container, which is its
\* parent, and no object has two members of one name: json_value_free frees nothing
\* twice.
THEOREM TreeSpecSound == TreeSpec => []TreesSound
BY TreeSpecInv, SoundTrees, PTL

\* All that lives can be reached from what the caller holds: no call of parson.c leaks a
\* value when an allocation in the middle of it fails.
THEOREM TreeSpecLeakFree == TreeSpec => []NothingLeaks
BY TreeSpecInv, SoundTrees, PTL
=============================================================================
