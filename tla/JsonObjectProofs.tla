--------------------------- MODULE JsonObjectProofs ---------------------------
(***************************************************************************)
(* The hash table of a JSON object is sound, and the object implements a   *)
(* map from names to values, until json_object_clear: for all sets of      *)
(* names and values, whatever the names hash to, for tables of every size. *)
(*                                                                         *)
(* Cells are counted around the ring.  What keeps a member reachable is    *)
(* Placed: no cell on the way from its home to its cell is empty.  While   *)
(* json_object_remove_internal closes a gap, the gap itself stands for an  *)
(* occupied cell (GapAt), and no item that the loop has come past can only *)
(* be reached across it (ScannedTo).                                       *)
(***************************************************************************)
EXTENDS JsonObject, FiniteSetTheorems, SequenceTheorems, WellFoundedInduction, TLAPS

Ring(N) == 0 .. N - 1

\* How many steps it takes from cell a to cell b of a table of N cells.
Dist(N, a, b) == IF b >= a THEN b - a ELSE b - a + N

\* An item sequence, as far as the table of cells depends on it.
Named(its, m) == \A n \in 1 .. m : its[n].name \in Names

\* The first m items have m names.
NamesDistinct(its, m) ==
  \A n1, n2 \in 1 .. m : its[n1].name = its[n2].name => n1 = n2

\* No cell on the way to cell c from the home of the item in it is empty.
WayOccupied(cs, N, its, c) ==
  \A d \in Ring(N) :
    LET home == HomeCell(its[cs[c] + 1].name, N)
    IN  Dist(N, home, d) <= Dist(N, home, c) => cs[d] # INVALID

\* The cells cs of a table of N cells hold the first m items, each of them once
\* and where a probe for its name finds it.
Placed(cs, N, its, m) ==
  /\ cs \in [Ring(N) -> Nat \union {INVALID}]
  /\ \A c \in Ring(N) : cs[c] # INVALID => cs[c] \in 0 .. m - 1
  /\ \A c1, c2 \in Ring(N) : cs[c1] # INVALID /\ cs[c1] = cs[c2] => c1 = c2
  /\ \A n \in 1 .. m : \E c \in Ring(N) : cs[c] = n - 1
  /\ \A c \in Ring(N) : cs[c] # INVALID => WayOccupied(cs, N, its, c)

-----------------------------------------------------------------------------
(* Arithmetic of the ring.                                                 *)

\* Adding a distance passes the end of the table at most once.
LEMMA AddOnRing ==
  ASSUME NEW N \in Nat \ {0}, NEW a \in Ring(N), NEW d \in 0 .. N
  PROVE  (a + d) % N = IF a + d < N THEN a + d ELSE a + d - N
BY DEF Ring

\* A distance leads back to the cell it was measured to.
LEMMA Distances ==
  ASSUME NEW N \in Nat \ {0}, NEW a \in Ring(N)
  PROVE  /\ \A b \in Ring(N) : Dist(N, a, b) \in Ring(N) /\ (a + Dist(N, a, b)) % N = b
         /\ \A d \in Ring(N) : (a + d) % N \in Ring(N) /\ Dist(N, a, (a + d) % N) = d
<1>1. ASSUME NEW b \in Ring(N)
      PROVE  Dist(N, a, b) \in Ring(N) /\ (a + Dist(N, a, b)) % N = b
  <2>1. Dist(N, a, b) \in 0 .. N
    BY DEF Dist, Ring
  <2>2. (a + Dist(N, a, b)) % N = IF a + Dist(N, a, b) < N THEN a + Dist(N, a, b)
                                  ELSE a + Dist(N, a, b) - N
    BY <2>1, AddOnRing
  <2>. QED
    BY <2>2 DEF Dist, Ring
<1>2. ASSUME NEW d \in Ring(N)
      PROVE  (a + d) % N \in Ring(N) /\ Dist(N, a, (a + d) % N) = d
  <2>1. d \in 0 .. N
    BY DEF Ring
  <2>2. (a + d) % N = IF a + d < N THEN a + d ELSE a + d - N
    BY <2>1, AddOnRing
  <2>. QED
    BY <2>2 DEF Dist, Ring
<1>. QED
  BY <1>1, <1>2

\* The home of a name is a cell.
LEMMA HomeInRing ==
  ASSUME NEW N \in Nat \ {0}, NEW name \in Names
  PROVE  HomeCell(name, N) \in Ring(N)
<1>1. HashOf(name) \in Nat
  BY ObjectAssumption
<1>2. \A a \in Nat : a % N \in 0 .. N - 1
  OBVIOUS
<1>. QED
  BY <1>1, <1>2 DEF HomeCell, Ring

\* What the comparisons of json_object_remove_internal decide: whether the gap g lies on
\* the way from h to c, before c.
LEMMA MayMoveMeaning ==
  ASSUME NEW N \in Nat \ {0}, NEW c \in Ring(N), NEW h \in Ring(N), NEW g \in Ring(N), c # g
  PROVE  MayMove(c, h, g) <=> Dist(N, h, g) < Dist(N, h, c)
BY DEF MayMove, Dist, Ring

\* The next cell is one step further, from everywhere but from itself.
LEMMA NextOnRing ==
  ASSUME NEW N \in Nat \ {0}, NEW c \in Ring(N)
  PROVE  /\ (c + 1) % N \in Ring(N)
         /\ Dist(N, c, c) = 0
         /\ \A a \in Ring(N) : Dist(N, a, c) < N - 1 =>
              Dist(N, a, (c + 1) % N) = Dist(N, a, c) + 1
         /\ \A a \in Ring(N) : a # (c + 1) % N =>
              Dist(N, a, (c + 1) % N) = Dist(N, a, c) + 1
<1>1. (c + 1) % N = IF c + 1 < N THEN c + 1 ELSE c + 1 - N
  <2>. 1 \in 0 .. N
    OBVIOUS
  <2>. QED
    BY AddOnRing
<1>. QED
  BY <1>1 DEF Dist, Ring

\* Two cells with distance 0 are one.
LEMMA DistanceZero ==
  ASSUME NEW N \in Nat \ {0}, NEW a \in Ring(N), NEW b \in Ring(N), Dist(N, a, b) <= 0
  PROVE  a = b
BY DEF Dist, Ring

\* If the way from h to c passes g before c, and c lies behind j as seen from g, then that
\* way passes the cell after j too.
LEMMA WayPassesNext ==
  ASSUME NEW N \in Nat \ {0}, NEW h \in Ring(N), NEW c \in Ring(N), NEW g \in Ring(N),
         NEW j0 \in Ring(N),
         Dist(N, h, g) < Dist(N, h, c), Dist(N, g, j0) < Dist(N, g, c)
  PROVE  Dist(N, h, (j0 + 1) % N) <= Dist(N, h, c)
<1>1. (j0 + 1) % N = IF j0 + 1 < N THEN j0 + 1 ELSE j0 + 1 - N
  <2>. 1 \in 0 .. N
    OBVIOUS
  <2>. QED
    BY AddOnRing
<1>. QED
  BY <1>1 DEF Dist, Ring

-----------------------------------------------------------------------------
(* json_object_get_cell_ix.                                                *)

\* A set of distances that is not empty has a least one.
LEMMA LeastDistance ==
  ASSUME NEW D, D \subseteq Nat, D # {}
  PROVE  \E d \in D : \A e \in D : d <= e
<1>1. PICK d \in D : \A e \in D : ~ (<<e, d>> \in OpToRel(<, Nat))
  BY NatLessThanWellFounded, WFMin
<1>2. \A e \in D : ~(e < d)
  BY <1>1 DEF OpToRel
<1>. QED
  BY <1>2

\* The probe ends at the first cell that stops it, or nowhere.
LEMMA ProbeEnds ==
  ASSUME NEW N \in Nat \ {0}, NEW cs, NEW name \in Names
  PROVE  LET ix   == CellIx(cs, N, name)
             home == HomeCell(name, N)
         IN  \/ /\ ix = INVALID
                /\ \A c \in Ring(N) : ~Stops(cs, c, name)
             \/ /\ ix \in Ring(N)
                /\ Stops(cs, ix, name)
                /\ \A c \in Ring(N) : Dist(N, home, c) < Dist(N, home, ix) => ~Stops(cs, c, name)
<1>. DEFINE home == HomeCell(name, N)
            stops == {d \in 0 .. N - 1 : Stops(cs, Probed(name, N, d), name)}
            first == CHOOSE d \in stops : \A e \in stops : d <= e
<1>1. home \in Ring(N)
  BY HomeInRing
<1>2. \A c \in Ring(N) : Dist(N, home, c) \in 0 .. N - 1 /\ Probed(name, N, Dist(N, home, c)) = c
  BY <1>1, Distances DEF Probed, Ring
<1>3. \A d \in 0 .. N - 1 : Probed(name, N, d) \in Ring(N) /\ Dist(N, home, Probed(name, N, d)) = d
  BY <1>1, Distances DEF Probed, Ring
<1>4. CellIx(cs, N, name) = IF stops = {} THEN INVALID ELSE Probed(name, N, first)
  BY DEF CellIx
<1>5. \A d \in 0 .. N - 1 : d \in stops <=> Stops(cs, Probed(name, N, d), name)
  OBVIOUS
<1>6. stops \subseteq 0 .. N - 1
  OBVIOUS
<1>7. stops # {} => first \in stops /\ \A e \in stops : first <= e
  <2>1. stops \subseteq Nat
    BY <1>6
  <2>2. stops # {} => \E d \in stops : \A e \in stops : d <= e
    BY <2>1, LeastDistance
  <2>. QED
    BY <2>2
<1>. HIDE DEF stops, first, home
<1>8. CASE stops = {}
  BY <1>2, <1>4, <1>5, <1>8 DEF home
<1>9. CASE stops # {}
  <2>1. /\ first \in 0 .. N - 1
        /\ Stops(cs, Probed(name, N, first), name)
        /\ CellIx(cs, N, name) = Probed(name, N, first)
    BY <1>4, <1>5, <1>6, <1>7, <1>9
  <2>2. ASSUME NEW c \in Ring(N), Dist(N, home, c) < first, Stops(cs, c, name)
        PROVE  FALSE
    <3>1. Dist(N, home, c) \in stops
      BY <1>2, <1>5, <2>2
    <3>2. Dist(N, home, c) \in 0 .. N - 1
      BY <1>2 DEF home
    <3>3. first <= Dist(N, home, c)
      BY <1>7, <1>9, <3>1
    <3>. QED
      BY <2>1, <2>2, <3>2, <3>3
  <2>. QED
    BY <1>3, <2>1, <2>2 DEF home
<1>. QED
  BY <1>8, <1>9

\* The cells hold one item less than there are cells: one of them is empty.
LEMMA OneIsEmpty ==
  ASSUME NEW N \in Nat \ {0}, NEW its, NEW m \in Nat, m < N, NEW cs, Placed(cs, N, its, m)
  PROVE  \E c \in Ring(N) : cs[c] = INVALID
<1>. SUFFICES ASSUME \A c \in Ring(N) : cs[c] # INVALID
              PROVE  FALSE
  OBVIOUS
<1>1. cs \in [Ring(N) -> 0 .. m - 1]
  BY DEF Placed
<1>2. /\ IsFiniteSet(0 .. N - 1) /\ Cardinality(0 .. N - 1) = N
      /\ IsFiniteSet(0 .. m - 1) /\ Cardinality(0 .. m - 1) = m
  <2>. 0 \in Int /\ N - 1 \in Int /\ m - 1 \in Int
    OBVIOUS
  <2>1. /\ IsFiniteSet(0 .. N - 1)
        /\ Cardinality(0 .. N - 1) = IF 0 > N - 1 THEN 0 ELSE N - 1 - 0 + 1
    BY FS_Interval, Zenon
  <2>2. /\ IsFiniteSet(0 .. m - 1)
        /\ Cardinality(0 .. m - 1) = IF 0 > m - 1 THEN 0 ELSE m - 1 - 0 + 1
    BY FS_Interval, Zenon
  <2>. QED
    BY <2>1, <2>2
<1>3. \E c1, c2 \in 0 .. N - 1 : c1 # c2 /\ cs[c1] = cs[c2]
  <2>1. Cardinality(0 .. m - 1) < Cardinality(0 .. N - 1)
    BY <1>2
  <2>2. cs \in [0 .. N - 1 -> 0 .. m - 1]
    BY <1>1 DEF Ring
  <2>. DEFINE all == 0 .. N - 1
              indices == 0 .. m - 1
  <2>3. /\ IsFiniteSet(all) /\ IsFiniteSet(indices)
        /\ Cardinality(indices) < Cardinality(all) /\ cs \in [all -> indices]
    BY <1>2, <2>1, <2>2
  <2>. HIDE DEF all, indices
  <2>4. \E c1, c2 \in all : c1 # c2 /\ cs[c1] = cs[c2]
    BY <2>3, FS_PigeonHole
  <2>. QED
    BY <2>4 DEF all
<1>. QED
  BY <1>3 DEF Placed, Ring

\* json_object_get_cell_ix finds the cell of an item by its name, whatever the other
\* names hash to.
LEMMA FindsItem ==
  ASSUME NEW N \in Nat \ {0}, NEW cs, NEW m \in Nat, count \in Nat, m <= count,
         INVALID \notin Nat, Named(items, m), NamesDistinct(items, m), Placed(cs, N, items, m),
         NEW c \in Ring(N), cs[c] # INVALID
  PROVE  CellIx(cs, N, items[cs[c] + 1].name) = c
<1>. DEFINE n    == cs[c] + 1
            name == items[n].name
            home == HomeCell(name, N)
            ix   == CellIx(cs, N, name)
<1>1. n \in 1 .. m /\ cs[c] < count /\ name \in Names
  BY DEF Placed, Named
<1>2. home \in Ring(N)
  BY <1>1, HomeInRing
<1>3. Stops(cs, c, name)
  BY <1>1 DEF Stops
<1>4. \A d \in Ring(N) : Dist(N, home, d) <= Dist(N, home, c) => cs[d] # INVALID
  BY DEF Placed, WayOccupied
<1>5. ASSUME NEW d \in Ring(N), Stops(cs, d, name), cs[d] # INVALID
      PROVE  d = c
  <2>1. cs[d] \in 0 .. m - 1
    BY <1>5 DEF Placed
  <2>2. items[cs[d] + 1].name = items[n].name
    BY <1>5, <2>1 DEF Stops
  <2>3. cs[d] + 1 = n
    BY <1>1, <2>1, <2>2 DEF NamesDistinct
  <2>4. cs[d] = cs[c]
    <3>. cs[c] \in 0 .. m - 1
      BY DEF Placed
    <3>. QED
      BY <2>1, <2>3
  <2>. QED
    BY <1>5, <2>4 DEF Placed
<1>6. ix # INVALID /\ ix \in Ring(N) /\ Stops(cs, ix, name)
  <2>1. INVALID \notin Ring(N)
    BY DEF Ring
  <2>. QED
    BY <1>1, <1>3, <2>1, ProbeEnds, Zenon
<1>7. ~(Dist(N, home, c) < Dist(N, home, ix))
  BY <1>1, <1>3, <1>6, ProbeEnds
<1>8. Dist(N, home, ix) <= Dist(N, home, c)
  <2>1. Dist(N, home, ix) \in Int /\ Dist(N, home, c) \in Int
    BY <1>2, <1>6 DEF Dist, Ring
  <2>. QED
    BY <1>7, <2>1
<1>9. cs[ix] # INVALID
  BY <1>4, <1>6, <1>8
<1>. QED
  BY <1>5, <1>6, <1>9

\* For any other name it finds an empty cell, to which the way is occupied.
LEMMA FindsEmptyCell ==
  ASSUME NEW N \in Nat \ {0}, NEW cs, NEW m \in Nat, m < N, count \in Nat, m <= count,
         INVALID \notin Nat, Placed(cs, N, items, m), NEW name \in Names,
         \A n \in 1 .. m : items[n].name # name
  PROVE  LET ix == CellIx(cs, N, name)
         IN  /\ ix \in Ring(N)
             /\ cs[ix] = INVALID
             /\ \A d \in Ring(N) :
                  Dist(N, HomeCell(name, N), d) < Dist(N, HomeCell(name, N), ix) =>
                    cs[d] # INVALID
<1>1. PICK e \in Ring(N) : cs[e] = INVALID
  BY OneIsEmpty
<1>2. \A c \in Ring(N) : Stops(cs, c, name) <=> cs[c] = INVALID
  <2>. SUFFICES ASSUME NEW c \in Ring(N), cs[c] # INVALID, Stops(cs, c, name)
                PROVE  FALSE
    BY DEF Stops
  <2>1. cs[c] \in 0 .. m - 1
    BY DEF Placed
  <2>2. items[cs[c] + 1].name = name
    BY <2>1 DEF Stops
  <2>. QED
    BY <2>1, <2>2
<1>3. INVALID \notin Ring(N)
  BY DEF Ring
<1>. QED
  BY <1>1, <1>2, <1>3, ProbeEnds

-----------------------------------------------------------------------------
(* Storing an item.                                                        *)

\* Different cells have different distances.
LEMMA DistancesDiffer ==
  ASSUME NEW N \in Nat \ {0}, NEW h \in Ring(N), NEW c \in Ring(N), NEW d \in Ring(N), c # d
  PROVE  Dist(N, h, d) <= Dist(N, h, c) => Dist(N, h, d) < Dist(N, h, c)
BY DEF Dist, Ring

\* One more item, in the first empty cell after its home, is placed, and so are the
\* others still.
LEMMA OneMorePlaced ==
  ASSUME NEW N \in Nat \ {0}, NEW cs, NEW m \in Nat, NEW its, NEW its2, INVALID \notin Nat,
         Placed(cs, N, its, m),
         \A n \in 1 .. m : its2[n].name = its[n].name,
         its2[m + 1].name \in Names,
         NEW ix \in Ring(N), cs[ix] = INVALID,
         \A d \in Ring(N) : Dist(N, HomeCell(its2[m + 1].name, N), d)
                              < Dist(N, HomeCell(its2[m + 1].name, N), ix) => cs[d] # INVALID
  PROVE  Placed([cs EXCEPT ![ix] = m], N, its2, m + 1)
<1>. DEFINE cs2 == [cs EXCEPT ![ix] = m]
<1>1. /\ cs2 \in [Ring(N) -> Nat \union {INVALID}]
      /\ cs2[ix] = m /\ m # INVALID
      /\ \A c \in Ring(N) : c # ix => cs2[c] = cs[c]
  BY DEF Placed
<1>2. \A c \in Ring(N) : cs[c] # INVALID => cs[c] \in 0 .. m - 1 /\ c # ix
  BY DEF Placed
<1>. HIDE DEF cs2
<1>3. ASSUME NEW c \in Ring(N), cs2[c] # INVALID
      PROVE  cs2[c] \in 0 .. m + 1 - 1
  BY <1>1, <1>2, <1>3
<1>4. ASSUME NEW c1 \in Ring(N), NEW c2 \in Ring(N), cs2[c1] # INVALID, cs2[c1] = cs2[c2]
      PROVE  c1 = c2
  <2>1. c1 # ix /\ c2 # ix => c1 = c2
    BY <1>1, <1>4 DEF Placed
  <2>2. \A c \in Ring(N) : c # ix /\ cs2[c] # INVALID => cs2[c] # m
    <3>. SUFFICES ASSUME NEW c \in Ring(N), c # ix, cs2[c] # INVALID
                  PROVE  cs2[c] # m
      OBVIOUS
    <3>1. cs2[c] \in 0 .. m - 1
      BY <1>1, <1>2
    <3>. QED
      BY <3>1
  <2>. QED
    BY <1>1, <1>4, <2>1, <2>2
<1>5. ASSUME NEW n \in 1 .. m + 1
      PROVE  \E c \in Ring(N) : cs2[c] = n - 1
  <2>1. CASE n = m + 1
    BY <1>1, <2>1
  <2>2. CASE n \in 1 .. m
    <3>1. PICK c \in Ring(N) : cs[c] = n - 1
      BY <2>2 DEF Placed
    <3>2. cs[c] # INVALID
      BY <2>2, <3>1
    <3>. QED
      BY <1>1, <1>2, <3>1, <3>2
  <2>. QED
    BY <2>1, <2>2
<1>6. ASSUME NEW c \in Ring(N), cs2[c] # INVALID
      PROVE  WayOccupied(cs2, N, its2, c)
  <2>1. CASE c = ix
    <3>1. HomeCell(its2[m + 1].name, N) \in Ring(N)
      BY HomeInRing
    <3>. DEFINE home == HomeCell(its2[m + 1].name, N)
    <3>2. ASSUME NEW d \in Ring(N), Dist(N, home, d) <= Dist(N, home, ix), d # ix
          PROVE  cs2[d] # INVALID
      <4>1. Dist(N, home, d) < Dist(N, home, ix)
        BY <3>1, <3>2, DistancesDiffer
      <4>. QED
        BY <1>1, <3>2, <4>1
    <3>. QED
      BY <1>1, <2>1, <3>2 DEF WayOccupied
  <2>2. CASE c # ix
    <3>1. /\ cs2[c] = cs[c] /\ cs[c] \in 0 .. m - 1 /\ cs[c] # INVALID
          /\ its2[cs[c] + 1].name = its[cs[c] + 1].name
      <4>1. cs2[c] = cs[c] /\ cs[c] \in 0 .. m - 1 /\ cs[c] # INVALID
        BY <1>1, <1>2, <1>6, <2>2
      <4>2. cs[c] + 1 \in 1 .. m
        BY <4>1
      <4>. QED
        BY <4>1, <4>2
    <3>2. WayOccupied(cs, N, its, c)
      BY <3>1 DEF Placed
    <3>3. \A d \in Ring(N) : cs[d] # INVALID => cs2[d] # INVALID
      BY <1>1
    <3>. QED
      BY <3>1, <3>2, <3>3 DEF WayOccupied
  <2>. QED
    BY <2>1, <2>2
<1>7. Placed(cs2, N, its2, m + 1)
  BY <1>1, <1>3, <1>4, <1>5, <1>6 DEF Placed
<1>. QED
  BY <1>7 DEF cs2

-----------------------------------------------------------------------------
(* Removing an item and closing the gap.                                   *)

\* Cells and items refer to each other.
Linked(cs, N, its) ==
  \A c \in Ring(N) : cs[c] # INVALID => its[cs[c] + 1].cell_ix = c

\* Cell g is a gap: it is still occupied, but its item is gone or in another cell.
\* All others are as they have to be.
GapAt(cs, N, its, m, g) ==
  /\ cs \in [Ring(N) -> Nat \union {INVALID}]
  /\ g \in Ring(N) /\ cs[g] # INVALID
  /\ \A c \in Ring(N) \ {g} : cs[c] # INVALID => cs[c] \in 0 .. m - 1
  /\ \A c \in Ring(N) \ {g} : cs[c] # INVALID => its[cs[c] + 1].cell_ix = c
  /\ \A n \in 1 .. m : \E c \in Ring(N) \ {g} : cs[c] = n - 1
  /\ \A c \in Ring(N) \ {g} : cs[c] # INVALID => WayOccupied(cs, N, its, c)

\* The loop has come from the gap g to cell j0 in a run of occupied cells, and of the
\* items in between none has the gap on its way.
ScannedTo(cs, N, its, g, j0, x0) ==
  /\ j0 \in Ring(N) /\ x0 \in Ring(N)
  /\ Dist(N, g, j0) <= x0
  /\ \A c \in Ring(N) : Dist(N, c, j0) <= x0 => cs[c] # INVALID
  /\ \E c \in Ring(N) : cs[c] = INVALID
  /\ \A c \in Ring(N) \ {g} :
       LET home == HomeCell(its[cs[c] + 1].name, N)
       IN  cs[c] # INVALID /\ Dist(N, g, c) <= Dist(N, g, j0) =>
             ~(Dist(N, home, g) < Dist(N, home, c))

\* The item of cell g goes: the last one of m takes its slot, and its cell is told.
LastTakesSlot(cs, m, its, g, cs2, its2) ==
  /\ \A n \in 1 .. m - 1 : its2[n] = IF n = cs[g] + 1 THEN its[m] ELSE its[n]
  /\ cs2 = IF cs[g] < m - 1 THEN [cs EXCEPT ![its[m].cell_ix] = cs[g]] ELSE cs

\* The cell of an item that goes is the gap.
LEMMA RemovalLeavesGap ==
  ASSUME NEW N \in Nat \ {0}, NEW cs, NEW m \in Nat, m < N, NEW its, NEW its2, NEW cs2,
         INVALID \notin Nat, Placed(cs, N, its, m), Linked(cs, N, its),
         NEW g \in Ring(N), cs[g] # INVALID,
         LastTakesSlot(cs, m, its, g, cs2, its2)
  PROVE  GapAt(cs2, N, its2, m - 1, g) /\ ScannedTo(cs2, N, its2, g, g, 0)
<1>. DEFINE ix == cs[g]
            last == its[m].cell_ix
<1>. USE DEF LastTakesSlot
<1>1. ix \in 0 .. m - 1 /\ m \in 1 .. m
  BY DEF Placed
<1>2. last \in Ring(N) /\ cs[last] = m - 1 /\ cs[last] # INVALID
  <2>1. PICK c \in Ring(N) : cs[c] = m - 1
    BY <1>1 DEF Placed
  <2>2. cs[c] # INVALID /\ cs[c] + 1 = m
    BY <1>1, <2>1
  <2>3. its[cs[c] + 1].cell_ix = c
    BY <2>2 DEF Linked
  <2>. QED
    BY <2>1, <2>2, <2>3
<1>3. \A c \in Ring(N) : cs[c] # INVALID /\ c # g => cs[c] # ix
  BY DEF Placed
<1>4. \A c \in Ring(N) : cs[c] # INVALID /\ c # last => cs[c] \in 0 .. m - 1 /\ cs[c] # m - 1
  BY <1>2 DEF Placed
<1>5. \A c \in Ring(N) : cs2[c] = IF ix < m - 1 /\ c = last THEN ix ELSE cs[c]
  BY <1>2 DEF Placed
<1>6. cs2 \in [Ring(N) -> Nat \union {INVALID}]
  BY <1>1 DEF Placed
<1>7. ix # INVALID /\ \A c \in Ring(N) : cs2[c] = INVALID <=> cs[c] = INVALID
  BY <1>1, <1>2, <1>5
<1>8. ix < m - 1 => last # g
  BY <1>1, <1>2
<1>9. ix = m - 1 => last = g
  BY <1>2 DEF Placed
<1>. HIDE DEF ix, last
<1>10. ASSUME NEW c \in Ring(N) \ {g}, cs2[c] # INVALID
       PROVE  /\ cs2[c] \in 0 .. m - 1 - 1
              /\ cs[c] # INVALID /\ cs[c] \in 0 .. m - 1
              /\ its2[cs2[c] + 1] = its[cs[c] + 1]
  <2>0. cs[c] # INVALID /\ cs[c] \in 0 .. m - 1
    BY <1>7, <1>10 DEF Placed
  <2>1. CASE c = last
    <3>1. ix < m - 1
      BY <1>1, <1>9, <1>10, <2>1
    <3>2. cs2[c] = ix /\ cs[c] = m - 1
      BY <1>2, <1>5, <2>1, <3>1
    <3>3. ix + 1 \in 1 .. m - 1
      BY <1>1, <3>1
    <3>4. its2[ix + 1] = its[m]
      BY <3>3 DEF ix
    <3>. QED
      BY <1>1, <2>0, <3>1, <3>2, <3>4
  <2>2. CASE c # last
    <3>1. cs2[c] = cs[c] /\ cs[c] # m - 1 /\ cs[c] # ix
      BY <1>3, <1>4, <1>5, <1>10, <2>0, <2>2
    <3>2. cs[c] + 1 \in 1 .. m - 1 /\ cs[c] + 1 # ix + 1
      BY <1>1, <2>0, <3>1
    <3>3. its2[cs[c] + 1] = its[cs[c] + 1]
      BY <3>2 DEF ix
    <3>. QED
      BY <2>0, <3>1, <3>2, <3>3
  <2>. QED
    BY <2>1, <2>2
<1>11. ASSUME NEW c \in Ring(N) \ {g}, cs2[c] # INVALID
       PROVE  its2[cs2[c] + 1].cell_ix = c
  BY <1>10, <1>11 DEF Linked
<1>12. ASSUME NEW n \in 1 .. m - 1
       PROVE  \E c \in Ring(N) \ {g} : cs2[c] = n - 1
  <2>1. CASE n - 1 = ix
    <3>1. ix < m - 1
      BY <2>1
    <3>. QED
      BY <1>2, <1>5, <1>8, <2>1, <3>1
  <2>2. CASE n - 1 # ix
    <3>1. n \in 1 .. m /\ n - 1 # m - 1
      OBVIOUS
    <3>2. PICK c \in Ring(N) : cs[c] = n - 1
      BY <3>1 DEF Placed
    <3>3. c # g
      BY <2>2, <3>2 DEF ix
    <3>4. c # last
      BY <1>2, <3>1, <3>2
    <3>. QED
      BY <1>5, <3>2, <3>3, <3>4
  <2>. QED
    BY <2>1, <2>2
<1>13. ASSUME NEW c \in Ring(N) \ {g}, cs2[c] # INVALID
       PROVE  WayOccupied(cs2, N, its2, c)
  <2>1. its2[cs2[c] + 1] = its[cs[c] + 1] /\ WayOccupied(cs, N, its, c)
    BY <1>10, <1>13 DEF Placed
  <2>. QED
    BY <1>7, <2>1 DEF WayOccupied
<1>14. GapAt(cs2, N, its2, m - 1, g)
  BY <1>6, <1>7, <1>10, <1>11, <1>12, <1>13 DEF GapAt, ix
<1>15. ScannedTo(cs2, N, its2, g, g, 0)
  <2>1. \A c \in Ring(N) : Dist(N, c, g) <= 0 => c = g
    BY DistanceZero
  <2>2. \A c \in Ring(N) : Dist(N, g, c) <= Dist(N, g, g) => c = g
    BY NextOnRing, DistanceZero
  <2>3. \E c \in Ring(N) : cs2[c] = INVALID
    BY <1>7, OneIsEmpty
  <2>4. Dist(N, g, g) <= 0 /\ 0 \in Ring(N)
    BY NextOnRing DEF Ring
  <2>5. cs2[g] # INVALID
    BY <1>7 DEF ix
  <2>6. \A c \in Ring(N) : Dist(N, c, g) <= 0 => cs2[c] # INVALID
    BY <2>1, <2>5
  <2>7. ASSUME NEW c \in Ring(N) \ {g}, Dist(N, g, c) <= Dist(N, g, g)
        PROVE  FALSE
    BY <2>2, <2>7
  <2>. QED
    BY <2>3, <2>4, <2>6, <2>7 DEF ScannedTo
<1>. QED
  BY <1>14, <1>15

\* Cell c is the only one the loop comes to when it goes on from j0.
OneFurther(N, g, j0, x0, c) ==
  /\ c \in Ring(N) /\ c # g /\ x0 + 1 \in Ring(N)
  /\ Dist(N, g, c) = Dist(N, g, j0) + 1
  /\ \A d \in Ring(N) : Dist(N, d, c) <= x0 + 1 => d = c \/ Dist(N, d, j0) <= x0
  /\ \A d \in Ring(N) : Dist(N, g, d) <= Dist(N, g, c) =>
       d = c \/ Dist(N, g, d) <= Dist(N, g, j0)

\* The next cell is one the loop has not come to yet.
LEMMA NextIsNew ==
  ASSUME NEW N \in Nat \ {0}, NEW cs, NEW its, NEW g \in Ring(N), NEW j0, NEW x0,
         ScannedTo(cs, N, its, g, j0, x0), x0 < N - 1, NEW c, c = (j0 + 1) % N
  PROVE  OneFurther(N, g, j0, x0, c)
<1>1. j0 \in Ring(N) /\ x0 \in Ring(N) /\ Dist(N, g, j0) <= x0
  BY DEF ScannedTo
<1>2. /\ c \in Ring(N) /\ Dist(N, j0, j0) = 0
      /\ \A a \in Ring(N) : Dist(N, a, j0) < N - 1 => Dist(N, a, c) = Dist(N, a, j0) + 1
      /\ \A a \in Ring(N) : a # c => Dist(N, a, c) = Dist(N, a, j0) + 1
  BY <1>1, NextOnRing
<1>3. \A a, b \in Ring(N) : Dist(N, a, b) \in 0 .. N - 1
  BY DEF Dist, Ring
<1>4. Dist(N, g, j0) \in 0 .. N - 1 /\ x0 \in 0 .. N - 1
  BY <1>1, <1>3 DEF Ring
<1>5. Dist(N, g, c) = Dist(N, g, j0) + 1
  BY <1>1, <1>2, <1>4
<1>6. c # g
  <2>1. Dist(N, g, g) = 0
    BY NextOnRing
  <2>. QED
    BY <1>4, <1>5, <2>1
<1>7. x0 + 1 \in Ring(N)
  BY <1>4 DEF Ring
<1>8. ASSUME NEW d \in Ring(N), Dist(N, d, c) <= x0 + 1, d # c
      PROVE  Dist(N, d, j0) <= x0
  <2>1. Dist(N, d, c) = Dist(N, d, j0) + 1 /\ Dist(N, d, j0) \in 0 .. N - 1
    BY <1>1, <1>2, <1>3, <1>8
  <2>. QED
    BY <1>4, <1>8, <2>1
<1>9. ASSUME NEW d \in Ring(N), Dist(N, g, d) <= Dist(N, g, c), d # c
      PROVE  Dist(N, g, d) <= Dist(N, g, j0)
  <2>1. Dist(N, g, d) < Dist(N, g, c)
    BY <1>2, <1>9, DistancesDiffer
  <2>. QED
    BY <1>3, <1>4, <1>5, <2>1
<1>. QED
  BY <1>2, <1>5, <1>6, <1>7, <1>8, <1>9 DEF OneFurther

\* An item moves into the gap that lies on its way: its cell is the gap.
LEMMA ItemMovesIntoGap ==
  ASSUME NEW N \in Nat \ {0}, NEW cs, NEW m \in Nat, NEW its, NEW its2, NEW g, NEW j0, NEW x0,
         INVALID \notin Nat, GapAt(cs, N, its, m, g), ScannedTo(cs, N, its, g, j0, x0),
         x0 < N - 1, NEW c, c = (j0 + 1) % N, cs[c] # INVALID, Named(its, m),
         Dist(N, HomeCell(its[cs[c] + 1].name, N), g)
           < Dist(N, HomeCell(its[cs[c] + 1].name, N), c),
         \A n \in 1 .. m : /\ its2[n].name = its[n].name
                           /\ its2[n].cell_ix = IF n = cs[c] + 1 THEN g ELSE its[n].cell_ix
  PROVE  LET cs2 == [cs EXCEPT ![g] = cs[c]]
         IN  GapAt(cs2, N, its2, m, c) /\ ScannedTo(cs2, N, its2, c, c, x0 + 1)
<1>. DEFINE cs2 == [cs EXCEPT ![g] = cs[c]]
            home == HomeCell(its[cs[c] + 1].name, N)
<1>1. g \in Ring(N) /\ cs[g] # INVALID
  BY DEF GapAt
<1>2. /\ c \in Ring(N) /\ c # g /\ x0 + 1 \in Ring(N)
      /\ \A d \in Ring(N) : Dist(N, d, c) <= x0 + 1 => d = c \/ Dist(N, d, j0) <= x0
  <2>1. OneFurther(N, g, j0, x0, c)
    BY <1>1, NextIsNew
  <2>. QED
    BY <2>1 DEF OneFurther
<1>3. /\ cs2 \in [Ring(N) -> Nat \union {INVALID}]
      /\ cs2[g] = cs[c]
      /\ \A d \in Ring(N) : d # g => cs2[d] = cs[d]
  BY <1>1, <1>2 DEF GapAt
<1>. HIDE DEF cs2
<1>4. \A d \in Ring(N) : cs2[d] = INVALID <=> cs[d] = INVALID
  BY <1>1, <1>3
<1>5. cs[c] \in 0 .. m - 1 /\ cs[c] + 1 \in 1 .. m
  BY <1>2 DEF GapAt
<1>6. ASSUME NEW d \in Ring(N) \ {c}, cs2[d] # INVALID
      PROVE  /\ cs2[d] \in 0 .. m - 1
             /\ its2[cs2[d] + 1].cell_ix = d
             /\ WayOccupied(cs2, N, its2, d)
  <2>1. CASE d = g
    <3>1. cs2[d] = cs[c] /\ its2[cs[c] + 1].cell_ix = g
      BY <1>3, <1>5, <2>1
    <3>2. its2[cs2[d] + 1].name = its[cs[c] + 1].name
      BY <1>5, <3>1
    <3>3. WayOccupied(cs, N, its, c)
      BY <1>2 DEF GapAt
    <3>4. home \in Ring(N)
      <4>1. its[cs[c] + 1].name \in Names
        BY <1>5 DEF Named
      <4>. QED
        BY <4>1, HomeInRing
    <3>5. ASSUME NEW e \in Ring(N), Dist(N, home, e) <= Dist(N, home, g)
          PROVE  cs2[e] # INVALID
      <4>1. Dist(N, home, e) <= Dist(N, home, c)
        <5>1. \A b \in Ring(N) : Dist(N, home, b) \in Int
          BY <3>4 DEF Dist, Ring
        <5>2. Dist(N, home, g) < Dist(N, home, c)
          OBVIOUS
        <5>. QED
          BY <1>1, <1>2, <3>5, <5>1, <5>2
      <4>. QED
        BY <1>4, <3>3, <4>1 DEF WayOccupied
    <3>. QED
      BY <1>5, <2>1, <3>1, <3>2, <3>5 DEF WayOccupied
  <2>2. CASE d # g
    <3>1. /\ cs2[d] = cs[d] /\ cs[d] # INVALID
          /\ cs[d] \in 0 .. m - 1 /\ its[cs[d] + 1].cell_ix = d /\ WayOccupied(cs, N, its, d)
      BY <1>3, <1>6, <2>2 DEF GapAt
    <3>2. cs[d] # cs[c]
      <4>1. its[cs[c] + 1].cell_ix = c
        BY <1>2 DEF GapAt
      <4>. QED
        BY <1>6, <3>1, <4>1
    <3>3. cs[d] + 1 \in 1 .. m /\ cs[d] + 1 # cs[c] + 1
      BY <1>5, <3>1, <3>2
    <3>4. its2[cs[d] + 1].name = its[cs[d] + 1].name /\ its2[cs[d] + 1].cell_ix = d
      BY <3>1, <3>3
    <3>. QED
      BY <1>4, <3>1, <3>4 DEF WayOccupied
  <2>. QED
    BY <2>1, <2>2
<1>7. ASSUME NEW n \in 1 .. m
      PROVE  \E d \in Ring(N) \ {c} : cs2[d] = n - 1
  <2>1. PICK d \in Ring(N) \ {g} : cs[d] = n - 1
    BY DEF GapAt
  <2>. QED
    BY <1>1, <1>2, <1>3, <2>1
<1>8. GapAt(cs2, N, its2, m, c)
  BY <1>2, <1>3, <1>4, <1>6, <1>7 DEF GapAt
<1>9. ScannedTo(cs2, N, its2, c, c, x0 + 1)
  <2>1. \A d \in Ring(N) : Dist(N, d, c) <= x0 + 1 => cs2[d] # INVALID
    BY <1>2, <1>4 DEF ScannedTo
  <2>2. \E d \in Ring(N) : cs2[d] = INVALID
    BY <1>4 DEF ScannedTo
  <2>3. Dist(N, c, c) <= x0 + 1
    BY <1>2, NextOnRing DEF Ring
  <2>4. ASSUME NEW d \in Ring(N) \ {c}, Dist(N, c, d) <= Dist(N, c, c)
        PROVE  FALSE
    <3>1. Dist(N, c, c) = 0
      BY <1>2, NextOnRing
    <3>. QED
      BY <1>2, <2>4, <3>1, DistanceZero
  <2>. QED
    BY <1>2, <2>1, <2>2, <2>3, <2>4 DEF ScannedTo
<1>. QED
  BY <1>8, <1>9 DEF cs2

\* An item that does not have the gap on its way stays.
LEMMA ItemStays ==
  ASSUME NEW N \in Nat \ {0}, NEW cs, NEW its, NEW g \in Ring(N), NEW j0, NEW x0,
         ScannedTo(cs, N, its, g, j0, x0),
         x0 < N - 1, NEW c, c = (j0 + 1) % N, cs[c] # INVALID,
         ~(Dist(N, HomeCell(its[cs[c] + 1].name, N), g)
             < Dist(N, HomeCell(its[cs[c] + 1].name, N), c))
  PROVE  ScannedTo(cs, N, its, g, c, x0 + 1)
<1>1. /\ c \in Ring(N) /\ c # g /\ x0 + 1 \in Ring(N)
      /\ Dist(N, g, c) = Dist(N, g, j0) + 1
      /\ \A d \in Ring(N) : Dist(N, d, c) <= x0 + 1 => d = c \/ Dist(N, d, j0) <= x0
      /\ \A d \in Ring(N) : Dist(N, g, d) <= Dist(N, g, c) =>
           d = c \/ Dist(N, g, d) <= Dist(N, g, j0)
  <2>1. OneFurther(N, g, j0, x0, c)
    BY NextIsNew
  <2>. QED
    BY <2>1 DEF OneFurther
<1>2. Dist(N, g, c) <= x0 + 1
  <2>1. Dist(N, g, j0) \in Int /\ x0 \in Int /\ Dist(N, g, j0) <= x0
    BY DEF ScannedTo, Dist, Ring
  <2>. QED
    BY <1>1, <2>1
<1>. QED
  BY <1>1, <1>2 DEF ScannedTo

\* When the loop ends at an empty cell, as it must, the gap is on nobody's way and can be
\* emptied.
LEMMA GapClosed ==
  ASSUME NEW N \in Nat \ {0}, NEW cs, NEW m \in Nat, NEW its, NEW g, NEW j0, NEW x0,
         INVALID \notin Nat, GapAt(cs, N, its, m, g), ScannedTo(cs, N, its, g, j0, x0),
         Named(its, m),
         ~(x0 < N - 1 /\ cs[(j0 + 1) % N] # INVALID)
  PROVE  LET cs2 == [cs EXCEPT ![g] = INVALID]
         IN  Placed(cs2, N, its, m) /\ Linked(cs2, N, its)
<1>. DEFINE cs2 == [cs EXCEPT ![g] = INVALID]
            nx  == (j0 + 1) % N
<1>1. g \in Ring(N) /\ j0 \in Ring(N) /\ x0 \in 0 .. N - 1
  BY DEF GapAt, ScannedTo, Ring
<1>2. /\ cs2 \in [Ring(N) -> Nat \union {INVALID}]
      /\ cs2[g] = INVALID
      /\ \A d \in Ring(N) : d # g => cs2[d] = cs[d]
  BY <1>1 DEF GapAt
<1>. HIDE DEF cs2
<1>3. x0 < N - 1
  <2>. SUFFICES ASSUME x0 = N - 1
                PROVE  FALSE
    BY <1>1
  <2>1. \A c \in Ring(N) : Dist(N, c, j0) <= x0
    BY <1>1 DEF Dist, Ring
  <2>. QED
    BY <2>1 DEF ScannedTo
<1>4. cs[nx] = INVALID
  BY <1>3
<1>5. nx \in Ring(N)
  BY <1>1, NextOnRing
<1>6. ASSUME NEW c \in Ring(N) \ {g}, cs[c] # INVALID
      PROVE  /\ WayOccupied(cs2, N, its, c)
             /\ cs[c] \in 0 .. m - 1 /\ its[cs[c] + 1].cell_ix = c
  <2>. DEFINE home == HomeCell(its[cs[c] + 1].name, N)
  <2>1. /\ cs[c] \in 0 .. m - 1 /\ its[cs[c] + 1].cell_ix = c
        /\ WayOccupied(cs, N, its, c)
    BY <1>6 DEF GapAt
  <2>2. its[cs[c] + 1].name \in Names
    BY <2>1 DEF Named
  <2>3. home \in Ring(N)
    BY <2>2, HomeInRing
  <2>. HIDE DEF home
  <2>4. ~(Dist(N, home, g) <= Dist(N, home, c))
    <3>. SUFFICES ASSUME Dist(N, home, g) <= Dist(N, home, c)
                  PROVE  FALSE
      OBVIOUS
    <3>1. Dist(N, home, g) < Dist(N, home, c)
      BY <1>1, <2>3, DistancesDiffer
    <3>2. ~(Dist(N, g, c) <= Dist(N, g, j0))
      BY <1>6, <3>1 DEF ScannedTo, home
    <3>3. Dist(N, g, j0) < Dist(N, g, c)
      <4>1. Dist(N, g, j0) \in Int /\ Dist(N, g, c) \in Int
        BY <1>1 DEF Dist, Ring
      <4>. QED
        BY <3>2, <4>1
    <3>4. Dist(N, home, nx) <= Dist(N, home, c)
      BY <1>1, <2>3, <3>1, <3>3, WayPassesNext
    <3>. QED
      BY <1>4, <1>5, <2>1, <3>4 DEF WayOccupied, home
  <2>5. ASSUME NEW d \in Ring(N), Dist(N, home, d) <= Dist(N, home, c)
        PROVE  cs2[d] # INVALID
    <3>1. d # g
      BY <2>4, <2>5
    <3>2. cs[d] # INVALID
      BY <2>1, <2>5 DEF WayOccupied, home
    <3>. QED
      BY <1>2, <3>1, <3>2
  <2>6. cs2[c] = cs[c]
    BY <1>2
  <2>7. WayOccupied(cs2, N, its, c)
    BY <2>5, <2>6 DEF WayOccupied, home
  <2>. QED
    BY <2>1, <2>7
<1>7. \A c \in Ring(N) : cs2[c] # INVALID => c # g /\ cs2[c] = cs[c] /\ cs[c] # INVALID
  BY <1>2
<1>8. \A n \in 1 .. m : \E c \in Ring(N) : cs2[c] = n - 1
  BY <1>2 DEF GapAt
<1>9. Linked(cs2, N, its)
  BY <1>6, <1>7 DEF Linked
<1>10. Placed(cs2, N, its, m)
  <2>1. \A c \in Ring(N) : cs2[c] # INVALID => cs2[c] \in 0 .. m - 1
    BY <1>6, <1>7
  <2>2. \A c1, c2 \in Ring(N) : cs2[c1] # INVALID /\ cs2[c1] = cs2[c2] => c1 = c2
    BY <1>9 DEF Linked
  <2>3. \A c \in Ring(N) : cs2[c] # INVALID => WayOccupied(cs2, N, its, c)
    BY <1>6, <1>7
  <2>. QED
    BY <1>2, <1>8, <2>1, <2>2, <2>3 DEF Placed
<1>. QED
  BY <1>9, <1>10 DEF cs2

-----------------------------------------------------------------------------
(* The inductive invariant.                                                *)

\* Between two calls, and while the table grows: the cells hold the items.
TableSound ==
  ~cleared /\ at # "shift" =>
    /\ Placed(cells, cell_capacity, items, count)
    /\ Linked(cells, cell_capacity, items)

\* json_object_remove_internal in its loop.
GapSound ==
  ~cleared /\ at = "shift" =>
    /\ GapAt(cells, cell_capacity, items, count, i)
    /\ ScannedTo(cells, cell_capacity, items, i, j, x)

\* json_object_grow_and_rehash in its loop: the new cells hold the items added so far.
RehashSound ==
  IF at = "rehash" THEN /\ Placed(new_cells, NewCapacity, items, k)
                        /\ NamesDistinct(items, k)
                   ELSE k = 0

MembersDistinct == ~cleared => NamesDistinct(items, count)

\* The name to be added is new, and there is room for it when it is stored.
ArgIsNew ==
  /\ ~cleared /\ at \in {"rehash", "store"} => \A n \in 1 .. count : items[n].name # arg.name
  /\ at = "store" => count < ItemCapacity(cell_capacity)

OnlyClearUndefines == undefined => cleared /\ at = "idle"

ObjectInv ==
  /\ ObjectTypeOK
  /\ TableSound /\ GapSound /\ RehashSound
  /\ MembersDistinct /\ ArgIsNew /\ OnlyClearUndefines

-----------------------------------------------------------------------------
(* Lemmas on items and lookups.                                            *)

\* Functions on 1 .. n are sequences.
LEMMA FunctionIsSeq ==
  ASSUME NEW S, NEW n \in Nat, NEW f \in [1 .. n -> S]
  PROVE  f \in Seq(S) /\ Len(f) = n
OBVIOUS

\* Items of a table of N cells.
LEMMA ItemsNamed ==
  ASSUME ObjectTypeOK
  PROVE  /\ Len(items) \in Nat /\ count \in Nat /\ count <= Len(items)
         /\ cell_capacity \in Nat
         /\ INVALID \notin Nat
         /\ \A n \in 1 .. Len(items) : /\ items[n] \in Items
                                       /\ items[n].name \in Names
                                       /\ items[n].value \in Values
                                       /\ items[n].cell_ix \in Ring(cell_capacity)
         /\ \A m \in Nat : m <= Len(items) => Named(items, m)
<1>1. /\ items \in Seq(Items) /\ count \in 0 .. Len(items) /\ cell_capacity \in Nat
      /\ INVALID \notin Nat /\ Len(items) \in Nat
  BY ObjectAssumption DEF ObjectTypeOK
<1>2. ASSUME NEW n \in 1 .. Len(items)
      PROVE  /\ items[n] \in Items /\ items[n].name \in Names /\ items[n].value \in Values
             /\ items[n].cell_ix \in Ring(cell_capacity)
  <2>1. items[n] \in Items
    BY <1>1, ElementOfSeq
  <2>. QED
    BY <2>1 DEF Items, Ring
<1>3. ASSUME NEW m \in Nat, m <= Len(items)
      PROVE  Named(items, m)
  BY <1>1, <1>2, <1>3 DEF Named
<1>. QED
  BY <1>1, <1>2, <1>3

\* What the cells hold depends on the names of the items only.
LEMMA SameNamesPlaced ==
  ASSUME NEW N \in Nat, NEW cs, NEW m \in Nat, NEW its, NEW its2, INVALID \notin Nat,
         Placed(cs, N, its, m), \A n \in 1 .. m : its2[n].name = its[n].name
  PROVE  Placed(cs, N, its2, m)
<1>1. ASSUME NEW c \in Ring(N), cs[c] # INVALID
      PROVE  WayOccupied(cs, N, its2, c)
  <2>1. cs[c] \in 0 .. m - 1 /\ WayOccupied(cs, N, its, c)
    BY <1>1 DEF Placed
  <2>2. cs[c] + 1 \in 1 .. m
    BY <2>1
  <2>3. its2[cs[c] + 1].name = its[cs[c] + 1].name
    BY <2>2
  <2>. QED
    BY <2>1, <2>3 DEF WayOccupied
<1>. QED
  BY <1>1 DEF Placed

\* The capacities.
LEMMA CapacityGrows ==
  ASSUME cell_capacity \in Nat
  PROVE  /\ NewCapacity \in Nat \ {0} /\ cell_capacity <= NewCapacity
         /\ ItemCapacity(cell_capacity) \in 0 .. cell_capacity
         /\ ItemCapacity(cell_capacity) < ItemCapacity(NewCapacity)
         /\ ItemCapacity(cell_capacity) > 0 => ItemCapacity(cell_capacity) < cell_capacity
BY ObjectAssumption DEF NewCapacity, ItemCapacity

\* A name that is found is an item's.
LEMMA FoundMeans ==
  ASSUME ObjectTypeOK, NEW name \in Names, Found(name)
  PROVE  LET ix == CellIx(cells, cell_capacity, name)
         IN  /\ cell_capacity \in Nat \ {0} /\ ix \in Ring(cell_capacity)
             /\ cells[ix] \in 0 .. count - 1 /\ cells[ix] # INVALID
             /\ items[cells[ix] + 1].name = name
<1>. DEFINE ix == CellIx(cells, cell_capacity, name)
<1>1. ix # INVALID /\ cells[ix] # INVALID /\ cells[ix] < count
  BY DEF Found
<1>2. cell_capacity \in Nat /\ count \in Nat
  BY DEF ObjectTypeOK
<1>3. cell_capacity # 0
  BY <1>1 DEF CellIx
<1>4. ix \in Ring(cell_capacity) /\ Stops(cells, ix, name)
  BY <1>1, <1>2, <1>3, ProbeEnds, Zenon
<1>5. cells[ix] \in Nat
  BY <1>1, <1>4 DEF ObjectTypeOK, Ring
<1>6. items[cells[ix] + 1].name = name
  BY <1>1, <1>4 DEF Stops
<1>. QED
  BY <1>1, <1>2, <1>3, <1>4, <1>5, <1>6

\* In a sound table every item is found under its name, in its cell.
LEMMA ItemsFound ==
  ASSUME ObjectTypeOK, MembersDistinct, ~cleared, Placed(cells, cell_capacity, items, count),
         NEW n \in 1 .. count
  PROVE  Found(items[n].name) /\ ItemIx(items[n].name) = n - 1
<1>1. /\ count \in Nat /\ INVALID \notin Nat /\ cell_capacity \in Nat
      /\ Named(items, count) /\ NamesDistinct(items, count)
  BY ItemsNamed DEF MembersDistinct
<1>2. PICK c \in Ring(cell_capacity) : cells[c] = n - 1
  BY DEF Placed
<1>3. cell_capacity \in Nat \ {0} /\ cells[c] # INVALID /\ cells[c] < count /\ cells[c] + 1 = n
  BY <1>1, <1>2 DEF Ring
<1>4. CellIx(cells, cell_capacity, items[cells[c] + 1].name) = c
  BY <1>1, <1>2, <1>3, FindsItem
<1>5. c # INVALID
  BY <1>1, <1>2 DEF Ring
<1>. QED
  BY <1>2, <1>3, <1>4, <1>5 DEF Found, ItemIx

\* And no probe comes to a slot behind the last one.
LEMMA NoStaleReads ==
  ASSUME ObjectTypeOK, Placed(cells, cell_capacity, items, count), NEW name \in Names
  PROVE  ~ReadsStale(name)
<1>. DEFINE ix == CellIx(cells, cell_capacity, name)
<1>. SUFFICES ASSUME ix # INVALID, cells[ix] # INVALID, cells[ix] >= count
              PROVE  FALSE
  BY DEF ReadsStale
<1>2. cell_capacity \in Nat /\ count \in Nat
  BY DEF ObjectTypeOK
<1>3. cell_capacity # 0
  BY DEF CellIx
<1>4. ix \in Ring(cell_capacity)
  BY <1>2, <1>3, ProbeEnds, Zenon
<1>5. cells[ix] \in 0 .. count - 1
  BY <1>4 DEF Placed
<1>. QED
  BY <1>2, <1>5

-----------------------------------------------------------------------------
(* Every step keeps the invariant.                                         *)

\* The new object has no members.
LEMMA ObjectInvInit == ObjectInit => ObjectInv
<1>. SUFFICES ASSUME ObjectInit
              PROVE  ObjectInv
  OBVIOUS
<1>. USE DEF ObjectInit
<1>1. ObjectTypeOK
  <2>1. cells \in [0 .. cell_capacity - 1 -> Nat \union {INVALID}]
    BY DEF NoCells
  <2>2. items \in Seq(Items) /\ count \in 0 .. Len(items) /\ count = Len(items)
    BY EmptySeq
  <2>3. ItemCapacity(cell_capacity) = 0
    BY DEF ItemCapacity
  <2>4. k \in 0 .. count /\ {i, j, x} \subseteq Nat /\ cell_capacity \in Nat
    OBVIOUS
  <2>5. count <= ItemCapacity(cell_capacity)
    BY <2>3
  <2>6. at = "idle" /\ undefined \in BOOLEAN /\ cleared \in BOOLEAN
    OBVIOUS
  <2>. QED
    BY ONLY <2>1, <2>2, <2>4, <2>5, <2>6 DEF ObjectTypeOK
<1>2. TableSound
  <2>1. Ring(cell_capacity) = {}
    BY DEF Ring
  <2>2. cells \in [Ring(cell_capacity) -> Nat \union {INVALID}]
    BY <2>1 DEF NoCells
  <2>. QED
    BY <2>1, <2>2 DEF TableSound, Placed, Linked
<1>3. MembersDistinct
  BY DEF MembersDistinct, NamesDistinct
<1>. QED
  BY <1>1, <1>2, <1>3
    DEF ObjectInv, GapSound, RehashSound, ArgIsNew, OnlyClearUndefines

\* Only after json_object_clear a call reads a name that has been freed.
LEMMA ReadStaleKeeps ==
  ASSUME ObjectInv, NEW name \in Names, ReadStale(name)
  PROVE  ObjectInv'
<1>. USE DEF ObjectInv, ReadStale, loopVars
<1>1. cleared
  BY NoStaleReads DEF Ready, TableSound
<1>2. ObjectTypeOK'
  BY DEF ObjectTypeOK, Items, NewCapacity
<1>. QED
  BY <1>1, <1>2
    DEF Ready, TableSound, GapSound, RehashSound, MembersDistinct, ArgIsNew, OnlyClearUndefines

\* A value is replaced.
LEMMA SetFoundKeeps ==
  ASSUME ObjectInv, NEW name \in Names, NEW value \in Values, SetFound(name, value)
  PROVE  ObjectInv'
<1>. USE DEF ObjectInv
<1>. DEFINE q == ItemIx(name) + 1
            new == [items[q] EXCEPT !.value = value]
<1>1. /\ Ready /\ Found(name)
      /\ items' = [items EXCEPT ![q].value = value]
      /\ UNCHANGED <<cells, cell_capacity, count, undefined, cleared, at, arg, new_cells, k,
                     i, j, x>>
  BY DEF SetFound, loopVars
<1>2. q \in 1 .. count /\ q \in 1 .. Len(items)
  BY <1>1, FoundMeans, ItemsNamed DEF ItemIx
<1>3. items \in Seq(Items) /\ new \in Items
  BY <1>2, ItemsNamed DEF ObjectTypeOK, Items
<1>4. items' = [items EXCEPT ![q] = new]
  BY <1>1
<1>5. /\ items' \in Seq(Items) /\ Len(items') = Len(items)
      /\ \A n \in 1 .. Len(items) : items'[n] = IF n = q THEN new ELSE items[n]
  BY <1>2, <1>3, <1>4, ExceptSeq
<1>6. \A n \in 1 .. Len(items) : /\ items'[n].name = items[n].name
                                 /\ items'[n].cell_ix = items[n].cell_ix
  BY <1>2, <1>3, <1>5, ItemsNamed DEF Items
<1>7. ObjectTypeOK'
  BY <1>1, <1>5 DEF ObjectTypeOK, Items, NewCapacity, Ready
<1>8. TableSound'
  <2>. SUFFICES ASSUME ~cleared
                PROVE  Placed(cells, cell_capacity, items', count)
                         /\ Linked(cells, cell_capacity, items')
    BY <1>1 DEF TableSound
  <2>1. Placed(cells, cell_capacity, items, count) /\ Linked(cells, cell_capacity, items)
    BY <1>1 DEF TableSound, Ready
  <2>2. \A n \in 1 .. count : items'[n].name = items[n].name
    BY <1>6, ItemsNamed
  <2>3. Placed(cells, cell_capacity, items', count)
    BY <2>1, <2>2, ItemsNamed, SameNamesPlaced
  <2>4. \A c \in Ring(cell_capacity) : cells[c] # INVALID => cells[c] + 1 \in 1 .. Len(items)
    BY <2>1, ItemsNamed DEF Placed
  <2>. QED
    BY <1>6, <2>1, <2>3, <2>4 DEF Linked
<1>9. MembersDistinct'
  BY <1>1, <1>6, ItemsNamed DEF MembersDistinct, NamesDistinct
<1>. QED
  BY <1>1, <1>7, <1>8, <1>9 DEF Ready, GapSound, RehashSound, ArgIsNew, OnlyClearUndefines

\* Slot m + 1 of a sequence is overwritten, or added behind its m elements.
WithSlot(s, m, e) == SubSeq(s, 1, m) \o <<e>> \o SubSeq(s, m + 2, Len(s))

\* All other slots keep their elements.
LEMMA SlotWritten ==
  ASSUME NEW S, NEW s \in Seq(S), NEW m \in Nat, m <= Len(s), NEW e \in S
  PROVE  /\ WithSlot(s, m, e) \in Seq(S)
         /\ Len(WithSlot(s, m, e)) = IF m < Len(s) THEN Len(s) ELSE m + 1
         /\ WithSlot(s, m, e)[m + 1] = e
         /\ \A n \in 1 .. m : WithSlot(s, m, e)[n] = s[n]
<1>. DEFINE head  == SubSeq(s, 1, m)
            tail  == SubSeq(s, m + 2, Len(s))
            front == head \o <<e>>
            L     == Len(s)
<1>1. L \in Nat /\ \A n \in 1 .. L : s[n] \in S
  BY ElementOfSeq
<1>2. head \in Seq(S) /\ Len(head) = m /\ \A n \in 1 .. m : head[n] = s[n]
  BY <1>1, SubSeqProperties
<1>3. /\ tail \in Seq(S) /\ Len(tail) \in Nat
      /\ Len(tail) = IF m + 2 <= L THEN L - (m + 2) + 1 ELSE 0
  BY <1>1, SubSeqProperties
<1>4. <<e>> \in Seq(S) /\ Len(<<e>>) = 1 /\ <<e>>[1] = e
  OBVIOUS
<1>. HIDE DEF head, tail
<1>5. /\ front \in Seq(S) /\ Len(front) = m + 1
      /\ \A n \in 1 .. m : front[n] = s[n]
      /\ front[m + 1] = e
  BY <1>2, <1>4, ConcatProperties
<1>. HIDE DEF front
<1>6. /\ front \o tail \in Seq(S) /\ Len(front \o tail) = m + 1 + Len(tail)
      /\ \A n \in 1 .. m + 1 : (front \o tail)[n] = front[n]
  <2>1. /\ front \o tail \in Seq(S) /\ Len(front \o tail) = Len(front) + Len(tail)
        /\ \A n \in 1 .. Len(front) + Len(tail) :
             (front \o tail)[n] = IF n <= Len(front) THEN front[n] ELSE tail[n - Len(front)]
    BY <1>3, <1>5, ConcatProperties
  <2>. QED
    BY ONLY <2>1, <1>3, <1>5, m \in Nat
<1>7. Len(front \o tail) = IF m < L THEN L ELSE m + 1
  <2>. HIDE DEF L
  <2>1. m <= L
    BY DEF L
  <2>. QED
    BY <1>1, <1>3, <1>6, <2>1
<1>8. /\ (front \o tail)[m + 1] = e
      /\ \A n \in 1 .. m : (front \o tail)[n] = s[n]
  BY <1>5, <1>6
<1>9. front \o tail = WithSlot(s, m, e)
  BY DEF front, head, tail, WithSlot
<1>. QED
  BY <1>6, <1>7, <1>8, <1>9 DEF L

\* The stores at the end of json_object_add and json_object_set_value.
LEMMA StoreItemKeeps ==
  ASSUME ObjectInv, NEW name \in Names, NEW value \in Values, ~undefined,
         at # "shift", count < ItemCapacity(cell_capacity),
         ~cleared => \A n \in 1 .. count : items[n].name # name,
         StoreItem(cells, cell_capacity, name, value), UNCHANGED <<cell_capacity, cleared>>,
         at' = "idle", k' = 0, {i', j', x'} \subseteq Nat
  PROVE  ObjectInv'
<1>. USE DEF ObjectInv
<1>. DEFINE ix   == CellIx(cells, cell_capacity, name)
            new  == [name |-> name, value |-> value, cell_ix |-> ix]
<1>1. /\ Len(items) \in Nat /\ count \in Nat /\ count <= Len(items) /\ INVALID \notin Nat
      /\ cell_capacity \in Nat \ {0} /\ count < cell_capacity
      /\ items \in Seq(Items)
  <2>1. ItemCapacity(cell_capacity) \in 0 .. cell_capacity /\ cell_capacity \in Nat
    BY CapacityGrows DEF ObjectTypeOK
  <2>. QED
    BY <2>1, ItemsNamed DEF ObjectTypeOK
<1>2. CASE ix = INVALID
  <2>1. undefined' = TRUE /\ cells' = cells /\ items' = items /\ count' = count
    BY <1>2 DEF StoreItem
  <2>2. cleared
    <3>. SUFFICES ASSUME ~cleared
                  PROVE  FALSE
      OBVIOUS
    <3>1. Placed(cells, cell_capacity, items, count)
      BY DEF TableSound
    <3>2. ix \in Ring(cell_capacity)
      BY <1>1, <3>1, FindsEmptyCell
    <3>. QED
      BY <1>1, <1>2, <3>2 DEF Ring
  <2>3. ObjectTypeOK'
    BY <1>1, <2>1 DEF ObjectTypeOK, Items
  <2>. QED
    BY <2>1, <2>2, <2>3
      DEF TableSound, GapSound, RehashSound, MembersDistinct, ArgIsNew, OnlyClearUndefines
<1>3. CASE ix # INVALID
  <2>1. /\ cells' = [cells EXCEPT ![ix] = count]
        /\ items' = WithSlot(items, count, new)
        /\ count' = count + 1
        /\ undefined' = undefined
    <3>1. ItemCapacity(cell_capacity) \in Nat
      BY <1>1, CapacityGrows
    <3>2. ~(count >= ItemCapacity(cell_capacity))
      BY <1>1, <3>1
    <3>. QED
      BY <1>3, <3>2 DEF StoreItem, WithSlot
  <2>2. ix \in Ring(cell_capacity)
    BY <1>1, <1>3, ProbeEnds, Zenon
  <2>3. new \in Items
    BY <2>2 DEF Items, Ring
  <2>. HIDE DEF new
  <2>4. /\ items' \in Seq(Items)
        /\ Len(items') = IF count < Len(items) THEN Len(items) ELSE count + 1
        /\ items'[count + 1] = new
        /\ \A n \in 1 .. count : items'[n] = items[n]
    <3>1. items \in Seq(Items) /\ count \in Nat /\ count <= Len(items)
      BY <1>1
    <3>2. /\ WithSlot(items, count, new) \in Seq(Items)
          /\ Len(WithSlot(items, count, new)) = IF count < Len(items) THEN Len(items) ELSE count + 1
          /\ WithSlot(items, count, new)[count + 1] = new
          /\ \A n \in 1 .. count : WithSlot(items, count, new)[n] = items[n]
      BY ONLY <2>3, <3>1, SlotWritten
    <3>. QED
      BY <2>1, <3>2
  <2>5. cells' \in [Ring(cell_capacity) -> Nat \union {INVALID}]
    BY <1>1, <2>1 DEF ObjectTypeOK, Ring
  <2>6. ObjectTypeOK'
    <3>1. count' \in 0 .. Len(items') /\ (count' = Len(items') \/ cleared')
      <4>1. count = Len(items) \/ cleared
        BY DEF ObjectTypeOK
      <4>2. /\ Len(items') = IF count < Len(items) THEN Len(items) ELSE count + 1
            /\ count' = count + 1 /\ cleared' = cleared
            /\ Len(items) \in Nat /\ count \in Nat /\ count <= Len(items)
        BY <1>1, <2>1, <2>4
      <4>. QED
        BY ONLY <4>1, <4>2
    <3>2. count' <= ItemCapacity(cell_capacity')
      BY <1>1, <2>1, CapacityGrows
    <3>3. k' \in 0 .. count'
      BY <1>1, <2>1
    <3>. QED
      BY <2>1, <2>4, <2>5, <3>1, <3>2, <3>3 DEF ObjectTypeOK, Items, Ring
  <2>7. ASSUME ~cleared
         PROVE  /\ Placed(cells', cell_capacity, items', count + 1)
                /\ Linked(cells', cell_capacity, items')
                /\ NamesDistinct(items', count + 1)
    <3>1. /\ Placed(cells, cell_capacity, items, count)
          /\ Linked(cells, cell_capacity, items)
          /\ NamesDistinct(items, count)
      BY <2>7 DEF TableSound, MembersDistinct
    <3>2. /\ cells[ix] = INVALID
          /\ \A d \in Ring(cell_capacity) :
               Dist(cell_capacity, HomeCell(name, cell_capacity), d)
                 < Dist(cell_capacity, HomeCell(name, cell_capacity), ix) => cells[d] # INVALID
      BY <1>1, <2>7, <3>1, FindsEmptyCell
    <3>3. /\ \A n \in 1 .. count : items'[n].name = items[n].name
          /\ items'[count + 1].name = name /\ items'[count + 1].cell_ix = ix
      BY <2>4 DEF new
    <3>4. Placed(cells', cell_capacity, items', count + 1)
      BY <1>1, <2>1, <2>2, <3>1, <3>2, <3>3, OneMorePlaced
    <3>5. ASSUME NEW c \in Ring(cell_capacity), cells'[c] # INVALID
          PROVE  items'[cells'[c] + 1].cell_ix = c
      <4>1. CASE c = ix
        BY <2>1, <2>5, <3>3, <4>1 DEF ObjectTypeOK, Ring
      <4>2. CASE c # ix
        <5>1. cells'[c] = cells[c] /\ cells[c] # INVALID
          BY <2>1, <3>5, <4>2 DEF ObjectTypeOK, Ring
        <5>2. cells[c] \in 0 .. count - 1 /\ items[cells[c] + 1].cell_ix = c
          BY <3>1, <5>1 DEF Placed, Linked
        <5>3. cells[c] + 1 \in 1 .. count
          BY <1>1, <5>2
        <5>. QED
          BY <2>4, <5>1, <5>2, <5>3
      <4>. QED
        BY <4>1, <4>2
    <3>6. NamesDistinct(items', count + 1)
      <4>1. ASSUME NEW n \in 1 .. count + 1, n # count + 1
            PROVE  /\ n \in 1 .. count
                   /\ items'[n].name = items[n].name
                   /\ items[n].name # name
        <5>1. n \in 1 .. count
          BY <1>1, <4>1
        <5>. QED
          BY <2>7, <3>3, <5>1
      <4>. QED
        BY <3>1, <3>3, <4>1 DEF NamesDistinct
    <3>. QED
      BY <3>4, <3>5, <3>6 DEF Linked
  <2>. QED
    BY <2>1, <2>6, <2>7
      DEF TableSound, GapSound, RehashSound, MembersDistinct, ArgIsNew, OnlyClearUndefines
<1>. QED
  BY <1>2, <1>3

\* A name that is not found is no item's.
LEMMA NewNameIsNew ==
  ASSUME ObjectInv, NEW name \in Names, NewName(name), ~cleared
  PROVE  \A n \in 1 .. count : items[n].name # name
BY ItemsFound DEF ObjectInv, NewName, Ready, TableSound

\* A new member, and room for it.
LEMMA StoreNewKeeps ==
  ASSUME ObjectInv, NEW name \in Names, NEW value \in Values, StoreNew(name, value)
  PROVE  ObjectInv'
<1>1. /\ NewName(name) /\ HasRoom /\ StoreItem(cells, cell_capacity, name, value)
      /\ UNCHANGED <<cell_capacity, cleared, at, arg, new_cells, k, i, j, x>>
      /\ at = "idle" /\ ~undefined
  BY DEF StoreNew, loopVars, NewName, Ready
<1>2. ~cleared => \A n \in 1 .. count : items[n].name # name
  BY <1>1, NewNameIsNew
<1>3. k' = 0 /\ {i', j', x'} \subseteq Nat
  BY <1>1 DEF ObjectInv, ObjectTypeOK, RehashSound
<1>. QED
  BY <1>1, <1>2, <1>3, StoreItemKeeps DEF HasRoom

\* The growth begins.
LEMMA GrowBeginKeeps ==
  ASSUME ObjectInv, NEW name \in Names, NEW value \in Values, NEW copies \in BOOLEAN,
         GrowBegin(name, value, copies)
  PROVE  ObjectInv'
<1>. USE DEF ObjectInv
<1>1. /\ NewName(name) /\ at = "idle" /\ ~undefined /\ at' = "rehash"
      /\ arg' = [name |-> name, value |-> value, copies |-> copies]
      /\ new_cells' = [c \in 0 .. NewCapacity - 1 |-> INVALID] /\ k' = 0
      /\ UNCHANGED <<cells, cell_capacity, items, count, i, j, x, undefined, cleared>>
  BY DEF GrowBegin, NewName, Ready
<1>2. NewCapacity' = NewCapacity /\ NewCapacity \in Nat \ {0}
  BY <1>1, CapacityGrows DEF NewCapacity, ObjectTypeOK
<1>3. ObjectTypeOK'
  <2>1. new_cells' \in [0 .. NewCapacity' - 1 -> Nat \union {INVALID}]
    BY <1>1, <1>2
  <2>2. arg' \in [name : Names, value : Values, copies : BOOLEAN]
    BY <1>1
  <2>3. k' \in 0 .. count'
    BY <1>1, ItemsNamed
  <2>. QED
    BY <1>1, <2>1, <2>2, <2>3 DEF ObjectTypeOK, Items
<1>4. RehashSound'
  <2>1. Placed(new_cells', NewCapacity, items, 0)
    <3>1. \A c \in Ring(NewCapacity) : new_cells'[c] = INVALID
      BY <1>1 DEF Ring
    <3>2. new_cells' \in [Ring(NewCapacity) -> Nat \union {INVALID}]
      BY <1>1 DEF Ring
    <3>. QED
      BY <3>1, <3>2 DEF Placed
  <2>2. NamesDistinct(items, 0)
    BY DEF NamesDistinct
  <2>. QED
    BY <1>1, <1>2, <2>1, <2>2 DEF RehashSound
<1>5. ArgIsNew'
  BY <1>1, NewNameIsNew DEF ArgIsNew
<1>. QED
  BY <1>1, <1>3, <1>4, <1>5 DEF TableSound, GapSound, MembersDistinct, OnlyClearUndefines

\* An item is added to the new object; if its name is there already, the growth fails.
LEMMA GrowItemKeeps ==
  ASSUME ObjectInv, GrowItem
  PROVE  ObjectInv'
<1>. USE DEF ObjectInv
<1>. DEFINE name == items[k + 1].name
            ix   == CellIx(new_cells, NewCapacity, name)
<1>1. /\ at = "rehash" /\ k < count
      /\ UNCHANGED <<cells, cell_capacity, items, count, undefined, cleared>>
  BY DEF GrowItem
<1>2. /\ NewCapacity' = NewCapacity /\ NewCapacity \in Nat \ {0} /\ k < NewCapacity
      /\ k \in Nat /\ count \in Nat /\ k + 1 \in 1 .. count /\ INVALID \notin Nat
      /\ name \in Names
  <2>1. NewCapacity' = NewCapacity
    BY <1>1 DEF NewCapacity
  <2>2. k \in Nat /\ count \in Nat /\ k + 1 \in 1 .. count /\ k + 1 \in 1 .. Len(items)
        /\ INVALID \notin Nat
    BY <1>1, ItemsNamed DEF ObjectTypeOK
  <2>3. count <= ItemCapacity(cell_capacity) /\ cell_capacity \in Nat
    BY <1>1 DEF ObjectTypeOK, OnlyClearUndefines
  <2>4. /\ NewCapacity \in Nat \ {0} /\ cell_capacity <= NewCapacity
        /\ ItemCapacity(cell_capacity) \in 0 .. cell_capacity
    BY <2>3, CapacityGrows
  <2>5. k < NewCapacity
    BY <1>1, <2>2, <2>3, <2>4
  <2>6. name \in Names
    BY <2>2, ItemsNamed
  <2>. QED
    BY <2>1, <2>2, <2>4, <2>5, <2>6
<1>3. Placed(new_cells, NewCapacity, items, k) /\ NamesDistinct(items, k)
  BY <1>1 DEF RehashSound
<1>4. CASE new_cells[ix] = INVALID
  <2>1. /\ new_cells' = [new_cells EXCEPT ![ix] = k] /\ k' = k + 1
        /\ UNCHANGED <<at, arg, i, j, x>>
    BY <1>4 DEF GrowItem
  <2>2. \A n \in 1 .. k : items[n].name # name
    <3>. SUFFICES ASSUME NEW n \in 1 .. k, items[n].name = name
                  PROVE  FALSE
      OBVIOUS
    <3>1. PICK c \in Ring(NewCapacity) : new_cells[c] = n - 1
      BY <1>3 DEF Placed
    <3>2. new_cells[c] # INVALID /\ new_cells[c] + 1 = n
      BY <1>2, <3>1
    <3>3. Named(items, k)
      BY <1>1, <1>2, ItemsNamed
    <3>4. k <= count
      BY <1>1, <1>2
    <3>5. CellIx(new_cells, NewCapacity, items[new_cells[c] + 1].name) = c
      BY <1>2, <1>3, <3>2, <3>3, <3>4, FindsItem
    <3>6. ix = c
      BY <3>2, <3>5
    <3>. QED
      BY <1>4, <3>2, <3>6
  <2>3. /\ ix \in Ring(NewCapacity)
        /\ \A d \in Ring(NewCapacity) :
             Dist(NewCapacity, HomeCell(name, NewCapacity), d)
               < Dist(NewCapacity, HomeCell(name, NewCapacity), ix) => new_cells[d] # INVALID
    <3>1. k <= count
      BY <1>1, <1>2
    <3>. QED
      BY <1>2, <1>3, <2>2, <3>1, FindsEmptyCell
  <2>4. Placed(new_cells', NewCapacity, items, k + 1)
    BY <1>2, <1>3, <1>4, <2>1, <2>3, OneMorePlaced
  <2>5. NamesDistinct(items, k + 1)
    <3>1. ASSUME NEW n \in 1 .. k + 1, n # k + 1
          PROVE  n \in 1 .. k /\ items[n].name # name
      <4>1. n \in 1 .. k
        BY <1>2, <3>1
      <4>. QED
        BY <2>2, <4>1
    <3>. QED
      BY <1>3, <3>1 DEF NamesDistinct
  <2>6. ObjectTypeOK'
    <3>1. new_cells' \in [0 .. NewCapacity' - 1 -> Nat \union {INVALID}]
      BY <1>2, <2>4 DEF Placed, Ring
    <3>2. k' \in 0 .. count'
      BY <1>1, <1>2, <2>1
    <3>. QED
      BY <1>1, <2>1, <3>1, <3>2 DEF ObjectTypeOK, Items
  <2>. QED
    BY <1>1, <1>2, <2>1, <2>4, <2>5, <2>6
      DEF TableSound, GapSound, RehashSound, MembersDistinct, ArgIsNew, OnlyClearUndefines
<1>5. CASE new_cells[ix] # INVALID
  <2>1. Return
    BY <1>5 DEF GrowItem
  <2>2. ObjectTypeOK'
    <3>1. k' \in 0 .. count' /\ {i', j', x'} \subseteq Nat
      BY <1>1, <1>2, <2>1 DEF Return
    <3>. QED
      BY <1>1, <2>1, <3>1 DEF ObjectTypeOK, Items, Return
  <2>. QED
    BY <1>1, <2>1, <2>2
      DEF Return, TableSound, GapSound, RehashSound, MembersDistinct, ArgIsNew,
          OnlyClearUndefines
<1>. QED
  BY <1>4, <1>5

\* The new arrays take the place of the old ones.
LEMMA GrowEndKeeps ==
  ASSUME ObjectInv, GrowEnd
  PROVE  ObjectInv'
<1>. USE DEF ObjectInv
<1>1. /\ at = "rehash" /\ k = count /\ cells' = new_cells /\ cell_capacity' = NewCapacity
      /\ items' = [n \in 1 .. count |->
           [items[n] EXCEPT !.cell_ix = CellIx(new_cells, NewCapacity, items[n].name)]]
      /\ at' = "store" /\ k' = 0
      /\ UNCHANGED <<count, arg, i, j, x, undefined, cleared>>
  BY DEF GrowEnd
<1>2. /\ NewCapacity \in Nat \ {0} /\ count \in Nat /\ INVALID \notin Nat
      /\ Named(items, count) /\ count <= Len(items)
      /\ \A n \in 1 .. count : n \in 1 .. Len(items)
      /\ cell_capacity \in Nat
  BY ItemsNamed, CapacityGrows
<1>3. /\ Placed(new_cells, NewCapacity, items, count) /\ NamesDistinct(items, count)
  BY <1>1 DEF RehashSound
<1>4. ASSUME NEW c \in Ring(NewCapacity), new_cells[c] # INVALID
      PROVE  CellIx(new_cells, NewCapacity, items[new_cells[c] + 1].name) = c
  BY <1>2, <1>3, <1>4, FindsItem
<1>5. ASSUME NEW n \in 1 .. count
      PROVE  /\ items'[n].name = items[n].name /\ items'[n].value = items[n].value
             /\ items'[n].cell_ix = CellIx(new_cells, NewCapacity, items[n].name)
             /\ items'[n] \in [name : Names, value : Values, cell_ix : 0 .. NewCapacity - 1]
  <2>1. /\ items[n] \in Items
        /\ items'[n] = [items[n] EXCEPT !.cell_ix =
                          CellIx(new_cells, NewCapacity, items[n].name)]
    BY <1>1, <1>2, ItemsNamed
  <2>2. PICK c \in Ring(NewCapacity) : new_cells[c] = n - 1
    BY <1>3 DEF Placed
  <2>3. new_cells[c] # INVALID /\ new_cells[c] + 1 = n
    BY <1>2, <2>2
  <2>4. CellIx(new_cells, NewCapacity, items[n].name) = c
    BY <1>4, <2>3
  <2>. QED
    BY <2>1, <2>4 DEF Items, Ring
<1>6. items' \in Seq(Items)' /\ Len(items') = count
  <2>. DEFINE T == [name : Names, value : Values, cell_ix : 0 .. NewCapacity - 1]
  <2>1. items' \in [1 .. count -> T]
    BY <1>1, <1>5
  <2>2. items' \in Seq(T) /\ Len(items') = count
    BY <1>2, <2>1, FunctionIsSeq
  <2>. QED
    BY <1>1, <2>2 DEF Items
<1>7. count < ItemCapacity(NewCapacity) /\ ItemCapacity(NewCapacity) \in Int
  <2>1. count <= ItemCapacity(cell_capacity)
    BY <1>1 DEF ObjectTypeOK, OnlyClearUndefines
  <2>2. ItemCapacity(NewCapacity) \in Int
    BY <1>2 DEF ItemCapacity
  <2>. QED
    BY <1>2, <2>1, <2>2, CapacityGrows
<1>8. ObjectTypeOK'
  <2>1. cells' \in [0 .. cell_capacity' - 1 -> Nat \union {INVALID}]
    BY <1>1, <1>3 DEF Placed, Ring
  <2>2. count' \in 0 .. Len(items') /\ count' = Len(items') /\ k' \in 0 .. count'
    BY <1>1, <1>2, <1>6
  <2>3. count' <= ItemCapacity(cell_capacity')
    BY <1>1, <1>2, <1>7
  <2>. QED
    BY <1>1, <1>2, <1>6, <2>1, <2>2, <2>3 DEF ObjectTypeOK
<1>9. Placed(new_cells, NewCapacity, items', count)
  BY <1>2, <1>3, <1>5, SameNamesPlaced
<1>10. Linked(new_cells, NewCapacity, items')
  <2>. SUFFICES ASSUME NEW c \in Ring(NewCapacity), new_cells[c] # INVALID
                PROVE  items'[new_cells[c] + 1].cell_ix = c
    BY DEF Linked
  <2>1. new_cells[c] + 1 \in 1 .. count
    BY <1>2, <1>3 DEF Placed
  <2>. QED
    BY <1>4, <1>5, <2>1
<1>11. NamesDistinct(items', count)
  BY <1>3, <1>5 DEF NamesDistinct
<1>12. ArgIsNew'
  BY <1>1, <1>5, <1>7 DEF ArgIsNew
<1>. QED
  BY <1>1, <1>8, <1>9, <1>10, <1>11, <1>12
    DEF TableSound, GapSound, RehashSound, MembersDistinct, OnlyClearUndefines

\* The name is stored in the table that has grown.
LEMMA GrownStoreKeeps ==
  ASSUME ObjectInv, GrownStore
  PROVE  ObjectInv'
<1>1. /\ at = "store" /\ StoreItem(cells, cell_capacity, arg.name, arg.value)
      /\ Return /\ UNCHANGED <<cell_capacity, cleared>>
  BY DEF GrownStore
<1>2. /\ arg.name \in Names /\ arg.value \in Values /\ ~undefined
      /\ count < ItemCapacity(cell_capacity)
      /\ ~cleared => \A n \in 1 .. count : items[n].name # arg.name
  BY <1>1 DEF ObjectInv, ObjectTypeOK, ArgIsNew, OnlyClearUndefines
<1>3. k' = 0 /\ {i', j', x'} \subseteq Nat
  BY <1>1, ItemsNamed DEF Return, ObjectInv
<1>. QED
  BY <1>1, <1>2, <1>3, StoreItemKeeps DEF Return

\* The name cannot be copied.
LEMMA CopyFailsKeeps ==
  ASSUME ObjectInv, CopyFails
  PROVE  ObjectInv'
<1>. USE DEF ObjectInv
<1>1. /\ at = "store" /\ Return
      /\ UNCHANGED <<cells, cell_capacity, items, count, undefined, cleared>>
  BY DEF CopyFails
<1>2. ObjectTypeOK'
  <2>1. k' \in 0 .. count' /\ {i', j', x'} \subseteq Nat
    BY <1>1, ItemsNamed DEF Return
  <2>. QED
    BY <1>1, <2>1 DEF ObjectTypeOK, Items, Return
<1>. QED
  BY <1>1, <1>2
    DEF Return, TableSound, GapSound, RehashSound, MembersDistinct, ArgIsNew, OnlyClearUndefines

\* The slots when an item has gone and the last one has taken its slot.
LEMMA TakenSlots ==
  ASSUME ObjectTypeOK, NEW ix \in 0 .. count - 1
  PROVE  /\ Taken(ix, items[count]) \in Seq(Items)
         /\ Len(Taken(ix, items[count])) = IF cleared THEN Len(items) ELSE Len(items) - 1
         /\ \A n \in 1 .. count - 1 :
              Taken(ix, items[count])[n] = IF n = ix + 1 THEN items[count] ELSE items[n]
<1>. DEFINE last  == items[count]
            moved == [items EXCEPT ![ix + 1] = last]
<1>1. /\ count \in 1 .. Len(items) /\ Len(items) \in Nat
      /\ ix + 1 \in 1 .. Len(items) /\ items \in Seq(Items) /\ count \in Nat
      /\ ~cleared => count = Len(items)
  BY ItemsNamed DEF ObjectTypeOK
<1>2. last \in Items
  BY <1>1, ItemsNamed
<1>3. /\ moved \in Seq(Items) /\ Len(moved) = Len(items)
      /\ \A n \in 1 .. Len(items) : moved[n] = IF n = ix + 1 THEN last ELSE items[n]
  BY <1>1, <1>2, ExceptSeq
<1>. HIDE DEF moved
<1>4. CASE cleared
  <2>1. Taken(ix, last) = moved
    BY <1>4 DEF Taken, moved
  <2>2. \A n \in 1 .. count - 1 : n \in 1 .. Len(items)
    BY <1>1
  <2>. QED
    BY <1>3, <1>4, <2>1, <2>2
<1>5. CASE ~cleared
  <2>1. Taken(ix, last) = SubSeq(moved, 1, Len(moved) - 1)
    BY <1>5 DEF Taken, moved, Front
  <2>2. \A n \in 1 .. Len(moved) - 1 : moved[n] \in Items
    <3>1. \A n \in 1 .. Len(moved) - 1 : n \in 1 .. Len(moved)
      BY <1>1, <1>3
    <3>. QED
      BY <1>3, <3>1, ElementOfSeq
  <2>3. Len(moved) \in Nat /\ Len(moved) = count /\ count >= 1
    BY <1>1, <1>3, <1>5
  <2>4. /\ Taken(ix, last) \in Seq(Items)
        /\ Len(Taken(ix, last)) = IF 1 <= Len(moved) - 1 THEN Len(moved) - 1 - 1 + 1 ELSE 0
        /\ \A n \in 1 .. Len(moved) - 1 - 1 + 1 : Taken(ix, last)[n] = moved[1 + n - 1]
    BY <2>1, <2>2, <2>3, SubSeqProperties
  <2>5. /\ Len(Taken(ix, last)) = count - 1
        /\ \A n \in 1 .. count - 1 : Taken(ix, last)[n] = moved[n]
    BY ONLY <2>3, <2>4
  <2>. QED
    BY <1>1, <1>3, <1>5, <2>4, <2>5
<1>. QED
  BY <1>4, <1>5

\* An item goes, and the last one takes its slot.
LEMMA RemoveItemKeeps ==
  ASSUME ObjectInv, NEW name \in Names, RemoveItem(name)
  PROVE  ObjectInv'
<1>. USE DEF ObjectInv
<1>. DEFINE cell == CellIx(cells, cell_capacity, name)
            ix   == cells[cell]
            last == items[count]
<1>1. /\ at = "idle" /\ ~undefined /\ Found(name)
      /\ items' = Taken(ix, last) /\ count' = count - 1
      /\ cells' = IF ix < count - 1 THEN [cells EXCEPT ![last.cell_ix] = ix] ELSE cells
      /\ at' = "shift" /\ i' = cell /\ j' = cell /\ x' = 0
      /\ UNCHANGED <<cell_capacity, arg, new_cells, k, undefined, cleared>>
  BY DEF RemoveItem, Ready
<1>2. /\ cell_capacity \in Nat \ {0} /\ cell \in Ring(cell_capacity)
      /\ ix \in 0 .. count - 1 /\ ix # INVALID
  BY <1>1, FoundMeans
<1>3. /\ count \in 1 .. Len(items) /\ Len(items) \in Nat /\ INVALID \notin Nat
      /\ ix + 1 \in 1 .. Len(items) /\ items \in Seq(Items) /\ count \in Nat
      /\ ~cleared => count = Len(items)
  BY <1>2, ItemsNamed, SMTT(30) DEF ObjectTypeOK
<1>4. last \in Items /\ last.cell_ix \in Ring(cell_capacity)
  BY <1>3, ItemsNamed
<1>5. /\ items' \in Seq(Items)
      /\ Len(items') = IF cleared THEN Len(items) ELSE Len(items) - 1
      /\ \A n \in 1 .. count - 1 : items'[n] = IF n = ix + 1 THEN last ELSE items[n]
  BY <1>1, <1>2, TakenSlots
<1>. HIDE DEF cell, ix, last
<1>6. cells' \in [Ring(cell_capacity) -> Nat \union {INVALID}]
  BY <1>1, <1>2, <1>3, <1>4 DEF ObjectTypeOK, Ring
<1>7. ObjectTypeOK'
  <2>1. /\ count' \in 0 .. Len(items') /\ (count' = Len(items') \/ cleared')
        /\ count' <= ItemCapacity(cell_capacity') /\ k' \in 0 .. count'
    <3>1. k \in 0 .. count /\ count <= ItemCapacity(cell_capacity)
          /\ ItemCapacity(cell_capacity) \in Int
      BY <1>1, <1>2 DEF ObjectTypeOK, ItemCapacity
    <3>2. k = 0
      BY <1>1 DEF RehashSound
    <3>. QED
      BY <1>1, <1>3, <1>5, <3>1, <3>2
  <2>2. {i', j', x'} \subseteq Nat /\ {i', j'} \subseteq 0 .. cell_capacity' - 1
    BY <1>1, <1>2 DEF Ring
  <2>3. items' \in Seq(Items)'
    BY <1>1, <1>5 DEF Items
  <2>4. cells' \in [0 .. cell_capacity' - 1 -> Nat \union {INVALID}]
    BY <1>1, <1>6 DEF Ring
  <2>5. cell_capacity' \in Nat /\ undefined' \in BOOLEAN /\ cleared' \in BOOLEAN
    BY <1>1, <1>2 DEF ObjectTypeOK
  <2>6. at' = "shift"
    BY <1>1
  <2>. QED
    BY ONLY <2>1, <2>2, <2>3, <2>4, <2>5, <2>6 DEF ObjectTypeOK
<1>8. ASSUME ~cleared
      PROVE  /\ GapAt(cells', cell_capacity, items', count - 1, cell)
             /\ ScannedTo(cells', cell_capacity, items', cell, cell, 0)
  <2>1. /\ Placed(cells, cell_capacity, items, count)
        /\ Linked(cells, cell_capacity, items)
    BY <1>1, <1>8 DEF TableSound
  <2>2. count < cell_capacity
    BY <1>1, <1>2, <1>3, CapacityGrows DEF ObjectTypeOK
  <2>3. LastTakesSlot(cells, count, items, cell, cells', items')
    <3>1. \A n \in 1 .. count - 1 :
            items'[n] = IF n = cells[cell] + 1 THEN items[count] ELSE items[n]
      BY <1>5 DEF ix, last
    <3>2. cells' = IF cells[cell] < count - 1
                   THEN [cells EXCEPT ![items[count].cell_ix] = cells[cell]] ELSE cells
      BY <1>1 DEF ix, last
    <3>. QED
      BY <3>1, <3>2 DEF LastTakesSlot
  <2>4. cells[cell] # INVALID
    BY <1>2 DEF ix
  <2>. QED
    BY <1>2, <1>3, <2>1, <2>2, <2>3, <2>4, RemovalLeavesGap
<1>9. MembersDistinct'
  <2>. SUFFICES ASSUME ~cleared,
                       NEW n1 \in 1 .. count - 1, NEW n2 \in 1 .. count - 1,
                       items'[n1].name = items'[n2].name
                PROVE  n1 = n2
    BY <1>1 DEF MembersDistinct, NamesDistinct
  <2>1. NamesDistinct(items, count)
    BY DEF MembersDistinct
  <2>2. n1 \in 1 .. count /\ n2 \in 1 .. count /\ n1 # count /\ n2 # count /\ count \in 1 .. count
    BY <1>3
  <2>. QED
    BY <1>5, <2>1, <2>2 DEF NamesDistinct, last
<1>. QED
  BY <1>1, <1>7, <1>8, <1>9
    DEF TableSound, GapSound, RehashSound, ArgIsNew, OnlyClearUndefines

\* One iteration of the loop that closes the gap.
LEMMA ShiftKeeps ==
  ASSUME ObjectInv, Shift
  PROVE  ObjectInv'
<1>. USE DEF ObjectInv
<1>. DEFINE c    == NextCell(j)
            q    == cells[c] + 1
            home == HomeCell(items[q].name, cell_capacity)
            new  == [items[q] EXCEPT !.cell_ix = i]
<1>1. /\ at = "shift" /\ x < cell_capacity - 1 /\ cells[c] # INVALID
      /\ j' = c /\ x' = x + 1
      /\ UNCHANGED <<cell_capacity, count, at, arg, new_cells, k, undefined, cleared>>
  BY DEF Shift, ShiftGoesOn
<1>2. /\ i \in Ring(cell_capacity) /\ j \in Ring(cell_capacity) /\ x \in Nat
      /\ cell_capacity \in Nat \ {0} /\ ~undefined
  BY <1>1 DEF ObjectTypeOK, Ring, OnlyClearUndefines
<1>3. c = (j + 1) % cell_capacity /\ c \in Ring(cell_capacity)
  BY <1>2, NextOnRing DEF NextCell
<1>4. cells \in [Ring(cell_capacity) -> Nat \union {INVALID}] /\ cells[c] \in Nat /\ q \in Nat
  BY <1>1, <1>3 DEF ObjectTypeOK, Ring
<1>5. ~cleared => /\ GapAt(cells, cell_capacity, items, count, i)
                  /\ ScannedTo(cells, cell_capacity, items, i, j, x)
                  /\ Named(items, count) /\ count \in Nat /\ INVALID \notin Nat
  BY <1>1, ItemsNamed DEF GapSound
<1>6. ~cleared => c # i /\ q \in 1 .. count /\ items[q].name \in Names
  <2>. SUFFICES ASSUME ~cleared
                PROVE  c # i /\ q \in 1 .. count /\ items[q].name \in Names
    OBVIOUS
  <2>1. OneFurther(cell_capacity, i, j, x, c)
    BY <1>1, <1>2, <1>3, <1>5, NextIsNew
  <2>2. c # i
    BY <2>1 DEF OneFurther
  <2>3. q \in 1 .. count
    BY <1>1, <1>3, <1>5, <2>2 DEF GapAt
  <2>. QED
    BY <1>5, <2>2, <2>3 DEF Named
<1>. HIDE DEF c, q
<1>7. CASE MayMove(c, home, i)
  <2>1. /\ items' = [items EXCEPT ![q].cell_ix = i]
        /\ cells' = [cells EXCEPT ![i] = cells[c]]
        /\ i' = c
    BY <1>7 DEF Shift, c, q
  <2>2. /\ items' \in Seq(Items) /\ Len(items') = Len(items)
        /\ q \in 1 .. Len(items) =>
             \A n \in 1 .. Len(items) : items'[n] = IF n = q THEN new ELSE items[n]
    <3>1. items \in Seq(Items)
      BY DEF ObjectTypeOK
    <3>2. CASE q \in 1 .. Len(items)
      <4>1. new \in Items
        BY <1>2, <3>2, ItemsNamed DEF Items, Ring
      <4>2. items' = [items EXCEPT ![q] = new]
        BY <2>1
      <4>. HIDE DEF new
      <4>. QED
        BY <3>1, <3>2, <4>1, <4>2, ExceptSeq
    <3>3. CASE q \notin 1 .. Len(items)
      <4>1. items' = items
        BY <2>1, <3>1, <3>3
      <4>. QED
        BY <3>1, <3>3, <4>1
    <3>. QED
      BY <3>2, <3>3
  <2>3. cells' \in [Ring(cell_capacity) -> Nat \union {INVALID}]
    BY <1>2, <1>4, <2>1
  <2>4. ObjectTypeOK'
    <3>1. items' \in Seq(Items)'
      BY <1>1, <2>2 DEF Items
    <3>2. cells' \in [0 .. cell_capacity' - 1 -> Nat \union {INVALID}]
      BY <1>1, <2>3 DEF Ring
    <3>3. {i', j', x'} \subseteq Nat /\ {i', j'} \subseteq 0 .. cell_capacity' - 1
      BY <1>1, <1>2, <1>3, <2>1 DEF Ring
    <3>4. /\ count' \in 0 .. Len(items') /\ (count' = Len(items') \/ cleared')
          /\ (count' <= ItemCapacity(cell_capacity') \/ undefined') /\ k' \in 0 .. count'
          /\ undefined' \in BOOLEAN /\ cleared' \in BOOLEAN /\ cell_capacity' \in Nat
      BY <1>1, <2>2 DEF ObjectTypeOK
    <3>5. at' = "shift"
      BY <1>1
    <3>. QED
      BY ONLY <3>1, <3>2, <3>3, <3>4, <3>5 DEF ObjectTypeOK
  <2>5. ASSUME ~cleared
        PROVE  /\ GapAt(cells', cell_capacity, items', count, c)
               /\ ScannedTo(cells', cell_capacity, items', c, c, x + 1)
               /\ NamesDistinct(items', count)
    <3>1. home \in Ring(cell_capacity)
      BY <1>2, <1>6, <2>5, HomeInRing
    <3>2. Dist(cell_capacity, home, i) < Dist(cell_capacity, home, c)
      BY <1>2, <1>3, <1>6, <1>7, <2>5, <3>1, MayMoveMeaning
    <3>3. \A n \in 1 .. count : n \in 1 .. Len(items)
      BY ItemsNamed
    <3>4. items[q] \in Items /\ new.name = items[q].name /\ new.cell_ix = i
      BY <1>6, <2>5, <3>3, ItemsNamed DEF Items
    <3>. HIDE DEF new
    <3>5. \A n \in 1 .. count :
            /\ items'[n].name = items[n].name
            /\ items'[n].cell_ix = IF n = q THEN i ELSE items[n].cell_ix
      BY <1>6, <2>2, <2>5, <3>3, <3>4
    <3>6. /\ GapAt(cells', cell_capacity, items', count, c)
          /\ ScannedTo(cells', cell_capacity, items', c, c, x + 1)
      BY <1>1, <1>2, <1>3, <1>5, <2>1, <2>5, <3>2, <3>5, ItemMovesIntoGap DEF q
    <3>7. NamesDistinct(items', count)
      BY <2>5, <3>5 DEF MembersDistinct, NamesDistinct
    <3>. QED
      BY <3>6, <3>7
  <2>. QED
    BY <1>1, <1>2, <2>1, <2>4, <2>5
      DEF TableSound, GapSound, RehashSound, MembersDistinct, ArgIsNew, OnlyClearUndefines
<1>8. CASE ~MayMove(c, home, i)
  <2>1. UNCHANGED <<cells, items, i>>
    BY <1>8 DEF Shift, c, q
  <2>2. ObjectTypeOK'
    BY <1>1, <1>2, <1>3, <2>1 DEF ObjectTypeOK, Items, Ring
  <2>3. ASSUME ~cleared
        PROVE  ScannedTo(cells, cell_capacity, items, i, c, x + 1)
    <3>1. home \in Ring(cell_capacity)
      BY <1>2, <1>6, <2>3, HomeInRing
    <3>2. ~(Dist(cell_capacity, home, i) < Dist(cell_capacity, home, c))
      BY <1>2, <1>3, <1>6, <1>8, <2>3, <3>1, MayMoveMeaning
    <3>. QED
      BY <1>1, <1>2, <1>3, <1>5, <2>3, <3>2, ItemStays DEF q
  <2>. QED
    BY <1>1, <1>2, <1>5, <2>1, <2>2, <2>3
      DEF TableSound, GapSound, RehashSound, MembersDistinct, ArgIsNew, OnlyClearUndefines
<1>. QED
  BY <1>7, <1>8

\* The gap is emptied.
LEMMA ShiftEndKeeps ==
  ASSUME ObjectInv, ShiftEnd
  PROVE  ObjectInv'
<1>. USE DEF ObjectInv
<1>1. /\ at = "shift" /\ ~ShiftGoesOn /\ cells' = [cells EXCEPT ![i] = INVALID] /\ Return
      /\ UNCHANGED <<cell_capacity, items, count, undefined, cleared>>
  BY DEF ShiftEnd
<1>2. /\ i \in Ring(cell_capacity) /\ cell_capacity \in Nat \ {0} /\ ~undefined
      /\ count \in Nat /\ INVALID \notin Nat /\ Named(items, count)
  <2>1. i \in Ring(cell_capacity) /\ cell_capacity \in Nat \ {0}
    BY <1>1 DEF ObjectTypeOK, Ring
  <2>2. ~undefined
    BY <1>1 DEF OnlyClearUndefines
  <2>. QED
    BY <2>1, <2>2, ItemsNamed
<1>3. ObjectTypeOK'
  <2>1. cells' \in [0 .. cell_capacity - 1 -> Nat \union {INVALID}]
    BY <1>1, <1>2 DEF ObjectTypeOK, Ring
  <2>2. k' \in 0 .. count' /\ {i', j', x'} \subseteq Nat
    BY <1>1, <1>2 DEF Return
  <2>. QED
    BY <1>1, <2>1, <2>2 DEF ObjectTypeOK, Items, Return
<1>4. ASSUME ~cleared
      PROVE  /\ Placed(cells', cell_capacity, items, count)
             /\ Linked(cells', cell_capacity, items)
  <2>1. /\ GapAt(cells, cell_capacity, items, count, i)
        /\ ScannedTo(cells, cell_capacity, items, i, j, x)
    BY <1>1, <1>4 DEF GapSound
  <2>2. ~(x < cell_capacity - 1 /\ cells[(j + 1) % cell_capacity] # INVALID)
    BY <1>1 DEF ShiftGoesOn, NextCell
  <2>. QED
    BY <1>1, <1>2, <2>1, <2>2, GapClosed
<1>. QED
  BY <1>1, <1>3, <1>4
    DEF Return, TableSound, GapSound, RehashSound, MembersDistinct, ArgIsNew,
        OnlyClearUndefines

\* json_object_clear: nothing is promised any more.
LEMMA ClearKeeps ==
  ASSUME ObjectInv, Clear
  PROVE  ObjectInv'
<1>. USE DEF ObjectInv
<1>1. /\ at = "idle" /\ count' = 0 /\ cleared' = TRUE /\ ~undefined
      /\ UNCHANGED <<cells, cell_capacity, items, undefined, at, arg, new_cells, k, i, j, x>>
  BY DEF Clear, Ready, loopVars
<1>2. ObjectTypeOK'
  <2>1. count' \in 0 .. Len(items') /\ count' <= ItemCapacity(cell_capacity')
    BY <1>1, ItemsNamed, CapacityGrows
  <2>2. k' \in 0 .. count'
    BY <1>1 DEF RehashSound
  <2>. QED
    BY <1>1, <2>1, <2>2 DEF ObjectTypeOK, Items, NewCapacity
<1>. QED
  BY <1>1, <1>2
    DEF TableSound, GapSound, RehashSound, MembersDistinct, ArgIsNew, OnlyClearUndefines

\* Every step of the object.
LEMMA ObjectInvNext == ObjectInv /\ [ObjectNext]_objectVars => ObjectInv'
<1>. SUFFICES ASSUME ObjectInv, [ObjectNext]_objectVars
              PROVE  ObjectInv'
  OBVIOUS
<1>1. ASSUME NEW name \in Names, ReadStale(name)
      PROVE  ObjectInv'
  BY <1>1, ReadStaleKeeps
<1>2. ASSUME NEW name \in Names, RemoveItem(name)
      PROVE  ObjectInv'
  BY <1>2, RemoveItemKeeps
<1>3. ASSUME NEW name \in Names, NEW value \in Values, SetFound(name, value)
      PROVE  ObjectInv'
  BY <1>3, SetFoundKeeps
<1>4. ASSUME NEW name \in Names, NEW value \in Values, StoreNew(name, value)
      PROVE  ObjectInv'
  BY <1>4, StoreNewKeeps
<1>5. ASSUME NEW name \in Names, NEW value \in Values, NEW copies \in BOOLEAN,
             GrowBegin(name, value, copies)
      PROVE  ObjectInv'
  BY <1>5, GrowBeginKeeps
<1>6. CASE GrowItem
  BY <1>6, GrowItemKeeps
<1>7. CASE GrowEnd
  BY <1>7, GrowEndKeeps
<1>8. CASE GrownStore
  BY <1>8, GrownStoreKeeps
<1>9. CASE CopyFails
  BY <1>9, CopyFailsKeeps
<1>10. CASE Shift
  BY <1>10, ShiftKeeps
<1>11. CASE ShiftEnd
  BY <1>11, ShiftEndKeeps
<1>12. CASE Clear
  BY <1>12, ClearKeeps
<1>13. CASE UNCHANGED objectVars
  BY <1>13
    DEF objectVars, ObjectInv, ObjectTypeOK, Items, NewCapacity, TableSound, GapSound,
        RehashSound, MembersDistinct, ArgIsNew, OnlyClearUndefines
<1>. HIDE DEF ObjectInv
<1>. QED
  BY <1>1, <1>2, <1>3, <1>4, <1>5, <1>6, <1>7, <1>8, <1>9, <1>10, <1>11, <1>12, <1>13
    DEF ObjectNext

-----------------------------------------------------------------------------
(* What the hash table is for.                                             *)

\* The inductive invariant holds in every state of every object (parson.c:402-687).
THEOREM ObjectInvariant == ObjectSpec => []ObjectInv
BY ObjectInvInit, ObjectInvNext, PTL DEF ObjectSpec

\* The variables keep their types; in particular there are never more members than
\* the arrays have room for, and a gap lies in the table (parson.c:485-682).
THEOREM ObjectTypeCorrect == ObjectSpec => []ObjectTypeOK
<1>1. ObjectInv => ObjectTypeOK
  BY DEF ObjectInv
<1>. QED
  BY <1>1, ObjectInvariant, PTL

\* Until json_object_clear, cells and items refer to each other, every member can be
\* reached from its home cell whatever was removed before and however often the table
\* has grown, and nothing is stored outside the arrays (parson.c:485-682).
THEOREM HashTableStaysSound == ObjectSpec => []HashTableSound
<1>1. ASSUME ObjectInv
      PROVE  HashTableSound
  <2>. USE <1>1 DEF ObjectInv
  <2>1. ASSUME at \in {"idle", "store"}, ~cleared
        PROVE  /\ Placed(cells, cell_capacity, items, count)
               /\ Linked(cells, cell_capacity, items)
    BY <2>1 DEF TableSound
  <2>2. CellsMatchItems
    <3>. SUFFICES ASSUME at \in {"idle", "store"}, ~cleared,
                         NEW c \in Ring(cell_capacity)
                  PROVE  /\ cells[c] # INVALID =>
                              cells[c] < count /\ items[cells[c] + 1].cell_ix = c
                         /\ \A n \in 1 .. count : items[n].cell_ix = c => cells[c] = n - 1
      BY DEF CellsMatchItems, Ring
    <3>1. cells[c] # INVALID => cells[c] < count /\ items[cells[c] + 1].cell_ix = c
      BY <2>1, ItemsNamed DEF Placed, Linked
    <3>2. ASSUME NEW n \in 1 .. count, items[n].cell_ix = c
          PROVE  cells[c] = n - 1
      <4>1. PICK d \in Ring(cell_capacity) : cells[d] = n - 1
        BY <2>1 DEF Placed
      <4>2. cells[d] # INVALID /\ cells[d] + 1 = n
        BY <4>1, ItemsNamed
      <4>3. items[n].cell_ix = d
        BY <2>1, <4>2 DEF Linked
      <4>. QED
        BY <3>2, <4>1, <4>3
    <3>. QED
      BY <3>1, <3>2
  <2>3. MembersFound
    BY <2>1, ItemsFound DEF MembersFound
  <2>4. StoresInArrays
    BY DEF OnlyClearUndefines, StoresInArrays
  <2>. QED
    BY <2>2, <2>3, <2>4 DEF HashTableSound
<1>. QED
  BY <1>1, ObjectInvariant, PTL

-----------------------------------------------------------------------------
(* The refinement.                                                         *)

\* The map that the first m items stand for.
PairsOf(its, m) ==
  [name \in {its[n].name : n \in 1 .. m} |->
     its[CHOOSE n \in 1 .. m : its[n].name = name].value]

\* A function is the map of the items when it has their names and their values.
IsMapOf(f, its, m) ==
  /\ f = [name \in DOMAIN f |-> f[name]]
  /\ DOMAIN f = {its[n].name : n \in 1 .. m}
  /\ \A n \in 1 .. m : f[its[n].name] = its[n].value

\* There is only one such function.
LEMMA OneMap ==
  ASSUME NEW its, NEW m \in Nat, NamesDistinct(its, m)
  PROVE  /\ IsMapOf(PairsOf(its, m), its, m)
         /\ \A f : IsMapOf(f, its, m) => f = PairsOf(its, m)
<1>. DEFINE Chosen(name) == CHOOSE n \in 1 .. m : its[n].name = name
            D == {its[n].name : n \in 1 .. m}
<1>1. ASSUME NEW n \in 1 .. m
      PROVE  Chosen(its[n].name) = n
  <2>1. /\ Chosen(its[n].name) \in 1 .. m
        /\ its[Chosen(its[n].name)].name = its[n].name
    OBVIOUS
  <2>. HIDE DEF Chosen
  <2>. QED
    BY <2>1 DEF NamesDistinct
<1>2. PairsOf(its, m) = [name \in D |-> its[Chosen(name)].value]
  BY DEF PairsOf
<1>. HIDE DEF Chosen
<1>3. IsMapOf(PairsOf(its, m), its, m)
  BY <1>1, <1>2 DEF IsMapOf
<1>4. ASSUME NEW f, IsMapOf(f, its, m)
      PROVE  f = PairsOf(its, m)
  <2>1. f = [name \in D |-> f[name]]
    BY <1>4 DEF IsMapOf
  <2>2. \A name \in D : f[name] = PairsOf(its, m)[name]
    BY <1>3, <1>4 DEF IsMapOf
  <2>3. PairsOf(its, m) = [name \in D |-> PairsOf(its, m)[name]]
    BY <1>3 DEF IsMapOf
  <2>. QED
    BY <2>1, <2>2, <2>3
<1>. QED
  BY <1>3, <1>4

\* What the object stands for, before and after a step.
Map == [n \in {m \in NamesHeld : ~cleared} |-> ValueOf(n)]

LEMMA WhatMapIs ==
  /\ Map  = IF cleared  THEN [n \in {} |-> n] ELSE PairsOf(items, count)
  /\ Map' = IF cleared' THEN [n \in {} |-> n] ELSE PairsOf(items', count')
<1>1. {m \in NamesHeld : ~cleared} = IF cleared THEN {} ELSE {items[n].name : n \in 1 .. count}
  BY DEF NamesHeld
<1>2. {m \in NamesHeld' : ~cleared'} =
        IF cleared' THEN {} ELSE {items'[n].name : n \in 1 .. count'}
  BY DEF NamesHeld
<1>. QED
  BY <1>1, <1>2 DEF Map, PairsOf, ValueOf, NamesHeld

\* Steps that keep the names and values of the members.
SameMembers ==
  /\ count' = count /\ cleared' = cleared
  /\ \A n \in 1 .. count : items'[n].name = items[n].name /\ items'[n].value = items[n].value

LEMMA SameMembersSameMap ==
  ASSUME ObjectInv, SameMembers
  PROVE  Map' = Map
<1>1. CASE cleared
  BY <1>1, WhatMapIs DEF SameMembers
<1>2. CASE ~cleared
  <2>1. NamesDistinct(items, count) /\ count \in Nat
    BY <1>2, ItemsNamed DEF ObjectInv, MembersDistinct
  <2>2. NamesDistinct(items', count)
    BY <2>1 DEF SameMembers, NamesDistinct
  <2>3. IsMapOf(PairsOf(items, count), items', count)
    <3>1. IsMapOf(PairsOf(items, count), items, count)
      BY <2>1, OneMap
    <3>2. {items'[n].name : n \in 1 .. count} = {items[n].name : n \in 1 .. count}
      BY DEF SameMembers
    <3>. QED
      BY <3>1, <3>2 DEF IsMapOf, SameMembers
  <2>4. PairsOf(items, count) = PairsOf(items', count)
    BY <2>1, <2>2, <2>3, OneMap
  <2>. QED
    BY <1>2, <2>4, WhatMapIs DEF SameMembers
<1>. QED
  BY <1>1, <1>2

\* The stores at the end of json_object_add and json_object_set_value set a pair.
LEMMA StoreSetsPair ==
  ASSUME ObjectInv, ObjectInv', ~cleared, cleared' = cleared, ~undefined,
         NEW name \in Names, NEW value \in Values, count < ItemCapacity(cell_capacity),
         StoreItem(cells, cell_capacity, name, value)
  PROVE  Pairs!SetPair(name, value)
<1>. DEFINE ix  == CellIx(cells, cell_capacity, name)
            new == [name |-> name, value |-> value, cell_ix |-> ix]
            f   == [m \in DOMAIN Map \union {name} |-> IF m = name THEN value ELSE Map[m]]
<1>1. /\ items \in Seq(Items) /\ count \in Nat /\ count <= Len(items)
      /\ cell_capacity \in Nat \ {0} /\ NamesDistinct(items, count)
  <2>1. ItemCapacity(cell_capacity) \in 0 .. cell_capacity /\ cell_capacity \in Nat
    BY CapacityGrows DEF ObjectInv, ObjectTypeOK
  <2>. QED
    BY <2>1, ItemsNamed, SMTT(30) DEF ObjectInv, ObjectTypeOK, MembersDistinct
<1>2. /\ ix # INVALID
      /\ items' = WithSlot(items, count, new)
      /\ count' = count + 1
  <2>1. ItemCapacity(cell_capacity) \in Nat
    BY <1>1, CapacityGrows
  <2>2. ~(count >= ItemCapacity(cell_capacity))
    BY <1>1, <2>1
  <2>3. ~undefined'
    BY DEF ObjectInv, OnlyClearUndefines
  <2>. QED
    BY <2>2, <2>3 DEF StoreItem, WithSlot
<1>3. ix \in Ring(cell_capacity)
  BY <1>1, <1>2, ProbeEnds, Zenon
<1>4. new \in Items
  BY <1>3 DEF Items, Ring
<1>. HIDE DEF new
<1>5. /\ WithSlot(items, count, new)[count + 1] = new
      /\ \A n \in 1 .. count : WithSlot(items, count, new)[n] = items[n]
  <2>1. items \in Seq(Items) /\ count \in Nat /\ count <= Len(items)
    BY <1>1
  <2>. QED
    BY ONLY <1>4, <2>1, SlotWritten
<1>6. /\ items'[count + 1].name = name /\ items'[count + 1].value = value
      /\ \A n \in 1 .. count : items'[n] = items[n]
  BY <1>2, <1>5 DEF new
<1>7. /\ IsMapOf(Map, items, count)
      /\ Map' = PairsOf(items', count + 1) /\ NamesDistinct(items', count + 1)
  BY <1>1, <1>2, OneMap, WhatMapIs DEF ObjectInv, MembersDistinct
<1>8. IsMapOf(f, items', count + 1)
  <2>1. \A n : n \in 1 .. count + 1 <=> n \in 1 .. count \/ n = count + 1
    BY <1>1
  <2>2. \A n \in 1 .. count : n \in 1 .. count + 1 /\ n # count + 1 /\ count + 1 \in 1 .. count + 1
    BY <1>1
  <2>3. \A n \in 1 .. count : items[n].name # name
    BY <1>6, <1>7, <2>2 DEF NamesDistinct
  <2>4. DOMAIN f = {items'[n].name : n \in 1 .. count + 1}
    BY <1>6, <1>7, <2>1 DEF IsMapOf
  <2>5. ASSUME NEW n \in 1 .. count + 1
        PROVE  f[items'[n].name] = items'[n].value
    <3>1. CASE n = count + 1
      BY <1>6, <3>1
    <3>2. CASE n \in 1 .. count
      BY <1>6, <1>7, <2>3, <3>2 DEF IsMapOf
    <3>. QED
      BY <2>1, <3>1, <3>2
  <2>. QED
    BY <2>4, <2>5 DEF IsMapOf
<1>9. Map' = f
  BY <1>1, <1>7, <1>8, OneMap
<1>. QED
  BY <1>9 DEF Map, Pairs!SetPair

\* So does json_object_set_value when the name is there.
LEMMA SetFoundSetsPair ==
  ASSUME ObjectInv, ObjectInv', ~cleared, NEW name \in Names, NEW value \in Values,
         SetFound(name, value)
  PROVE  Pairs!SetPair(name, value)
<1>. DEFINE q == ItemIx(name) + 1
            f == [m \in DOMAIN Map \union {name} |-> IF m = name THEN value ELSE Map[m]]
<1>1. /\ Found(name) /\ items' = [items EXCEPT ![q].value = value]
      /\ count' = count /\ cleared' = cleared
  BY DEF SetFound
<1>2. /\ q \in 1 .. count /\ items[q].name = name /\ count \in Nat
      /\ items \in Seq(Items) /\ \A n \in 1 .. count : n \in 1 .. Len(items) /\ items[n] \in Items
  <2>1. ObjectTypeOK /\ items \in Seq(Items)
    BY DEF ObjectInv, ObjectTypeOK
  <2>. QED
    BY <1>1, <2>1, FoundMeans, ItemsNamed DEF ItemIx
<1>3. \A n \in 1 .. count :
        /\ items'[n].name = items[n].name
        /\ items'[n].value = IF n = q THEN value ELSE items[n].value
  <2>1. \A n \in 1 .. count :
          items'[n] = IF n = q THEN [items[q] EXCEPT !.value = value] ELSE items[n]
    BY <1>1, <1>2
  <2>. QED
    BY <1>2, <2>1 DEF Items
<1>4. /\ IsMapOf(Map, items, count) /\ NamesDistinct(items, count)
      /\ Map' = PairsOf(items', count) /\ NamesDistinct(items', count)
  BY <1>1, <1>2, OneMap, WhatMapIs DEF ObjectInv, MembersDistinct
<1>. HIDE DEF q
<1>5. IsMapOf(f, items', count)
  <2>1. DOMAIN f = {items'[n].name : n \in 1 .. count}
    <3>1. DOMAIN Map = {items[n].name : n \in 1 .. count}
      BY <1>4 DEF IsMapOf
    <3>2. DOMAIN f = DOMAIN Map
      BY <1>2, <3>1
    <3>3. {items'[n].name : n \in 1 .. count} = {items[n].name : n \in 1 .. count}
      BY <1>3
    <3>. QED
      BY <3>1, <3>2, <3>3
  <2>2. ASSUME NEW n \in 1 .. count
        PROVE  f[items'[n].name] = items'[n].value
    <3>1. items[n].name = name => n = q
      BY <1>2, <1>4 DEF NamesDistinct
    <3>. QED
      BY <1>2, <1>3, <1>4, <3>1 DEF IsMapOf
  <2>. QED
    BY <2>1, <2>2 DEF IsMapOf
<1>6. Map' = f
  BY <1>2, <1>4, <1>5, OneMap
<1>. QED
  BY <1>6 DEF Map, Pairs!SetPair

\* json_object_remove_internal removes a pair, before it closes the gap.
LEMMA RemoveRemovesPair ==
  ASSUME ObjectInv, ObjectInv', ~cleared, NEW name \in Names, RemoveItem(name)
  PROVE  Pairs!RemovePair(name)
<1>. DEFINE ix == cells[CellIx(cells, cell_capacity, name)]
            f  == [m \in DOMAIN Map \ {name} |-> Map[m]]
<1>1. /\ Found(name) /\ items' = Taken(ix, items[count])
      /\ count' = count - 1 /\ cleared' = cleared
  BY DEF RemoveItem
<1>2. ix \in 0 .. count - 1 /\ items[ix + 1].name = name /\ count \in Nat
  BY <1>1, FoundMeans, ItemsNamed DEF ObjectInv
<1>3. \A n \in 1 .. count - 1 : items'[n] = IF n = ix + 1 THEN items[count] ELSE items[n]
  BY <1>1, <1>2, TakenSlots DEF ObjectInv
<1>4. /\ IsMapOf(Map, items, count) /\ NamesDistinct(items, count)
      /\ Map' = PairsOf(items', count - 1) /\ NamesDistinct(items', count - 1)
      /\ count - 1 \in Nat
  <2>1. count - 1 \in Nat
    BY <1>2
  <2>. QED
    BY <1>1, <1>2, <2>1, OneMap, WhatMapIs DEF ObjectInv, MembersDistinct
<1>. HIDE DEF ix
<1>5. ASSUME NEW n \in 1 .. count - 1
      PROVE  \E m \in 1 .. count : m # ix + 1 /\ items'[n] = items[m]
  <2>1. CASE n = ix + 1
    BY <1>2, <1>3, <2>1
  <2>2. CASE n # ix + 1
    BY <1>2, <1>3, <2>2
  <2>. QED
    BY <2>1, <2>2
<1>6. ASSUME NEW m \in 1 .. count, m # ix + 1
      PROVE  \E n \in 1 .. count - 1 : items'[n] = items[m]
  <2>1. CASE m = count
    <3>1. ix + 1 \in 1 .. count - 1
      BY <1>2, <1>6, <2>1
    <3>. QED
      BY <1>3, <2>1, <3>1
  <2>2. CASE m # count
    <3>1. m \in 1 .. count - 1
      BY <1>2, <2>2
    <3>. QED
      BY <1>3, <1>6, <3>1
  <2>. QED
    BY <2>1, <2>2
<1>7. \A m \in 1 .. count : items[m].name = name <=> m = ix + 1
  <2>1. ix + 1 \in 1 .. count
    BY <1>2
  <2>. QED
    BY <1>2, <1>4, <2>1 DEF NamesDistinct
<1>8. IsMapOf(f, items', count - 1)
  <2>1. DOMAIN f = {items'[n].name : n \in 1 .. count - 1}
    <3>1. DOMAIN Map = {items[n].name : n \in 1 .. count}
      BY <1>4 DEF IsMapOf
    <3>2. ASSUME NEW m \in DOMAIN Map \ {name}
          PROVE  \E n \in 1 .. count - 1 : items'[n].name = m
      BY <1>6, <1>7, <3>1
    <3>3. ASSUME NEW n \in 1 .. count - 1
          PROVE  items'[n].name \in DOMAIN Map \ {name}
      BY <1>5, <1>7, <3>1
    <3>. QED
      BY <3>2, <3>3
  <2>2. ASSUME NEW n \in 1 .. count - 1
        PROVE  f[items'[n].name] = items'[n].value
    <3>1. PICK m \in 1 .. count : m # ix + 1 /\ items'[n] = items[m]
      BY <1>5
    <3>2. items[m].name # name
      BY <1>7, <3>1
    <3>. QED
      BY <1>4, <3>1, <3>2 DEF IsMapOf
  <2>. QED
    BY <2>1, <2>2 DEF IsMapOf
<1>9. Map' = f
  BY <1>4, <1>8, OneMap
<1>10. name \in DOMAIN Map
  <2>1. ix + 1 \in 1 .. count
    BY <1>2
  <2>. QED
    BY <1>2, <1>4, <2>1 DEF IsMapOf
<1>. QED
  BY <1>9, <1>10 DEF Map, Pairs!RemovePair

\* Growing and closing a gap change no member.
LEMMA GrowEndSameMembers ==
  ASSUME ObjectInv, GrowEnd
  PROVE  SameMembers
<1>1. ASSUME NEW n \in 1 .. count
      PROVE  /\ items'[n].name = items[n].name
             /\ items'[n].value = items[n].value
  <2>1. items[n] \in Items
    BY <1>1, ItemsNamed DEF ObjectInv
  <2>2. items'[n] = [items[n] EXCEPT !.cell_ix =
                       CellIx(new_cells, NewCapacity, items[n].name)]
    BY DEF GrowEnd
  <2>. QED
    BY <2>1, <2>2 DEF Items
<1>. QED
  BY <1>1 DEF GrowEnd, SameMembers

LEMMA ShiftSameMembers ==
  ASSUME ObjectInv, Shift
  PROVE  SameMembers
<1>. DEFINE q == cells[NextCell(j)] + 1
<1>1. count' = count /\ cleared' = cleared
  BY DEF Shift
<1>2. \/ items' = items
      \/ items' = [items EXCEPT ![q].cell_ix = i]
  BY DEF Shift
<1>3. ASSUME NEW n \in 1 .. count
      PROVE  /\ items'[n].name = items[n].name
             /\ items'[n].value = items[n].value
  <2>1. items[n] \in Items /\ n \in DOMAIN items
    BY <1>3, ItemsNamed DEF ObjectInv, ObjectTypeOK
  <2>. HIDE DEF q
  <2>2. items'[n] = items[n] \/ items'[n] = [items[n] EXCEPT !.cell_ix = i]
    BY <1>2, <2>1
  <2>. QED
    BY <2>1, <2>2 DEF Items
<1>. QED
  BY <1>1, <1>3 DEF SameMembers

\* Every step of the object is a step of the map, or changes nothing of it.
LEMMA StepsMap ==
  ObjectInv /\ ObjectInv' /\ [ObjectNext]_objectVars =>
    [Pairs!PairsNext]_[n \in {m \in NamesHeld : ~cleared} |-> ValueOf(n)]
<1>. SUFFICES ASSUME ObjectInv, ObjectInv', [ObjectNext]_objectVars
              PROVE  Pairs!PairsNext \/ Map' = Map
  BY DEF Map
<1>. DEFINE Maps == Pairs!PairsNext \/ Map' = Map
<1>0. ASSUME SameMembers
      PROVE  Maps
  BY <1>0, SameMembersSameMap
<1>1. ASSUME UNCHANGED <<items, count, cleared>>
      PROVE  Maps
  BY <1>0, <1>1 DEF SameMembers
<1>2. ASSUME cleared, cleared'
      PROVE  Maps
  BY <1>2, WhatMapIs
<1>3. ASSUME NEW name \in Names, NEW value \in Values, Pairs!SetPair(name, value)
      PROVE  Maps
  BY <1>3 DEF Pairs!PairsNext
<1>4. ASSUME NEW name \in Names, RemoveItem(name)
      PROVE  Maps
  <2>1. cleared' = cleared
    BY <1>4 DEF RemoveItem
  <2>2. ~cleared => Pairs!RemovePair(name)
    BY <1>4, RemoveRemovesPair
  <2>. QED
    BY <1>2, <2>1, <2>2 DEF Pairs!PairsNext
<1>5. ASSUME NEW name \in Names, NEW value \in Values, SetFound(name, value)
      PROVE  Maps
  <2>1. cleared' = cleared
    BY <1>5 DEF SetFound
  <2>. QED
    BY <1>2, <1>3, <1>5, <2>1, SetFoundSetsPair
<1>6. ASSUME NEW name \in Names, NEW value \in Values, StoreNew(name, value)
      PROVE  Maps
  <2>1. /\ cleared' = cleared /\ ~undefined /\ count < ItemCapacity(cell_capacity)
        /\ StoreItem(cells, cell_capacity, name, value)
    BY <1>6 DEF StoreNew, NewName, Ready, HasRoom
  <2>. QED
    BY <1>2, <1>3, <2>1, StoreSetsPair
<1>7. ASSUME GrownStore
      PROVE  Maps
  <2>1. /\ cleared' = cleared /\ at = "store"
        /\ StoreItem(cells, cell_capacity, arg.name, arg.value)
    BY <1>7 DEF GrownStore
  <2>2. /\ arg.name \in Names /\ arg.value \in Values
        /\ ~undefined /\ count < ItemCapacity(cell_capacity)
    BY <2>1 DEF ObjectInv, ObjectTypeOK, ArgIsNew, OnlyClearUndefines
  <2>. QED
    BY <1>2, <1>3, <2>1, <2>2, StoreSetsPair
<1>8. ASSUME Clear
      PROVE  Maps
  <2>1. Map' = [n \in {} |-> n]
    BY <1>8, WhatMapIs DEF Clear
  <2>. QED
    BY <2>1 DEF Map, Pairs!PairsNext, Pairs!ClearPairs
<1>9. ASSUME GrowEnd
      PROVE  Maps
  BY <1>0, <1>9, GrowEndSameMembers
<1>10. ASSUME Shift
      PROVE  Maps
  BY <1>0, <1>10, ShiftSameMembers
<1>11. ASSUME NEW name \in Names, ReadStale(name)
       PROVE  Maps
  BY <1>1, <1>11 DEF ReadStale
<1>12. ASSUME NEW name \in Names, NEW value \in Values, NEW copies \in BOOLEAN,
              GrowBegin(name, value, copies)
       PROVE  Maps
  BY <1>1, <1>12 DEF GrowBegin
<1>13. ASSUME GrowItem
      PROVE  Maps
  BY <1>1, <1>13 DEF GrowItem
<1>14. ASSUME CopyFails
      PROVE  Maps
  BY <1>1, <1>14 DEF CopyFails
<1>15. ASSUME ShiftEnd
      PROVE  Maps
  BY <1>1, <1>15 DEF ShiftEnd
<1>16. ASSUME UNCHANGED objectVars
      PROVE  Maps
  BY <1>1, <1>16 DEF objectVars
<1>. HIDE DEF Maps
<1>17. Maps
  BY <1>4, <1>5, <1>6, <1>7, <1>8, <1>9, <1>10, <1>11, <1>12, <1>13, <1>14, <1>15, <1>16
    DEF ObjectNext
<1>. QED
  BY <1>17 DEF Maps

\* Until json_object_clear, a caller sees a map from names to values: setting a name
\* sets its pair, removing one removes it, and growing, rehashing and closing gaps
\* change no pair (parson.c:485-682, parson.h:177-232).
THEOREM ObjectImplementsPairs == ObjectSpec => ImplementsPairs
<1>1. ObjectInit => Pairs!PairsInit
  <2>. SUFFICES ASSUME ObjectInit
                PROVE  Pairs!PairsInit
    OBVIOUS
  <2>1. {m \in NamesHeld : ~cleared} = {}
    BY DEF ObjectInit, NamesHeld
  <2>. QED
    BY <2>1 DEF Pairs!PairsInit
<1>2. ObjectInv /\ ObjectInv' /\ [ObjectNext]_objectVars =>
        [Pairs!PairsNext]_[n \in {m \in NamesHeld : ~cleared} |-> ValueOf(n)]
  BY StepsMap
<1>. QED
  BY <1>1, <1>2, ObjectInvariant, PTL
    DEF ObjectSpec, ImplementsPairs, Pairs!PairsSpec
=============================================================================
