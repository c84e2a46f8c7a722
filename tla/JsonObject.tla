------------------------------ MODULE JsonObject ------------------------------
(***************************************************************************)
(* parson.c: the members of one JSON object, a hash table with linear      *)
(* probing.  Items lie in a row in the arrays names, values, hashes and    *)
(* cell_ixs (here: the sequence items); the cell of an item holds its      *)
(* index, counted from 0 as in the code.  Removing an item moves the last  *)
(* one into its place and then closes the gap in the cells.                *)
(*                                                                         *)
(* items has the slots 0 .. count - 1, and after json_object_clear also    *)
(* what its loop leaves behind them: freed names with their hashes.        *)
(*                                                                         *)
(* The two loops that change cells, that of json_object_grow_and_rehash    *)
(* and that of json_object_remove_internal, take a step per iteration; the *)
(* loop of json_object_get_cell_ix only reads.  A value stands for what it *)
(* says: who owns it is JsonTree's subject.                                *)
(*                                                                         *)
(* undefined: a call has read a name that has been freed or stored outside *)
(* an array; nothing is known of the object afterwards.                    *)
(* cleared: json_object_clear has been called on an object with members.   *)
(* The cells it left go with the next growth, but what later calls made of *)
(* them does not: a member whose cell they took can then be set again.     *)
(***************************************************************************)
EXTENDS Integers, Sequences, SequencesExt

CONSTANTS Names,              \* names of members, sequences of bytes
          Values,
          STARTING_CAPACITY,
          HASH_RANGE,         \* 2^64, the values of an unsigned long
          INVALID,            \* OBJECT_INVALID_IX
          ClearedCells        \* bound: cells of a table that has been cleared

\* hash_string: hash * 33 + c over the bytes of the name.
HashOf(name) ==
  LET hash[n \in 0 .. Len(name)] ==
        IF n = 0 THEN 5381 ELSE (hash[n - 1] * 33 + name[n]) % HASH_RANGE
  IN  hash[Len(name)]

ASSUME ObjectAssumption ==
  /\ STARTING_CAPACITY \in Nat \ {0, 1}
  /\ ClearedCells \in Nat
  /\ INVALID \notin Nat
  /\ \A n \in Names : HashOf(n) \in Nat

VARIABLES cells, cell_capacity, items, count,
          at,         \* the loop that is running, "idle" between two calls
          arg,        \* the call's arguments
          new_cells, k,   \* locals of json_object_grow_and_rehash
          i, j, x,        \* locals of json_object_remove_internal
          undefined, cleared

objectVars == <<cells, cell_capacity, items, count, at, arg, new_cells, k, i, j, x,
                undefined, cleared>>
loopVars == <<at, arg, new_cells, k, i, j, x>>

NoCells == [c \in {} |-> INVALID]
NoArg == [name |-> INVALID, value |-> INVALID, copies |-> FALSE]

\* (unsigned)(capacity * 0.7f).
ItemCapacity(capacity) == (capacity * 7) \div 10

\* hash & (cell_capacity - 1): the capacities are powers of two.
HomeCell(name, capacity) == HashOf(name) % capacity

\* The cells get_cell_ix looks at, in order: the one at distance d from home.
Probed(name, capacity, d) == (HomeCell(name, capacity) + d) % capacity

\* What ends the probe at a cell: it is empty, or its slot has the name.  Names
\* are only compared when the hashes are equal; behind the last item that ends
\* the probe too, see undefined.
Stops(cs, c, name) ==
  \/ cs[c] = INVALID
  \/ /\ HashOf(items[cs[c] + 1].name) = HashOf(name)
     /\ cs[c] < count => items[cs[c] + 1].name = name

\* json_object_get_cell_ix.
CellIx(cs, capacity, name) ==
  LET stops == {d \in 0 .. capacity - 1 : Stops(cs, Probed(name, capacity, d), name)}
  IN  IF stops = {} THEN INVALID
      ELSE Probed(name, capacity, CHOOSE d \in stops : \A e \in stops : d <= e)

\* Its *out_found; and whether the name it has compared with has been freed.
Found(name) ==
  LET ix == CellIx(cells, cell_capacity, name)
  IN  ix # INVALID /\ cells[ix] # INVALID /\ cells[ix] < count
ReadsStale(name) ==
  LET ix == CellIx(cells, cell_capacity, name)
  IN  ix # INVALID /\ cells[ix] # INVALID /\ cells[ix] >= count

\* json_object_getn_value.
ItemIx(name) == cells[CellIx(cells, cell_capacity, name)]
GetValue(name) == IF Found(name) THEN items[ItemIx(name) + 1].value ELSE INVALID

\* json_object_init with a capacity of 0.
ObjectInit ==
  /\ cells = NoCells
  /\ cell_capacity = 0
  /\ items = <<>>
  /\ count = 0
  /\ at = "idle"
  /\ arg = NoArg
  /\ new_cells = NoCells
  /\ k = 0
  /\ i = 0 /\ j = 0 /\ x = 0
  /\ undefined = FALSE
  /\ cleared = FALSE

Ready == at = "idle" /\ ~undefined

\* A call ends; its locals are gone.
Return ==
  /\ at' = "idle"
  /\ arg' = NoArg
  /\ new_cells' = NoCells
  /\ k' = 0
  /\ i' = 0 /\ j' = 0 /\ x' = 0

-----------------------------------------------------------------------------
(* json_object_get_value and all that call it.                             *)

\* A call that finds, or fails to find, only reads: unless the probe comes to
\* a slot with the same hash behind the last item, whose name has been freed.
ReadStale(name) ==
  /\ Ready
  /\ ReadsStale(name)
  /\ undefined' = TRUE
  /\ UNCHANGED <<cells, cell_capacity, items, count, cleared>>
  /\ UNCHANGED loopVars

-----------------------------------------------------------------------------
(* json_object_set_value and json_object_add.                              *)

\* The name is there: set_value frees the old value and stores the new one.
\* (json_object_add fails.)
SetFound(name, value) ==
  /\ Ready
  /\ ~ReadsStale(name)
  /\ Found(name)
  /\ items' = [items EXCEPT ![ItemIx(name) + 1].value = value]
  /\ UNCHANGED <<cells, cell_capacity, count, undefined, cleared>>
  /\ UNCHANGED loopVars

\* The stores at the end of both functions.
StoreItem(cs, capacity, name, value) ==
  LET ix == CellIx(cs, capacity, name)
  IN  IF ix = INVALID \/ count >= ItemCapacity(capacity)
      THEN undefined' = TRUE /\ cells' = cs /\ UNCHANGED <<items, count>>
      ELSE /\ cells' = [cs EXCEPT ![ix] = count]
           /\ items' = SubSeq(items, 1, count)
                        \o <<[name |-> name, value |-> value, cell_ix |-> ix]>>
                        \o SubSeq(items, count + 2, Len(items))
           /\ count' = count + 1
           /\ UNCHANGED undefined

NewName(name) == Ready /\ ~ReadsStale(name) /\ ~Found(name)

HasRoom == count < ItemCapacity(cell_capacity)

\* A new name, and room for it.
StoreNew(name, value) ==
  /\ NewName(name)
  /\ HasRoom
  /\ StoreItem(cells, cell_capacity, name, value)
  /\ UNCHANGED <<cell_capacity, cleared>>
  /\ UNCHANGED loopVars

NewCapacity ==
  IF 2 * cell_capacity > STARTING_CAPACITY THEN 2 * cell_capacity ELSE STARTING_CAPACITY

\* A new name and no room: json_object_grow_and_rehash allocates the arrays of
\* a new object.  (When it cannot, the call fails and nothing has changed.)
GrowBegin(name, value, copies) ==
  /\ NewName(name)
  /\ ~HasRoom
  /\ cleared => NewCapacity <= ClearedCells
  /\ at' = "rehash"
  /\ arg' = [name |-> name, value |-> value, copies |-> copies]
  /\ new_cells' = [c \in 0 .. NewCapacity - 1 |-> INVALID]
  /\ k' = 0
  /\ UNCHANGED <<cells, cell_capacity, items, count, i, j, x, undefined, cleared>>

\* One item is added to the new object.  (If its name were there already,
\* json_object_add would fail and the growth with it.)
GrowItem ==
  LET ix == CellIx(new_cells, NewCapacity, items[k + 1].name)
  IN  /\ at = "rehash"
      /\ k < count
      /\ IF new_cells[ix] = INVALID
         THEN /\ new_cells' = [new_cells EXCEPT ![ix] = k]
              /\ k' = k + 1
              /\ UNCHANGED <<at, arg, i, j, x>>
         ELSE Return
      /\ UNCHANGED <<cells, cell_capacity, items, count, undefined, cleared>>

\* The old arrays are freed, the new ones take their place.
GrowEnd ==
  /\ at = "rehash"
  /\ k = count
  /\ cells' = new_cells
  /\ cell_capacity' = NewCapacity
  /\ items' = [n \in 1 .. count |->
       [items[n] EXCEPT !.cell_ix = CellIx(new_cells, NewCapacity, items[n].name)]]
  /\ at' = "store"
  /\ new_cells' = NoCells
  /\ k' = 0
  /\ UNCHANGED <<count, arg, i, j, x, undefined, cleared>>

\* After growth the name is probed for again, and stored.
GrownStore ==
  /\ at = "store"
  /\ StoreItem(cells, cell_capacity, arg.name, arg.value)
  /\ Return
  /\ UNCHANGED <<cell_capacity, cleared>>

\* json_object_set_value copies the name after the growth: when it cannot,
\* it fails with the object grown.
CopyFails ==
  /\ at = "store"
  /\ arg.copies
  /\ Return
  /\ UNCHANGED <<cells, cell_capacity, items, count, undefined, cleared>>

-----------------------------------------------------------------------------
(* json_object_remove_internal.                                            *)

\* The slots after an item has gone from slot ix and last has taken its place.
Taken(ix, last) ==
  LET moved == [items EXCEPT ![ix + 1] = last]
  IN  IF cleared THEN moved ELSE Front(moved)

\* Faulty variant: the last item takes the place, but not with its value.
RemoveItemValueKept(name) ==
  LET cell == CellIx(cells, cell_capacity, name)
      ix   == cells[cell]
      last == [items[count] EXCEPT !.value = items[ix + 1].value]
  IN  /\ Ready /\ ~ReadsStale(name) /\ Found(name)
      /\ items' = Taken(ix, last) /\ count' = count - 1
      /\ cells' = IF ix < count - 1 THEN [cells EXCEPT ![last.cell_ix] = ix] ELSE cells
      /\ at' = "shift" /\ i' = cell /\ j' = cell /\ x' = 0
      /\ UNCHANGED <<cell_capacity, arg, new_cells, k, undefined, cleared>>

\* The item goes, the last one takes its slot and its cell is told.
RemoveItem(name) ==
  LET cell == CellIx(cells, cell_capacity, name)
      ix   == cells[cell]
      last == items[count]
  IN  /\ Ready
      /\ ~ReadsStale(name)
      /\ Found(name)
      /\ items' = Taken(ix, last) /\ count' = count - 1
      /\ cells' = IF ix < count - 1 THEN [cells EXCEPT ![last.cell_ix] = ix] ELSE cells
      /\ at' = "shift"
      /\ i' = cell /\ j' = cell /\ x' = 0
      /\ UNCHANGED <<cell_capacity, arg, new_cells, k, undefined, cleared>>

NextCell(c) == (c + 1) % cell_capacity

\* Faulty variant: an item whose home is the gap itself does not move.
MayMoveUnlessHome(c, h, g) ==
  \/ c > g /\ (h < g \/ h > c)
  \/ c < g /\ (h < g /\ h > c)

\* The item in cell c, whose home is h, may move to the gap g: its probe
\* passes g before c.
MayMove(c, h, g) ==
  \/ c > g /\ (h <= g \/ h > c)
  \/ c < g /\ (h <= g /\ h > c)

ShiftGoesOn == x < cell_capacity - 1 /\ cells[NextCell(j)] # INVALID

\* One iteration that finds an item: it moves into the gap or stays.
Shift ==
  LET c == NextCell(j)
  IN  /\ at = "shift"
      /\ ShiftGoesOn
      /\ j' = c
      /\ x' = x + 1
      /\ IF MayMove(c, HomeCell(items[cells[c] + 1].name, cell_capacity), i)
         THEN /\ items' = [items EXCEPT ![cells[c] + 1].cell_ix = i]
              /\ cells' = [cells EXCEPT ![i] = cells[c]]
              /\ i' = c
         ELSE UNCHANGED <<cells, items, i>>
      /\ UNCHANGED <<cell_capacity, count, at, arg, new_cells, k, undefined, cleared>>

\* The loop ends; the cell where the gap has come to is emptied.
ShiftEnd ==
  /\ at = "shift"
  /\ ~ShiftGoesOn
  /\ cells' = [cells EXCEPT ![i] = INVALID]
  /\ Return
  /\ UNCHANGED <<cell_capacity, items, count, undefined, cleared>>

-----------------------------------------------------------------------------
\* json_object_clear: names and values are freed, the cells stay as they are.
\* (It is called on tables of at most ClearedCells cells, and they do not grow
\* beyond that.)
Clear ==
  /\ Ready
  /\ count > 0 /\ cell_capacity <= ClearedCells
  /\ count' = 0
  /\ cleared' = TRUE
  /\ UNCHANGED <<cells, cell_capacity, items, undefined>>
  /\ UNCHANGED loopVars

ObjectNext ==
  \/ \E name \in Names :
       \/ ReadStale(name)
       \/ RemoveItem(name)
       \/ \E value \in Values :
            \/ SetFound(name, value)
            \/ StoreNew(name, value)
            \/ \E copies \in BOOLEAN : GrowBegin(name, value, copies)
  \/ GrowItem \/ GrowEnd \/ GrownStore \/ CopyFails
  \/ Shift \/ ShiftEnd
  \/ Clear

ObjectSpec == ObjectInit /\ [][ObjectNext]_objectVars

-----------------------------------------------------------------------------
(* Properties.                                                             *)

Items == [name : Names, value : Values, cell_ix : 0 .. cell_capacity - 1]

\* The types of the variables; in particular no array is overrun.
ObjectTypeOK ==
  /\ cell_capacity \in Nat
  /\ cells \in [0 .. cell_capacity - 1 -> Nat \union {INVALID}]
  /\ items \in Seq(Items)
  /\ count \in 0 .. Len(items)
  /\ count = Len(items) \/ cleared
  /\ count <= ItemCapacity(cell_capacity) \/ undefined
  /\ at \in {"idle", "rehash", "store", "shift"}
  /\ at \in {"rehash", "store"} =>
       arg \in [name : Names, value : Values, copies : BOOLEAN]
  /\ at = "rehash" => new_cells \in [0 .. NewCapacity - 1 -> Nat \union {INVALID}]
  /\ k \in 0 .. count
  /\ {i, j, x} \subseteq Nat
  /\ at = "shift" => {i, j} \subseteq 0 .. cell_capacity - 1
  /\ undefined \in BOOLEAN /\ cleared \in BOOLEAN

\* Cells and items refer to each other: json_object_remove_internal relies on
\* it to tell the cell of the item it moves.  (Between two calls, as long as
\* json_object_clear has not been called.)
CellsMatchItems ==
  at \in {"idle", "store"} /\ ~cleared =>
    \A c \in 0 .. cell_capacity - 1 :
      /\ cells[c] # INVALID => cells[c] < count /\ items[cells[c] + 1].cell_ix = c
      /\ \A n \in 1 .. count : items[n].cell_ix = c => cells[c] = n - 1

\* json_object_get_value finds every member, at its own slot, and no name is a
\* member twice: wherever members collided, whatever was removed since and
\* however often the table has grown.
MembersFound ==
  at \in {"idle", "store"} /\ ~cleared =>
    \A n \in 1 .. count : Found(items[n].name) /\ ItemIx(items[n].name) = n - 1

\* The probe for a new name always comes to an empty cell, and the arrays of
\* items have room for it: nothing is stored at OBJECT_INVALID_IX or behind
\* an array.
StoresInArrays == ~cleared => ~undefined

\* The hash table of an object (parson.c:485-682): cells and items refer to each
\* other, every member can be reached from its home cell, and no store leaves the
\* arrays.
HashTableSound == CellsMatchItems /\ MembersFound /\ StoresInArrays

\* What json_object_clear should leave: no call ever compares with a name that
\* has been freed, because an object without members has empty cells.
LookupsDefined == ~undefined

\* What a caller can ask for.
NamesHeld == {items[m].name : m \in 1 .. count}
ValueOf(name) == items[CHOOSE m \in 1 .. count : items[m].name = name].value

\* A caller of the functions sees a map, until json_object_clear: growing,
\* rehashing and closing gaps change no member, and a call that fails changes
\* nothing.
Pairs == INSTANCE NameValuePairs WITH
  pairs <- [n \in {m \in NamesHeld : ~cleared} |-> ValueOf(n)]

ImplementsPairs == Pairs!PairsSpec
=============================================================================
