------------------------------- MODULE JsonTree -------------------------------
(***************************************************************************)
(* parson.c: JSON values on the heap, who owns them, and the calls that    *)
(* build, change, copy, compare and free trees of them.                    *)
(*                                                                         *)
(* The library is sequential.  Each of its functions is an operator from a *)
(* heap to the set of its outcomes: one for success, and one for every     *)
(* allocation that can fail.  A call is a step that picks an outcome.      *)
(*                                                                         *)
(* A container's items are its members in the order of its array; those of *)
(* an object have names (JsonObject is about finding them), those of an    *)
(* array have NULL.  What a string, number or boolean says is its kind.    *)
(*                                                                         *)
(* roots: the values the caller has been given and has to free.            *)
(* left: those it passed to a call of json_object_dotset_value that failed *)
(* after it had stored them.                                               *)
(***************************************************************************)
EXTENDS Integers, Sequences, FiniteSets, SequencesExt, JsonNull

CONSTANTS Ids,      \* addresses of values, numbers
          Scalars,  \* what a value that is no container can say
          MemberNames,
          Paths,    \* names with dots, as sequences of names
          Texts     \* texts to parse, as sequences of the marks below

Kinds == Scalars \union {"array", "object"}

\* A mark opens a value, with its name if it is a member of an object, or closes
\* a container.
Opens(kind, name) == [kind |-> kind, name |-> name]
Closes == Opens("close", NULL)
Marks == [kind : Kinds, name : MemberNames \union {NULL}] \union {Closes}

\* Addresses are not NULL, and nothing says "free" or "close".
ASSUME TreeAssumption ==
  /\ Ids \subseteq Nat /\ IsFiniteSet(Ids) /\ NULL \notin Ids
  /\ {"free", "close"} \intersect Kinds = {}
  /\ Paths \subseteq Seq(MemberNames) \ {<<>>}
  /\ Texts \subseteq Seq(Marks)

VARIABLES heap,   \* kind, parent and items of every address
          roots, left

treeVars == <<heap, roots, left>>

Live(h) == {v \in Ids : h.kind[v] # "free"}

\* Members of a value; the values of a set and all that are below them, members
\* being added until there are no others; the whole tree of a value.
Members(h, v) == {h.items[v][n].value : n \in DOMAIN h.items[v]}
Below(h) ==
  LET below[S \in SUBSET Ids] ==
        LET more == UNION {Members(h, v) : v \in S}
        IN  IF more \subseteq S THEN S ELSE below[S \union more]
  IN  below
Tree(h, v) == Below(h)[{v}]

Ok(h)   == [heap |-> h, ok |-> TRUE]
Fail(h) == [heap |-> h, ok |-> FALSE]

-----------------------------------------------------------------------------
(* Making and freeing values.                                              *)

\* json_value_init_object, _array, _string, ...: a value without a parent.
New(h, kind) ==
  {[heap |-> h, id |-> NULL]} \union
  {[heap |-> [h EXCEPT !.kind[v] = kind, !.parent[v] = NULL, !.items[v] = <<>>], id |-> v] :
     v \in {w \in Ids \ Live(h) : \A u \in Ids \ Live(h) : w <= u}}

\* json_value_free, and with it json_object_free and json_array_free: the
\* whole tree goes.
FreeValues(h, vs) ==
  LET gone == Below(h)[vs]
  IN  [kind   |-> [v \in Ids |-> IF v \in gone THEN "free" ELSE h.kind[v]],
       parent |-> [v \in Ids |-> IF v \in gone THEN NULL ELSE h.parent[v]],
       items  |-> [v \in Ids |-> IF v \in gone THEN <<>> ELSE h.items[v]]]
FreeValue(h, v) == FreeValues(h, {v})

\* The stores at the end of json_array_add and json_object_add.
Attach(h, c, name, v) ==
  [h EXCEPT !.items[c] = Append(@, [name |-> name, value |-> v]), !.parent[v] = c]

\* The stores that replace a value in its slot; the old one is freed before.
Exchange(h, c, n, v) ==
  [FreeValue(h, h.items[c][n].value) EXCEPT !.items[c] = [h.items[c] EXCEPT ![n].value = v],
                                            !.parent[v] = c]

\* Faulty variant: a value that has a parent already is taken too.
RefusedNever(h, v) == FALSE

\* What json_array_append_value, json_array_replace_value and
\* json_object_set_value check of the value they are given.
Refused(h, v) == h.parent[v] # NULL

\* The slot of a name, 0 if it has none; json_object_get_value.
SlotOf(h, o, name) ==
  IF \E n \in DOMAIN h.items[o] : h.items[o][n].name = name
  THEN CHOOSE n \in DOMAIN h.items[o] : h.items[o][n].name = name ELSE 0
GetMember(h, o, name) ==
  LET n == SlotOf(h, o, name) IN IF n = 0 THEN NULL ELSE h.items[o][n].value

\* json_array_add and json_object_add: the array or the table may have to grow, or
\* the name to be copied, and no memory be left; an object refuses a name it has.
Add(h, c, name, v) ==
  IF h.kind[c] = "object" /\ SlotOf(h, c, name) # 0 THEN {Fail(h)}
  ELSE {Fail(h), Ok(Attach(h, c, name, v))}

-----------------------------------------------------------------------------
(* Arrays.                                                                 *)

\* json_array_append_value.
AppendValue(h, a, v) == IF Refused(h, v) THEN {Fail(h)} ELSE Add(h, a, NULL, v)

\* json_array_replace_value.
ReplaceValue(h, a, n, v) ==
  IF Refused(h, v) \/ n \notin DOMAIN h.items[a] THEN {Fail(h)} ELSE {Ok(Exchange(h, a, n, v))}

\* json_array_remove: the values behind move up.
RemoveAtIx(h, a, n) ==
  IF n \notin DOMAIN h.items[a] THEN Fail(h)
  ELSE Ok([FreeValue(h, h.items[a][n].value) EXCEPT !.items[a] = RemoveAt(h.items[a], n)])

\* json_array_clear, and json_object_clear but for its cells.
ClearItems(h, c) == [FreeValues(h, Members(h, c)) EXCEPT !.items[c] = <<>>]

-----------------------------------------------------------------------------
(* Objects.                                                                *)

\* json_object_set_value.
SetValue(h, o, name, v) ==
  LET n == SlotOf(h, o, name)
  IN  IF Refused(h, v) THEN {Fail(h)}
      ELSE IF n # 0 THEN {Ok(Exchange(h, o, n, v))}
      ELSE Add(h, o, name, v)

\* json_object_remove_internal: the last member takes the place.
RemoveMember(h, o, name, frees) ==
  LET n    == SlotOf(h, o, name)
      its  == h.items[o]
      kept == IF frees THEN FreeValue(h, its[n].value) ELSE h
  IN  IF n = 0 THEN Fail(h)
      ELSE Ok([kept EXCEPT !.items[o] = Front([its EXCEPT ![n] = Last(its)])])

\* The objects that json_object_dotremove_internal comes through on a path, from
\* its name n on.
Walks(h, o, path, n) ==
  {w \in [n .. Len(path) -> Ids] :
     /\ w[n] = o
     /\ \A k \in n .. Len(path) - 1 :
          w[k + 1] = GetMember(h, w[k], path[k]) /\ h.kind[w[k + 1]] = "object"}

\* json_object_dotremove_internal, with the path from its name n on.
DotRemove(h, o, path, n, frees) ==
  LET walks == Walks(h, o, path, n)
  IN  IF walks = {} THEN Fail(h)
      ELSE RemoveMember(h, (CHOOSE w \in walks : TRUE)[Len(path)], Last(path), frees)

(* json_object_dotset_value.  The calls of it that are under way:          *)
(*   at: the last object on the path that was there;                       *)
(*   made: those that have been made, each for the one before it;          *)
(*   n: the name on the path that the innermost call looks at;             *)
(*   stored: whether the value has been stored, so that the calls return.  *)
Setting(h, at) ==
  [heap |-> h, at |-> at, made |-> <<>>, n |-> 1, stored |-> FALSE, done |-> FALSE, ok |-> FALSE]

Innermost(c) == IF c.made = <<>> THEN c.at ELSE Last(c.made)

\* All of them fail, and each frees the object it has made.
DotFails(c, h) ==
  [c EXCEPT !.heap = FreeValues(h, Range(c.made)), !.made = <<>>, !.done = TRUE]

\* One call passes its name on the path, or stores the value.
DotPasses(c, path, v) ==
  LET o == Innermost(c)
      m == GetMember(c.heap, o, path[c.n])
  IN  IF c.n = Len(path)
      THEN {IF set.ok THEN [c EXCEPT !.heap = set.heap, !.stored = TRUE] ELSE DotFails(c, set.heap) :
            set \in SetValue(c.heap, o, path[c.n], v)}
      ELSE IF m = NULL
      THEN {IF new.id = NULL THEN DotFails(c, new.heap)
            ELSE [c EXCEPT !.heap = new.heap, !.made = Append(@, new.id), !.n = @ + 1] :
            new \in New(c.heap, "object")}
      ELSE IF c.heap.kind[m] = "object" THEN {[c EXCEPT !.at = m, !.n = @ + 1]}
      ELSE {DotFails(c, c.heap)}

\* One call adds the object it has made to the one around it; when that fails it
\* takes the value out again.
DotReturns(c, path) ==
  LET around == [c EXCEPT !.made = Front(@), !.n = @ - 1]
      object == Last(c.made)
  IN  IF c.made = <<>> THEN {[c EXCEPT !.done = TRUE, !.ok = TRUE]}
      ELSE {IF add.ok THEN [around EXCEPT !.heap = add.heap]
            ELSE DotFails(c, DotRemove(add.heap, object, path, c.n, FALSE).heap) :
            add \in Add(c.heap, Innermost(around), path[c.n - 1], object)}

DotStep(c, path, v) ==
  IF c.done THEN {c} ELSE IF c.stored THEN DotReturns(c, path) ELSE DotPasses(c, path, v)

\* What the calls can have come to after some steps; none takes more than two.
DotSteps(h, o, path, v, last) ==
  LET steps[n \in 0 .. last] ==
        IF n = 0 THEN {Setting(h, o)} ELSE UNION {DotStep(c, path, v) : c \in steps[n - 1]}
  IN  steps[last]
DotSet(h, o, path, v) == {c \in DotSteps(h, o, path, v, 2 * Len(path)) : c.done}

-----------------------------------------------------------------------------
\* Faulty variant: the value of a call that failed is forgotten.
KeepAnyway(outcome, v) == outcome.heap

\* json_array_append_string and the nineteen functions like it: a new value is
\* made and passed on; when the call fails the value is freed.
FreeUnlessOk(outcome, v) == IF outcome.ok THEN outcome.heap ELSE FreeValue(outcome.heap, v)

WithNew(new, outcomes) ==
  IF new.id = NULL THEN {new.heap} ELSE {FreeUnlessOk(o, new.id) : o \in outcomes}

-----------------------------------------------------------------------------
(* json_parse_string and json_value_deep_copy build a value from the       *)
(* outside to the inside.  The calls that are under way:                   *)
(*   open: the containers that are being filled, each with its name in the *)
(*      one before it and the value it is a copy of;                       *)
(*   done, id: whether all have returned, and what.                        *)
Building(h, open) == [heap |-> h, open |-> open, done |-> FALSE, id |-> NULL]
Built(h, v) == [heap |-> h, open |-> <<>>, done |-> TRUE, id |-> v]

\* Whatever fails, each call frees the container it was filling.
GivenUp(c) == Built(FreeValues(c.heap, {f.value : f \in Range(c.open)}), NULL)

\* A value is made.
Start(c, kind, name, from) ==
  {IF new.id = NULL THEN GivenUp(c)
   ELSE Building(new.heap, Append(c.open, [value |-> new.id, name |-> name, from |-> from])) :
   new \in New(c.heap, kind)}

\* The innermost one is complete and goes into the container around it.
Complete(c) ==
  LET it     == Last(c.open)
      around == Front(c.open)
  IN  IF around = <<>> THEN {Built(c.heap, it.value)}
      ELSE {IF add.ok THEN Building(add.heap, around) ELSE GivenUp(c) :
            add \in Add(c.heap, Last(around).value, it.name, it.value)}

\* parse_array_value trims the array in the end, for which it allocates memory.
Trims(c) == LET v == Last(c.open).value IN c.heap.kind[v] = "array" /\ c.heap.items[v] # <<>>

\* The next mark of a text, in parse_value and the functions it calls.  A name or a
\* string needs memory before its value does; what is behind the first value is
\* not looked at.
ParseMark(c, mark) ==
  CASE c.done -> {c}
    [] ~c.done /\ mark = Closes ->
         IF c.open = <<>> THEN {GivenUp(c)}
         ELSE Complete(c) \union (IF Trims(c) THEN {GivenUp(c)} ELSE {})
    [] ~c.done /\ mark # Closes ->
         {GivenUp(c)} \union
         UNION {IF d.done \/ mark.kind \notin Scalars THEN {d} ELSE Complete(d) :
                d \in Start(c, mark.kind, mark.name, NULL)}

ParseMarks(h, t) ==
  LET parsed[n \in 0 .. Len(t)] ==
        IF n = 0 THEN {Building(h, <<>>)} ELSE UNION {ParseMark(c, t[n]) : c \in parsed[n - 1]}
  IN  parsed[Len(t)]

\* json_parse_string; a text that ends too early is refused.
ParseText(h, t) == {IF c.done THEN c ELSE GivenUp(c) : c \in ParseMarks(h, t)}

-----------------------------------------------------------------------------
\* The loops of json_value_deep_copy: the next member is copied, or all have been.
CopyStep(c) ==
  LET top  == Last(c.open)
      its  == c.heap.items[top.from]
      n    == Len(c.heap.items[top.value]) + 1
  IN  IF c.done THEN {c}
      ELSE IF n > Len(its) THEN Complete(c)
      ELSE Start(c, c.heap.kind[its[n].value], its[n].name, its[n].value)

CopySteps(h, v, last) ==
  LET copied[n \in 0 .. last] ==
        IF n = 0 THEN Start(Building(h, <<>>), h.kind[v], NULL, v)
        ELSE UNION {CopyStep(c) : c \in copied[n - 1]}
  IN  copied[last]

\* json_value_deep_copy; each copy is begun once and completed once.
DeepCopy(h, v) == {c \in CopySteps(h, v, 2 * Cardinality(Tree(h, v))) : c.done}

-----------------------------------------------------------------------------
(* The caller: one call a step.  It passes values that exist, attaches no  *)
(* value below itself (nothing in the code would refuse that), and frees   *)
(* what it holds.                                                          *)

TreeInit ==
  /\ heap = [kind   |-> [v \in Ids |-> "free"],
             parent |-> [v \in Ids |-> NULL],
             items  |-> [v \in Ids |-> <<>>]]
  /\ roots = {}
  /\ left = {}

Of(kind) == {v \in Live(heap) : heap.kind[v] = kind}

\* The caller gets a new value, or NULL.
Given(new) ==
  /\ heap' = new.heap
  /\ roots' = roots \union ({new.id} \ {NULL})
  /\ UNCHANGED left

\* A call that was passed value v returns.
Passed(v, outcome) ==
  /\ heap' = outcome.heap
  /\ roots' = IF outcome.ok THEN roots \ {v} ELSE roots
  /\ left' = IF ~outcome.ok /\ v \in roots /\ outcome.heap.parent[v] # NULL
             THEN left \union {v} ELSE left

\* A call that was passed none does.
Called(outcomes) ==
  /\ heap' \in outcomes
  /\ UNCHANGED <<roots, left>>

InitValue == \E kind \in Kinds : \E new \in New(heap, kind) : Given(new)

ParseString == \E t \in Texts : \E new \in ParseText(heap, t) : Given(new)

DeepCopyValue == \E v \in Live(heap) : \E copy \in DeepCopy(heap, v) : Given(copy)

Free ==
  \E v \in roots :
    /\ heap' = FreeValue(heap, v)
    /\ roots' = roots \ {v}
    /\ left' = left \ {v}

PassToArray ==
  \E a \in Of("array"), v \in Live(heap) :
    /\ a \notin Tree(heap, v)
    /\ \E o \in AppendValue(heap, a, v) \union
                UNION {ReplaceValue(heap, a, n, v) : n \in 1 .. Len(heap.items[a]) + 1} :
         Passed(v, o)

PassToObject ==
  \E object \in Of("object"), v \in Live(heap), path \in Paths :
    /\ object \notin Tree(heap, v)
    /\ \E o \in DotSet(heap, object, path, v) : Passed(v, o)

ArrayCall ==
  \E a \in Of("array") :
    \/ \E kind \in Scalars : \E new \in New(heap, kind) :
         Called(WithNew(new, AppendValue(new.heap, a, new.id)))
    \/ \E n \in 1 .. Len(heap.items[a]) + 1 :
         \/ \E kind \in Scalars : \E new \in New(heap, kind) :
              Called(WithNew(new, ReplaceValue(new.heap, a, n, new.id)))
         \/ Called({RemoveAtIx(heap, a, n).heap})
    \/ Called({ClearItems(heap, a)})

ObjectCall ==
  \E object \in Of("object") :
    \/ \E path \in Paths :
         \/ \E kind \in Scalars : \E new \in New(heap, kind) :
              Called(WithNew(new, DotSet(new.heap, object, path, new.id)))
         \/ Called({DotRemove(heap, object, path, 1, TRUE).heap})
    \/ Called({ClearItems(heap, object)})

TreeNext ==
  \/ InitValue \/ ParseString \/ DeepCopyValue \/ Free
  \/ PassToArray \/ PassToObject
  \/ ArrayCall \/ ObjectCall

TreeSpec == TreeInit /\ [][TreeNext]_treeVars

-----------------------------------------------------------------------------
(* Properties.                                                             *)

TreeTypeOK ==
  /\ heap.kind \in [Ids -> Kinds \union {"free"}]
  /\ heap.parent \in [Ids -> Ids \union {NULL}]
  /\ heap.items \in [Ids -> Seq([name : MemberNames \union {NULL}, value : Ids])]
  /\ left \subseteq roots /\ roots \subseteq Live(heap)

\* Where a value is kept: the slots of live containers that hold it.
SlotsOf(v) ==
  UNION {{c} \X {n \in DOMAIN heap.items[c] : heap.items[c][n].value = v} : c \in Live(heap)}

\* Every value has one owner, the caller or one slot of one container, and what
\* a container holds has not been freed: json_value_free of what the caller
\* holds frees everything once.
OneOwner ==
  \A v \in Ids :
    Cardinality(SlotsOf(v)) = IF v \in Live(heap) \ roots THEN 1 ELSE 0

\* A value that the caller can reach from what it holds is never lost, whatever
\* call failed in the middle: nothing leaks.
NothingLeaks == Live(heap) = Below(heap)[roots]

\* Parents are what json_value_get_parent says, and what the calls that take
\* a value refuse it by: a member's is its container, and the caller's values
\* have none and may be passed on (except after a failed dotset, see left).
ParentsTrue ==
  /\ \A c \in Live(heap) : \A m \in Members(heap, c) : heap.parent[m] = c
  /\ \A v \in roots \ left : heap.parent[v] = NULL

\* The names in an object are distinct.
NamesOnce ==
  \A o \in Of("object") : \A m, n \in DOMAIN heap.items[o] :
    heap.items[o][m].name = heap.items[o][n].name => m = n

\* Every value has one owner, whose container is its parent, and no object has two
\* members of one name, after any call and any failure in the middle of one.
TreesSound == OneOwner /\ ParentsTrue /\ NamesOnce
=============================================================================
