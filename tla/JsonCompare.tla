------------------------------ MODULE JsonCompare ------------------------------
(***************************************************************************)
(* parson.c: json_value_equals and json_validate, which compare two trees  *)
(* of JsonTree, and json_value_deep_copy, which makes an equal one.        *)
(***************************************************************************)
EXTENDS JsonTree

\* Faulty variant: b may have members that a has not.
CountAtLeast(h, a, b) == Len(h.items[a]) <= Len(h.items[b])

\* Whether counts are compared before the members.
SameCount(h, a, b) == Len(h.items[a]) = Len(h.items[b])

RECURSIVE ValueEquals(_, _, _)
ValueEquals(h, a, b) ==
  /\ b # NULL
  /\ h.kind[a] = h.kind[b]
  /\ SameCount(h, a, b)
  /\ \A n \in DOMAIN h.items[a] :
       LET item == h.items[a][n]
       IN  ValueEquals(h, item.value, IF h.kind[a] = "array" THEN h.items[b][n].value
                                      ELSE GetMember(h, b, item.name))

\* The member of v that one of the schema is compared with.
Counterpart(h, v, item, n) == GetMember(h, v, item.name)

\* json_validate: null as a schema takes everything, an empty container all of
\* its kind; of an array only the first value is a schema.
RECURSIVE Validate(_, _, _)
Validate(h, schema, v) ==
  LET its == h.items[schema]
  IN  \/ h.kind[schema] = "null"
      \/ /\ h.kind[schema] = h.kind[v]
         /\ CASE its = <<>> -> TRUE
              [] its # <<>> /\ h.kind[schema] = "array" ->
                   \A m \in Members(h, v) : Validate(h, Head(its).value, m)
              [] its # <<>> /\ h.kind[schema] = "object" ->
                   /\ Len(h.items[v]) >= Len(its)
                   /\ \A n \in DOMAIN its :
                        LET m == Counterpart(h, v, its[n], n)
                        IN  m # NULL /\ Validate(h, its[n].value, m)

-----------------------------------------------------------------------------
(* Properties.                                                             *)

\* A deep copy equals its original, shares nothing with it, and leaves the rest
\* of the heap alone.
CopiesEqual ==
  \A v \in Live(heap) : \A c \in DeepCopy(heap, v) :
    IF c.id = NULL THEN c.heap = heap
    ELSE /\ ValueEquals(c.heap, v, c.id)
         /\ Tree(c.heap, c.id) \intersect Live(heap) = {}
         /\ \A w \in Live(heap) : c.heap.items[w] = heap.items[w]

\* json_value_equals only walks the members of its first argument, and yet is
\* symmetric.
EqualsSymmetric ==
  \A a, b \in Live(heap) : ValueEquals(heap, a, b) <=> ValueEquals(heap, b, a)

\* What json_validate accepts has every name of the schema, at every depth,
\* whatever the order in which its members were set; and a copy is accepted
\* where its original is.
Fits(schema, v) ==
  heap.kind[schema] = "object" =>
    {item.name : item \in Range(heap.items[schema])} \subseteq
    {item.name : item \in Range(heap.items[v])}

ValidatedHasNames ==
  \A v \in Live(heap) :
    LET copies == {c \in DeepCopy(heap, v) : c.id # NULL}
    IN  \A schema \in Live(heap) :
          Validate(heap, schema, v) =>
            /\ Fits(schema, v)
            /\ heap.kind[schema] = "object" =>
                 \A item \in Range(heap.items[schema]) :
                   Fits(item.value, GetMember(heap, v, item.name))
            /\ \A c \in copies : Validate(c.heap, schema, c.id)
================================================================================
