---------------------------- MODULE NameValuePairs ----------------------------
(***************************************************************************)
(* What parson.h promises of a JSON object, without its hash table: a map  *)
(* from names to values.  Setting a name creates a pair or replaces its    *)
(* value, removing one removes its pair, and a call that fails changes     *)
(* nothing.                                                                *)
(***************************************************************************)
CONSTANTS Names, Values

VARIABLE pairs  \* a function from some of the names to values

PairsInit == pairs = [n \in {} |-> n]

SetPair(n, v) ==
  pairs' = [m \in DOMAIN pairs \union {n} |-> IF m = n THEN v ELSE pairs[m]]

RemovePair(n) ==
  /\ n \in DOMAIN pairs
  /\ pairs' = [m \in DOMAIN pairs \ {n} |-> pairs[m]]

ClearPairs == pairs' = [n \in {} |-> n]

PairsNext ==
  \/ ClearPairs
  \/ \E n \in Names :
       \/ \E v \in Values : SetPair(n, v)
       \/ RemovePair(n)

PairsSpec == PairsInit /\ [][PairsNext]_pairs
=============================================================================
