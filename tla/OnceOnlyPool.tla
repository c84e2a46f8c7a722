----------------------------- MODULE OnceOnlyPool -----------------------------
(***************************************************************************)
(* What each of the two arrays of the server promises to the threads that  *)
(* share it, without its slots, its counter or its mutex: a pool that every *)
(* item enters at most once and leaves at most once.                       *)
(***************************************************************************)
EXTENDS FiniteSets

CONSTANT Items

VARIABLES pool,    \* the items waiting in the array
          entered  \* every item that was ever put into it

poolVars == <<pool, entered>>

PoolInit ==
  /\ pool = {}
  /\ entered = {}

\* A thread puts a new item into the pool.
Put(x) ==
  /\ x \notin entered
  /\ pool' = pool \union {x}
  /\ entered' = entered \union {x}

\* One thread takes one item out of the pool, and nobody else can have it.
Take(x) ==
  /\ x \in pool
  /\ pool' = pool \ {x}
  /\ UNCHANGED entered

PoolNext == \E x \in Items : Put(x) \/ Take(x)

PoolSpec == PoolInit /\ [][PoolNext]_poolVars
=============================================================================
