---------------------------- MODULE TargetCouriers ----------------------------
(***************************************************************************)
(* courier_manager.c: the array of couriers that wait for one named order  *)
(* (s_target_couriers, s_target_courier_count), its mutex, and the two     *)
(* functions that write it.  add_target_courier is called once for a       *)
(* courier_t, by the thread that allocated it, so the mutex' holder is     *)
(* named by the courier; remove_target_courier is called by the listener.  *)
(* As in add_order, the build stores the counter before the slot, and the  *)
(* listener reads both without the mutex.                                  *)
(*                                                                         *)
(* registered is a history variable: the couriers add_target_courier put   *)
(* into the array.                                                         *)
(***************************************************************************)
EXTENDS Actors, Integers, FiniteSets

CONSTANT TARGET_LIST_SIZE  \* the array's length, COURIER_QUEUE_SIZE in the code

ASSUME TargetAssumption ==
  /\ TARGET_LIST_SIZE \in Nat \ {0}
  /\ NULL \notin Couriers

VARIABLES s_target_couriers, s_target_courier_count,
          g_target_courier_mutex,
          registered

targetVars == <<s_target_couriers, s_target_courier_count,
                g_target_courier_mutex, registered>>

TargetSlots == 0 .. TARGET_LIST_SIZE - 1

TargetInit ==
  /\ s_target_couriers = [i \in TargetSlots |-> NULL]
  /\ s_target_courier_count = 0
  /\ g_target_courier_mutex = NULL
  /\ registered = {}

\* pthread_mutex_lock(&g_target_courier_mutex) returns.
TargetMutexFree == g_target_courier_mutex = NULL

\* add_target_courier on a full array: the courier is dropped.
AddTargetFull ==
  /\ TargetMutexFree
  /\ s_target_courier_count = TARGET_LIST_SIZE
  /\ UNCHANGED targetVars

\* add_target_courier(c): lock, then s_target_courier_count++ ...
AddTargetCount(c) ==
  /\ TargetMutexFree
  /\ s_target_courier_count # TARGET_LIST_SIZE
  /\ s_target_courier_count' = s_target_courier_count + 1
  /\ g_target_courier_mutex' = c
  /\ registered' = registered \union {c}
  /\ UNCHANGED s_target_couriers

\* Faulty variant: the store uses the counter that was just raised.
AddTargetStorePast(c) ==
  /\ g_target_courier_mutex = c
  /\ s_target_couriers' = [s_target_couriers EXCEPT ![s_target_courier_count] = c]
  /\ g_target_courier_mutex' = NULL
  /\ UNCHANGED <<s_target_courier_count, registered>>

\* ... and then the store into the slot, and unlock.
AddTargetStore(c) ==
  /\ g_target_courier_mutex = c
  /\ s_target_couriers' =
       [s_target_couriers EXCEPT ![s_target_courier_count - 1] = c]
  /\ g_target_courier_mutex' = NULL
  /\ UNCHANGED <<s_target_courier_count, registered>>

\* remove_target_courier(i): the last courier moves into slot i.
RemoveTarget(i) ==
  /\ TargetMutexFree
  /\ s_target_courier_count > 0
  /\ s_target_couriers' =
       [s_target_couriers EXCEPT ![i] = s_target_couriers[s_target_courier_count - 1]]
  /\ s_target_courier_count' = s_target_courier_count - 1
  /\ UNCHANGED <<g_target_courier_mutex, registered>>

\* remove_target_courier(i) on an empty array: the goto still unlocks.
RemoveTargetEmpty ==
  /\ TargetMutexFree
  /\ s_target_courier_count = 0
  /\ UNCHANGED targetVars

-----------------------------------------------------------------------------
(***************************************************************************)
(* The array alone, under every schedule of its callers.  The listener is  *)
(* the only thread that lowers the counter, so the index it passes is a    *)
(* counted one, though not always the one whose courier it delivered.      *)
(***************************************************************************)
TargetNext ==
  \/ \E c \in Couriers \ registered : AddTargetCount(c)
  \/ \E c \in Couriers : AddTargetStore(c)
  \/ AddTargetFull
  \/ \E i \in 0 .. s_target_courier_count - 1 : RemoveTarget(i)
  \/ RemoveTargetEmpty

TargetSpec == TargetInit /\ [][TargetNext]_targetVars

-----------------------------------------------------------------------------
TargetTypeOK ==
  /\ s_target_couriers \in [TargetSlots -> Couriers \union {NULL}]
  /\ s_target_courier_count \in 0 .. TARGET_LIST_SIZE
  /\ g_target_courier_mutex \in Couriers \union {NULL}
  /\ registered \subseteq Couriers

\* The slots that are counted and written.
StoredTargets ==
  0 .. (IF TargetMutexFree THEN s_target_courier_count ELSE s_target_courier_count - 1) - 1

\* The couriers in the array.
TargetSet == {s_target_couriers[i] : i \in StoredTargets}

\* A courier is in the pool from the moment the counter includes it; while it is
\* being stored the mutex is held and nobody can remove it.
PooledTargets ==
  IF TargetMutexFree THEN TargetSet ELSE TargetSet \union {g_target_courier_mutex}

TargetPool == INSTANCE OnceOnlyPool WITH
                Items <- Couriers, pool <- PooledTargets, entered <- registered

\* The array implements the pool: whatever counted index the listener removes,
\* every courier enters at most once and leaves at most once, none is duplicated
\* and none but the removed one disappears.
TargetsImplementPool == TargetPool!PoolSpec

\* No two slots hold the same courier, although the freed slot is overwritten
\* with the last one and stale pointers stay behind the counter.
TargetsDistinct ==
  \A i, j \in StoredTargets : s_target_couriers[i] = s_target_couriers[j] => i = j
=============================================================================
