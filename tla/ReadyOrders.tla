----------------------------- MODULE ReadyOrders -----------------------------
(***************************************************************************)
(* order_manager.c: the list of prepared orders (g_ready_orders,           *)
(* g_ready_order_count) and its mutex (g_order_mutex).                     *)
(*                                                                         *)
(* add_order is called by the cook thread of an order, once, with that     *)
(* order: the cook of order o is named o.  pop_random_order_or_null is     *)
(* called by the courier threads (Clients), remove_order by the thread of  *)
(* listen_target_delivery_event_thread.                                    *)
(*                                                                         *)
(* The critical sections of pop_random_order_or_null and remove_order are  *)
(* one step each.  add_order is two: the build stores the incremented      *)
(* counter before the slot, and the listener reads both without the mutex, *)
(* so it can see a counted slot that is not yet written.                   *)
(*                                                                         *)
(* listed and popped are history variables: the orders add_order was       *)
(* called with, and the orders pop_random_order_or_null returned.          *)
(***************************************************************************)
EXTENDS Actors, Integers, FiniteSets

CONSTANT ORDER_LIST_SIZE  \* the length of g_ready_orders

ASSUME ReadyAssumption ==
  /\ ORDER_LIST_SIZE \in Nat \ {0}
  /\ NULL \notin Orders
  /\ Orders \intersect Clients = {}

VARIABLES g_ready_orders, g_ready_order_count, g_order_mutex,
          overrun,   \* add_order has written past the end of g_ready_orders
          listed, popped

readyVars == <<g_ready_orders, g_ready_order_count, g_order_mutex, overrun,
               listed, popped>>

Slots == 0 .. ORDER_LIST_SIZE - 1

ReadyInit ==
  /\ g_ready_orders = [i \in Slots |-> NULL]
  /\ g_ready_order_count = 0
  /\ g_order_mutex = NULL
  /\ overrun = FALSE
  /\ listed = {}
  /\ popped = {}

\* pthread_mutex_lock(&g_order_mutex) returns.
OrderMutexFree == ~overrun /\ g_order_mutex = NULL

\* add_order(o): lock, then g_ready_order_count++ ...
AddOrderCount(o) ==
  /\ OrderMutexFree
  /\ g_ready_order_count < ORDER_LIST_SIZE
  /\ g_ready_order_count' = g_ready_order_count + 1
  /\ g_order_mutex' = o
  /\ listed' = listed \union {o}
  /\ UNCHANGED <<g_ready_orders, overrun, popped>>

\* ... and then the store into the slot, and unlock.
AddOrderStore(o) ==
  /\ ~overrun
  /\ g_order_mutex = o
  /\ g_ready_orders' = [g_ready_orders EXCEPT ![g_ready_order_count - 1] = o]
  /\ g_order_mutex' = NULL
  /\ UNCHANGED <<g_ready_order_count, overrun, listed, popped>>

\* add_order(o) on a full list: nothing checks the size, the store lands
\* behind the array and the list is no longer defined.
AddOrderOverrun(o) ==
  /\ OrderMutexFree
  /\ g_ready_order_count >= ORDER_LIST_SIZE
  /\ overrun' = TRUE
  /\ UNCHANGED <<g_ready_orders, g_ready_order_count, g_order_mutex, listed, popped>>

\* Faulty variant: the last order is not moved into the freed slot.
PopOrderUnmoved(t, o) ==
  /\ OrderMutexFree
  /\ \E i \in 0 .. g_ready_order_count - 1 : o = g_ready_orders[i]
  /\ g_ready_order_count' = g_ready_order_count - 1
  /\ popped' = popped \union {o}
  /\ UNCHANGED <<g_ready_orders, g_order_mutex, overrun, listed>>

\* Faulty variant: --g_ready_order_count is forgotten.
PopOrderUncounted(t, o) ==
  /\ OrderMutexFree
  /\ \E i \in 0 .. g_ready_order_count - 1 :
        /\ o = g_ready_orders[i]
        /\ g_ready_orders' =
             [g_ready_orders EXCEPT ![i] = g_ready_orders[g_ready_order_count - 1]]
  /\ popped' = popped \union {o}
  /\ UNCHANGED <<g_ready_order_count, g_order_mutex, overrun, listed>>

\* pop_random_order_or_null by thread t, with o = g_ready_orders[rand() % count].
PopOrder(t, o) ==
  /\ OrderMutexFree
  /\ \E i \in 0 .. g_ready_order_count - 1 :
        /\ o = g_ready_orders[i]
        /\ g_ready_orders' =
             [g_ready_orders EXCEPT ![i] = g_ready_orders[g_ready_order_count - 1]]
  /\ g_ready_order_count' = g_ready_order_count - 1
  /\ g_order_mutex' = NULL
  /\ popped' = popped \union {o}
  /\ UNCHANGED <<overrun, listed>>

\* Faulty variant, README.md:80-81: return before the unlock.
PopNullKeepsLock(t) ==
  /\ OrderMutexFree
  /\ g_ready_order_count < 1
  /\ g_order_mutex' = t
  /\ UNCHANGED <<g_ready_orders, g_ready_order_count, overrun, listed, popped>>

\* pop_random_order_or_null by thread t returns NULL: the goto still unlocks.
PopNull(t) ==
  /\ OrderMutexFree
  /\ g_ready_order_count < 1
  /\ g_order_mutex' = NULL
  /\ UNCHANGED <<g_ready_orders, g_ready_order_count, overrun, listed, popped>>

\* Faulty variant, g_ready_order_count--: the slot behind the last one moves.
RemoveOrderBehind(i) ==
  /\ OrderMutexFree
  /\ g_ready_order_count \in Slots \ {0}
  /\ g_ready_orders' = [g_ready_orders EXCEPT ![i] = g_ready_orders[g_ready_order_count]]
  /\ g_ready_order_count' = g_ready_order_count - 1
  /\ UNCHANGED <<g_order_mutex, overrun, listed, popped>>

\* remove_order(i): the last order moves into slot i, whatever slot i holds
\* by now; an index at or behind the last slot drops the last order.
RemoveOrder(i) ==
  /\ OrderMutexFree
  /\ g_ready_order_count > 0
  /\ g_ready_orders' =
       [g_ready_orders EXCEPT ![i] = g_ready_orders[g_ready_order_count - 1]]
  /\ g_ready_order_count' = g_ready_order_count - 1
  /\ g_order_mutex' = NULL
  /\ UNCHANGED <<overrun, listed, popped>>

\* remove_order(i) on an empty list: the goto still unlocks.
RemoveOrderEmpty ==
  /\ OrderMutexFree
  /\ g_ready_order_count = 0
  /\ g_order_mutex' = NULL
  /\ UNCHANGED <<g_ready_orders, g_ready_order_count, overrun, listed, popped>>

-----------------------------------------------------------------------------
(***************************************************************************)
(* The list alone, under every schedule of its callers.  The listener's    *)
(* index is one it saw at some earlier time: any slot at all.              *)
(***************************************************************************)
ReadyNext ==
  \/ \E o \in Orders \ listed : AddOrderCount(o) \/ AddOrderOverrun(o)
  \/ \E o \in Orders : AddOrderStore(o)
  \/ \E t \in Clients : PopNull(t) \/ \E o \in Orders : PopOrder(t, o)
  \/ \E i \in Slots : RemoveOrder(i)
  \/ RemoveOrderEmpty

ReadySpec == ReadyInit /\ [][ReadyNext]_readyVars

\* A thread inside add_order is scheduled until it has unlocked.
FairReadySpec == ReadySpec /\ \A o \in Orders : WF_readyVars(AddOrderStore(o))

-----------------------------------------------------------------------------
ReadyTypeOK ==
  /\ g_ready_orders \in [Slots -> Orders \union {NULL}]
  /\ g_ready_order_count \in 0 .. ORDER_LIST_SIZE
  /\ g_order_mutex \in Orders \union {NULL}
  /\ overrun \in BOOLEAN
  /\ listed \subseteq Orders
  /\ popped \subseteq Orders

\* The slots a thread that holds the mutex may rely on: all counted ones but
\* the one add_order is about to write.
StoredCount ==
  IF g_order_mutex = NULL THEN g_ready_order_count ELSE g_ready_order_count - 1

StoredSlots == 0 .. StoredCount - 1

\* The orders in the list.
ReadySet == {g_ready_orders[i] : i \in StoredSlots}

\* The list holds no order twice and no order that pop_random_order_or_null has
\* already handed to a courier thread, although remove_order may be called with
\* an index that is stale (order_manager.c:96, courier_manager.c:211).
ReadyDistinct ==
  /\ \A i, j \in StoredSlots : g_ready_orders[i] = g_ready_orders[j] => i = j
  /\ ReadySet \subseteq listed \ popped

\* add_order never writes behind the array as long as the order file has no more
\* orders than the array has slots: order_manager.c:27 does not check, so this
\* rests on no order being listed twice.
NoOverrun == ~overrun

\* pop_random_order_or_null never returns the same order a second time.
PopsOnce ==
  [][\A t \in Clients, o \in Orders : PopOrder(t, o) => o \notin popped]_readyVars

\* README.md:75-83: a lookup that finds no order must not leave the list locked.
\* Every lock of g_order_mutex is followed by its unlock, on every path.
OrderMutexReleased == []<>(overrun \/ g_order_mutex = NULL)

\* An order is in the pool from the moment the counter includes it; while it is
\* being stored nobody can take it, the mutex is held.
PooledOrders ==
  IF g_order_mutex = NULL THEN ReadySet ELSE ReadySet \union {g_order_mutex}

Pool == INSTANCE OnceOnlyPool WITH Items <- Orders, pool <- PooledOrders, entered <- listed

\* The list implements the pool: whatever the interleaving of add_order,
\* pop_random_order_or_null and remove_order, every order enters at most once
\* and leaves at most once.
ImplementsPool == Pool!PoolSpec
=============================================================================
