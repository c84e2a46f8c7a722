---------------------------- MODULE OrderProcessing ----------------------------
(***************************************************************************)
(* The threads of order_process_server that hand orders to couriers:       *)
(*                                                                         *)
(*   prepare                        one cook thread per order              *)
(*   process_courier_thread         one courier thread per connection      *)
(*   listen_target_delivery_event_thread     one thread, the listener      *)
(*                                                                         *)
(* and the data they share: the list of prepared orders, the queue of      *)
(* couriers without a target and the array of couriers with one.           *)
(*                                                                         *)
(* pc[t] is the call thread t makes next.  A call that takes several steps *)
(* has returned when the thread is no longer inside the queue (at[t]) nor  *)
(* the holder of the mutex it took.  The listener reads the two arrays and *)
(* their counters without a mutex, one read per step.                      *)
(*                                                                         *)
(* deliver_order frees the order and the courier.  The heap is assumed not *)
(* to hand out an address again, so that an object stands for its address; *)
(* comparing a freed object can go either way, freeing one again or using  *)
(* NULL ends the process (failed).  dispatched, freed and deliveries are   *)
(* history variables.                                                      *)
(***************************************************************************)
EXTENDS ReadyOrders, RandomCourierQueue, TargetCouriers

CONSTANTS Listener,  \* listen_target_delivery_event_thread
          Target,    \* the order a courier names, or NULL for "none"
          Leavers    \* the clients that may close their connection

ASSUME ProcessingAssumption ==
  /\ Target \in [Couriers -> Orders \union {NULL}]
  /\ Leavers \subseteq Clients
  /\ Listener \notin Threads

VARIABLES pc,
          courier,     \* the courier_t a courier thread registers
          order,       \* the order_t a courier thread has popped
          scan,        \* the listener's place in its loops and its locals
          dispatched,  \* the couriers allocated so far
          freed,       \* the orders and the couriers deliver_order has freed
          deliveries,  \* who delivered what: <<thread, courier, order>>
          failed       \* the process has died

procVars == <<pc, courier, order, scan, dispatched, freed, deliveries, failed>>

vars == <<readyVars, queueVars, targetVars, procVars>>

Init ==
  /\ ReadyInit
  /\ QueueInit
  /\ TargetInit
  /\ pc = [t \in Threads |-> IF t \in Orders THEN "cooking" ELSE "unconnected"]
  /\ courier = [k \in Clients |-> NULL]
  /\ order = [k \in Clients |-> NULL]
  /\ scan = [at |-> "outer", i |-> 0, j |-> 0, courier |-> NULL, order |-> NULL]
  /\ dispatched = {}
  /\ freed = {}
  /\ deliveries = {}
  /\ failed = FALSE

Running == ~failed /\ ~overrun

Goto(t, here, there) ==
  /\ Running
  /\ pc[t] = here
  /\ at[t] = "idle"
  /\ pc' = [pc EXCEPT ![t] = there]

\* deliver_order(c) with c->order = o, called by thread t.
Deliver(t, c, o) ==
  /\ failed' = ({c, o} \intersect (freed \union {NULL}) # {})
  /\ freed' = freed \union {c, o}
  /\ deliveries' = deliveries \union {<<t, c, o>>}

\* dequeue_random_courier() is called: it returns NULL, or picks a courier.
Dequeue(t) == DequeueEmpty(t) \/ DequeueTake(t)

-----------------------------------------------------------------------------
\* The later statements of a critical section of the queue.
QueueStep(t) ==
  /\ Running
  /\ EnqueueBack(t) \/ EnqueueCount(t) \/ DequeueFront(t) \/ DequeueCount(t)
  /\ UNCHANGED <<readyVars, targetVars, procVars>>

\* prepare: the preparation time is over, look for a courier.
CookDequeue(o) ==
  /\ Goto(o, "cooking", "dequeued")
  /\ Dequeue(o)
  /\ UNCHANGED <<readyVars, targetVars, courier, order, scan, dispatched, freed,
                 deliveries, failed>>

\* prepare: there is one, it takes the order.
CookDeliver(o) ==
  /\ Goto(o, "dequeued", "done")
  /\ ret[o] # NULL
  /\ Deliver(o, ret[o], o)
  /\ UNCHANGED <<readyVars, queueVars, targetVars, courier, order, scan, dispatched>>

\* Faulty variant, the else is missing: the order goes into the list anyway.
CookListAnyway(o) ==
  /\ Running
  /\ pc[o] \in {"dequeued", "done"}
  /\ at[o] = "idle"
  /\ o \notin listed
  /\ pc' = [pc EXCEPT ![o] = "done"]
  /\ AddOrderCount(o) \/ AddOrderOverrun(o)
  /\ UNCHANGED <<queueVars, targetVars, courier, order, scan, dispatched, freed,
                 deliveries, failed>>

\* Faulty variant: the cook looks for a courier again after it has listed its order.
CookListAgain(o) ==
  /\ Goto(o, "dequeued", "cooking")
  /\ ret[o] = NULL
  /\ AddOrderCount(o) \/ AddOrderOverrun(o)
  /\ UNCHANGED <<queueVars, targetVars, courier, order, scan, dispatched, freed,
                 deliveries, failed>>

\* prepare: there is none, the order goes into the list.
CookList(o) ==
  /\ Goto(o, "dequeued", "done")
  /\ ret[o] = NULL
  /\ AddOrderCount(o) \/ AddOrderOverrun(o)
  /\ UNCHANGED <<queueVars, targetVars, courier, order, scan, dispatched, freed,
                 deliveries, failed>>

CookStore(o) ==
  /\ Running
  /\ AddOrderStore(o)
  /\ UNCHANGED <<queueVars, targetVars, procVars>>

-----------------------------------------------------------------------------
\* process_courier_thread: a valid request arrives, its courier is allocated and
\* travels (the sleep lies between this step and the next one of k).  The first
\* request of a connection is the one its thread is created for.
Receive(k, c) ==
  /\ Goto(k, "unconnected", "travelling") \/ Goto(k, "reading", "travelling")
  /\ c \notin dispatched
  /\ courier' = [courier EXCEPT ![k] = c]
  /\ dispatched' = dispatched \union {c}
  /\ UNCHANGED <<readyVars, queueVars, targetVars, order, scan, freed, deliveries, failed>>

\* process_courier_thread: a courier without a target has arrived.
ArriveRandom(k) ==
  /\ Goto(k, "travelling", "arrived")
  /\ Target[courier[k]] = NULL
  /\ EnqueueFull(k, courier[k]) \/ EnqueueStore(k, courier[k])
  /\ UNCHANGED <<readyVars, targetVars, courier, order, scan, dispatched, freed,
                 deliveries, failed>>

\* process_courier_thread: a courier with a target has arrived.
ArriveTarget(k) ==
  /\ Goto(k, "travelling", "arrived")
  /\ Target[courier[k]] # NULL
  /\ AddTargetFull \/ AddTargetCount(courier[k])
  /\ UNCHANGED <<readyVars, queueVars, courier, order, scan, dispatched, freed,
                 deliveries, failed>>

StoreTarget(k) ==
  /\ Running
  /\ courier[k] # NULL
  /\ AddTargetStore(courier[k])
  /\ UNCHANGED <<readyVars, queueVars, procVars>>

\* process_courier_thread: whatever courier has arrived, an order is popped ...
ClientPop(k) ==
  /\ Goto(k, "arrived", "popped")
  /\ g_target_courier_mutex # courier[k]
  /\ \/ PopNull(k) /\ order' = [order EXCEPT ![k] = NULL]
     \/ \E o \in Orders : PopOrder(k, o) /\ order' = [order EXCEPT ![k] = o]
  /\ UNCHANGED <<queueVars, targetVars, courier, scan, dispatched, freed, deliveries, failed>>

\* Faulty variant: no courier is dequeued when there was no order.
ClientDequeueForOrder(k) ==
  /\ Goto(k, "popped", "dequeued")
  /\ \/ order[k] # NULL /\ Dequeue(k)
     \/ order[k] = NULL /\ UNCHANGED queueVars
  /\ UNCHANGED <<readyVars, targetVars, courier, order, scan, dispatched, freed,
                 deliveries, failed>>

\* ... and, whether there was one or not, a courier is dequeued.
ClientDequeue(k) ==
  /\ Goto(k, "popped", "dequeued")
  /\ Dequeue(k)
  /\ UNCHANGED <<readyVars, targetVars, courier, order, scan, dispatched, freed,
                 deliveries, failed>>

ForgetLocals(k) ==
  /\ courier' = [courier EXCEPT ![k] = NULL]
  /\ order' = [order EXCEPT ![k] = NULL]

\* process_courier_thread: both were found, the courier takes the order.
ClientDeliver(k) ==
  /\ Goto(k, "dequeued", "reading")
  /\ order[k] # NULL
  /\ ret[k] # NULL
  /\ Deliver(k, ret[k], order[k])
  /\ ForgetLocals(k)
  /\ UNCHANGED <<readyVars, queueVars, targetVars, scan, dispatched>>

\* process_courier_thread: one of them is missing, the other one is forgotten.
ClientForget(k) ==
  /\ Goto(k, "dequeued", "reading")
  /\ order[k] = NULL \/ ret[k] = NULL
  /\ ForgetLocals(k)
  /\ UNCHANGED <<readyVars, queueVars, targetVars, scan, dispatched, freed,
                 deliveries, failed>>

\* process_courier_thread: read returns 0 or -1, the thread ends.
Disconnect(k) ==
  /\ k \in Leavers
  /\ Goto(k, "reading", "gone")
  /\ DestroyQueueMutex(k)
  /\ UNCHANGED <<readyVars, targetVars, courier, order, scan, dispatched, freed,
                 deliveries, failed>>

-----------------------------------------------------------------------------
\* The listener goes on at a place in its loops.
ListenTo(here, next) ==
  /\ Running
  /\ scan.at = here
  /\ scan' = next

ListenerOnly == UNCHANGED <<pc, courier, order, dispatched>>

ListenerReads ==
  /\ ListenerOnly
  /\ UNCHANGED <<readyVars, queueVars, targetVars, freed, deliveries>>

\* Faulty variant: the outer index is not set back.
ListenOuterOnce ==
  /\ scan.i < s_target_courier_count
  /\ ListenTo("outer", [scan EXCEPT !.at = "inner", !.j = 0])
  /\ ListenerReads /\ UNCHANGED failed

\* for (i = 0; i < s_target_courier_count; ++i); at the end of the array the
\* listener sleeps and starts again.
ListenOuter ==
  /\ \/ /\ scan.i < s_target_courier_count
        /\ ListenTo("outer", [scan EXCEPT !.at = "inner", !.j = 0])
     \/ /\ scan.i >= s_target_courier_count
        /\ ListenTo("outer", [scan EXCEPT !.i = 0, !.j = 0])
  /\ ListenerReads /\ UNCHANGED failed

\* for (j = 0; j < g_ready_order_count; ++j)
ListenInner ==
  /\ \/ /\ scan.j < g_ready_order_count
        /\ ListenTo("inner", [scan EXCEPT !.at = "compare"])
     \/ /\ scan.j >= g_ready_order_count
        /\ ListenTo("inner", [scan EXCEPT !.at = "outer", !.i = scan.i + 1])
  /\ ListenerReads /\ UNCHANGED failed

\* The two slots the listener compares.
Compared == {s_target_couriers[scan.i], g_ready_orders[scan.j]}

\* strcmp(s_target_couriers[i]->target, g_ready_orders[j]->name) == 0, where a
\* freed object has any contents.
ListenCompare ==
  /\ scan.at = "compare"
  /\ NULL \notin Compared
  /\ \E equal \in BOOLEAN :
        /\ \/ Compared \intersect freed # {}
           \/ equal = (Target[s_target_couriers[scan.i]] = g_ready_orders[scan.j])
        /\ ListenTo("compare", IF equal THEN [scan EXCEPT !.at = "courier"]
                               ELSE [scan EXCEPT !.at = "inner", !.j = scan.j + 1])
  /\ ListenerReads /\ UNCHANGED failed

\* A slot that is counted but was never written is NULL: the process dies.
ListenCompareNull ==
  /\ scan.at = "compare"
  /\ NULL \in Compared
  /\ Running
  /\ failed' = TRUE
  /\ UNCHANGED scan
  /\ ListenerReads

\* courier = s_target_couriers[i]
ListenTakeCourier ==
  /\ ListenTo("courier", [scan EXCEPT !.at = "order",
                                      !.courier = s_target_couriers[scan.i]])
  /\ ListenerReads /\ UNCHANGED failed

\* order = g_ready_orders[j]
ListenTakeOrder ==
  /\ ListenTo("order", [scan EXCEPT !.at = "deliver", !.order = g_ready_orders[scan.j]])
  /\ ListenerReads /\ UNCHANGED failed

\* deliver_order(courier)
ListenDeliver ==
  /\ ListenTo("deliver", [scan EXCEPT !.at = "remove_courier"])
  /\ Deliver(Listener, scan.courier, scan.order)
  /\ ListenerOnly
  /\ UNCHANGED <<readyVars, queueVars, targetVars>>

\* remove_target_courier(i)
ListenRemoveTarget ==
  /\ ListenTo("remove_courier", [scan EXCEPT !.at = "remove_order"])
  /\ RemoveTarget(scan.i) \/ RemoveTargetEmpty
  /\ ListenerOnly
  /\ UNCHANGED <<readyVars, queueVars, freed, deliveries, failed>>

\* remove_order(j); break
ListenRemoveOrder ==
  /\ ListenTo("remove_order", [at |-> "outer", i |-> scan.i + 1, j |-> 0,
                               courier |-> NULL, order |-> NULL])
  /\ RemoveOrder(scan.j) \/ RemoveOrderEmpty
  /\ ListenerOnly
  /\ UNCHANGED <<queueVars, targetVars, freed, deliveries, failed>>

-----------------------------------------------------------------------------
CookStep(o) == CookDequeue(o) \/ CookDeliver(o) \/ CookList(o) \/ CookStore(o)

\* What a courier thread does between the arrival of a request and its next read.
ClientStep(k) ==
  \/ ArriveRandom(k) \/ ArriveTarget(k) \/ StoreTarget(k)
  \/ ClientPop(k) \/ ClientDequeue(k) \/ ClientDeliver(k) \/ ClientForget(k)

ListenerStep ==
  \/ ListenOuter \/ ListenInner \/ ListenCompare \/ ListenCompareNull
  \/ ListenTakeCourier \/ ListenTakeOrder
  \/ ListenDeliver \/ ListenRemoveTarget \/ ListenRemoveOrder

Next ==
  \/ \E o \in Orders : CookStep(o)
  \/ \E k \in Clients : ClientStep(k) \/ Disconnect(k) \/ \E c \in Couriers : Receive(k, c)
  \/ \E t \in Threads : QueueStep(t)
  \/ ListenerStep

Spec == Init /\ [][Next]_vars

\* Every thread is scheduled.  Requests and disconnections are the clients' choice.
Fairness ==
  /\ \A o \in Orders : WF_vars(CookStep(o) \/ QueueStep(o))
  /\ \A k \in Clients : WF_vars(ClientStep(k) \/ QueueStep(k))
  /\ WF_vars(ListenerStep)

FairSpec == Spec /\ Fairness

-----------------------------------------------------------------------------
ProcTypeOK ==
  /\ ReadyTypeOK /\ QueueTypeOK /\ TargetTypeOK
  /\ pc \in [Threads -> {"cooking", "dequeued", "done", "unconnected", "reading",
                         "travelling", "arrived", "popped", "gone"}]
  /\ courier \in [Clients -> Couriers \union {NULL}]
  /\ order \in [Clients -> Orders \union {NULL}]
  /\ scan \in [at : {"outer", "inner", "compare", "courier", "order", "deliver",
                     "remove_courier", "remove_order"},
               i : 0 .. TARGET_LIST_SIZE, j : 0 .. ORDER_LIST_SIZE,
               courier : Couriers \union {NULL}, order : Orders \union {NULL}]
  /\ dispatched \subseteq Couriers
  /\ freed \subseteq Orders \union Couriers \union {NULL}
  /\ deliveries \subseteq (Threads \union {Listener}) \X (Couriers \union {NULL})
                                                    \X (Orders \union {NULL})
  /\ failed \in BOOLEAN

\* The deliveries by the cooks and the courier threads.
RandomDeliveries == {d \in deliveries : d[1] # Listener}

\* The cooks and the courier threads never deliver the same order twice, not even
\* when the listener removes other orders than the ones it delivered or when the
\* queue's mutex has been destroyed.
OrderServedOnce ==
  \A d, e \in RandomDeliveries : d[3] = e[3] => d = e

\* Until the first client disconnects, neither do they deliver the same courier
\* twice.
CourierServedOnce ==
  Protected => \A d, e \in RandomDeliveries : d[2] = e[2] => d = e

\* Couriers for any order never pile up: each one in the queue is matched by a
\* courier thread that has not yet dequeued one, with or without an order for it.  So
\* the queue never holds more couriers than there are connections.
WaitingBounded ==
  Protected => Size0 <= Cardinality({k \in Clients : pc[k] \in {"arrived", "popped"}})

\* README.md:75-83 is about a server that hung because a failed lookup kept the
\* mutex.  No thread hangs: every cook ends, and every courier thread comes back to
\* its next read, whatever the others do with the mutexes, the destroyed one included.
ThreadsGoOn ==
  /\ \A o \in Orders : <>(~Running \/ (pc[o] = "done" /\ g_order_mutex # o))
  /\ \A k \in Clients : []<>(~Running \/ pc[k] \in {"unconnected", "reading", "gone"})

\* README.md:48: the listener keeps watching both arrays.  A courier and its order
\* do not wait in them side by side for ever.
MatchNoticed ==
  \A c \in Couriers :
    [](c \in TargetSet /\ Target[c] \in ReadySet
         => <>(~Running \/ c \notin TargetSet \/ Target[c] \notin ReadySet))

-----------------------------------------------------------------------------
\* What the cooks and the courier threads do for the people they serve.  What the
\* listener delivers is left out: it may be an order they have delivered before.
Served == INSTANCE Dispatch WITH
            prepared <- {o \in Orders : pc[o] # "cooking"},
            arrived  <- offered,
            served   <- {<<d[2], d[3]>> : d \in RandomDeliveries},
            promised <- Protected

\* The threads, with their three containers and three mutexes, do no more than hand
\* prepared orders to couriers without a target that have arrived, each of them once,
\* until the first client disconnects.
ImplementsDispatch == Served!DispatchSpec

-----------------------------------------------------------------------------
(***************************************************************************)
(* What README.md says of these threads and the code does not do.          *)
(***************************************************************************)

\* README.md:45: a courier is taken out of the queue to process an order.  So a
\* courier thread that has only one of the two forgets neither the courier, which
\* nobody else can find any more, nor the order.
NothingDropped ==
  [][\A k \in Clients : ClientForget(k) => order[k] = NULL /\ ret[k] = NULL]_vars

\* README.md:43: a courier with a target picks up that order only.
TargetedGetsNamedOrder == \A d \in deliveries : Target[d[2]] \in {NULL, d[3]}

\* README.md:78: the order is taken out of the list and then processed.  No order in
\* the list has been delivered, and freed, already.
ListedOrdersLive == Running => ReadySet \intersect freed = {}
=============================================================================
