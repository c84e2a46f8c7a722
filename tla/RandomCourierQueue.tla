-------------------------- MODULE RandomCourierQueue --------------------------
(***************************************************************************)
(* courier_manager.c: the circular queue of couriers that take any order   *)
(* (s_random_courier_queue) and its mutex (g_random_courier_mutex).        *)
(*                                                                         *)
(* Unlike the list of orders, this queue outlives its mutex: a courier     *)
(* thread whose client disconnects destroys it (courier_manager.c:174).    *)
(* A lock of a destroyed mutex fails at once and the callers ignore its    *)
(* result, so from then on the critical sections overlap.  Each statement  *)
(* of enqueue_random_courier and dequeue_random_courier is therefore a     *)
(* step of its own; the lock and the unlock are part of the first and the  *)
(* last one.                                                               *)
(*                                                                         *)
(* offered and handed are history variables: the couriers given to         *)
(* enqueue_random_courier, and those dequeue_random_courier picked.        *)
(***************************************************************************)
EXTENDS Actors, Integers, Sequences, FiniteSets

CONSTANTS COURIER_QUEUE_SIZE,  \* the length of the queue's array
          DESTROYED            \* a mutex after pthread_mutex_destroy

ASSUME QueueAssumption ==
  /\ COURIER_QUEUE_SIZE \in Nat \ {0}
  /\ NULL # DESTROYED
  /\ {NULL, DESTROYED} \intersect (Couriers \union Threads) = {}

VARIABLES front, back, value_count, values,
          g_random_courier_mutex,  \* its holder, NULL when free, or DESTROYED
          at,                      \* where a thread is inside the two functions
          ret,                     \* dequeue_random_courier's local of that name
          offered, handed

queueVars == <<front, back, value_count, values, g_random_courier_mutex,
               at, ret, offered, handed>>

Cells == 0 .. COURIER_QUEUE_SIZE - 1

\* malloc does not clear values: a cell never written reads as no courier.
QueueInit ==
  /\ front = 0
  /\ back = 0
  /\ value_count = 0
  /\ values = [i \in Cells |-> NULL]
  /\ g_random_courier_mutex = NULL
  /\ at = [t \in Threads |-> "idle"]
  /\ ret = [t \in Threads |-> NULL]
  /\ offered = {}
  /\ handed = {}

Succ(i) == (i + 1) % COURIER_QUEUE_SIZE

\* pthread_mutex_lock returns: with the mutex, or at once with EINVAL.
QueueEnter == g_random_courier_mutex \in {NULL, DESTROYED}

QueueLock(t) ==
  /\ QueueEnter
  /\ g_random_courier_mutex' =
       IF g_random_courier_mutex = DESTROYED THEN DESTROYED ELSE t

QueueUnlock ==
  g_random_courier_mutex' =
    IF g_random_courier_mutex = DESTROYED THEN DESTROYED ELSE NULL

At(t, here, there) ==
  /\ at[t] = here
  /\ at' = [at EXCEPT ![t] = there]

-----------------------------------------------------------------------------
\* enqueue_random_courier(c) on a full queue: the courier is dropped.
EnqueueFull(t, c) ==
  /\ at[t] = "idle"
  /\ QueueEnter
  /\ value_count >= COURIER_QUEUE_SIZE
  /\ offered' = offered \union {c}
  /\ UNCHANGED <<front, back, value_count, values, g_random_courier_mutex,
                 at, ret, handed>>

\* Faulty variant: the size check is off by one.
EnqueueStoreOneTooMany(t, c) ==
  /\ At(t, "idle", "enqueue_back")
  /\ QueueLock(t)
  /\ value_count <= COURIER_QUEUE_SIZE
  /\ values' = [values EXCEPT ![back] = c]
  /\ offered' = offered \union {c}
  /\ UNCHANGED <<front, back, value_count, ret, handed>>

\* values[back] = c
EnqueueStore(t, c) ==
  /\ At(t, "idle", "enqueue_back")
  /\ QueueLock(t)
  /\ value_count < COURIER_QUEUE_SIZE
  /\ values' = [values EXCEPT ![back] = c]
  /\ offered' = offered \union {c}
  /\ UNCHANGED <<front, back, value_count, ret, handed>>

\* Faulty variant: the index is not reduced modulo the size.
EnqueueBackUnwrapped(t) ==
  /\ At(t, "enqueue_back", "enqueue_count")
  /\ back' = back + 1
  /\ UNCHANGED <<front, value_count, values, g_random_courier_mutex, ret,
                 offered, handed>>

\* back = (back + 1) % COURIER_QUEUE_SIZE
EnqueueBack(t) ==
  /\ At(t, "enqueue_back", "enqueue_count")
  /\ back' = Succ(back)
  /\ UNCHANGED <<front, value_count, values, g_random_courier_mutex, ret,
                 offered, handed>>

\* ++value_count
EnqueueCount(t) ==
  /\ At(t, "enqueue_count", "idle")
  /\ value_count' = value_count + 1
  /\ QueueUnlock
  /\ UNCHANGED <<front, back, values, ret, offered, handed>>

\* dequeue_random_courier() on an empty queue returns NULL.
DequeueEmpty(t) ==
  /\ at[t] = "idle"
  /\ QueueEnter
  /\ value_count = 0
  /\ ret' = [ret EXCEPT ![t] = NULL]
  /\ UNCHANGED <<front, back, value_count, values, g_random_courier_mutex,
                 at, offered, handed>>

\* Faulty variant: dequeue_random_courier without the lock.
DequeueTakeUnlocked(t) ==
  /\ At(t, "idle", "dequeue_front")
  /\ value_count # 0
  /\ ret' = [ret EXCEPT ![t] = values[front]]
  /\ handed' = handed \union {values[front]}
  /\ UNCHANGED <<front, back, value_count, values, g_random_courier_mutex, offered>>

\* ret = values[front]
DequeueTake(t) ==
  /\ At(t, "idle", "dequeue_front")
  /\ QueueLock(t)
  /\ value_count # 0
  /\ ret' = [ret EXCEPT ![t] = values[front]]
  /\ handed' = handed \union {values[front]}
  /\ UNCHANGED <<front, back, value_count, values, offered>>

\* front = (front + 1) % COURIER_QUEUE_SIZE
DequeueFront(t) ==
  /\ At(t, "dequeue_front", "dequeue_count")
  /\ front' = Succ(front)
  /\ UNCHANGED <<back, value_count, values, g_random_courier_mutex, ret,
                 offered, handed>>

\* Faulty variant: the counter keeps the courier.
DequeueCountKept(t) ==
  /\ At(t, "dequeue_count", "idle")
  /\ QueueUnlock
  /\ UNCHANGED <<front, back, value_count, values, ret, offered, handed>>

\* --value_count
DequeueCount(t) ==
  /\ At(t, "dequeue_count", "idle")
  /\ value_count' = value_count - 1
  /\ QueueUnlock
  /\ UNCHANGED <<front, back, values, ret, offered, handed>>

\* pthread_mutex_destroy, by a courier thread at the end of its connection: a
\* held mutex stays (EBUSY), a free one is gone for every other thread too.
DestroyQueueMutex(t) ==
  /\ at[t] = "idle"
  /\ g_random_courier_mutex' =
       IF g_random_courier_mutex = NULL THEN DESTROYED ELSE g_random_courier_mutex
  /\ UNCHANGED <<front, back, value_count, values, at, ret, offered, handed>>

-----------------------------------------------------------------------------
(***************************************************************************)
(* The queue alone, under every schedule of its callers.  Every courier is *)
(* allocated for one request and offered at most once.                     *)
(***************************************************************************)
QueueOps ==
  \E t \in Threads :
    \/ \E c \in Couriers \ offered : EnqueueFull(t, c) \/ EnqueueStore(t, c)
    \/ EnqueueBack(t)
    \/ EnqueueCount(t)
    \/ DequeueEmpty(t)
    \/ DequeueTake(t)
    \/ DequeueFront(t)
    \/ DequeueCount(t)
    \/ DestroyQueueMutex(t)

\* Without the mutex the counter can fall below zero and keep falling.
CountFloor == -2

QueueNext ==
  /\ QueueOps
  /\ value_count <= CountFloor => \A t \in Threads : ~DequeueTake(t)

QueueSpec == QueueInit /\ [][QueueNext]_queueVars

-----------------------------------------------------------------------------
Places == {"idle", "enqueue_back", "enqueue_count", "dequeue_front", "dequeue_count"}

QueueTypeOK ==
  /\ front \in Cells
  /\ back \in Cells
  /\ value_count \in Int
  /\ values \in [Cells -> Couriers \union {NULL}]
  /\ g_random_courier_mutex \in Threads \union {NULL, DESTROYED}
  /\ at \in [Threads -> Places]
  /\ ret \in [Threads -> Couriers \union {NULL}]
  /\ offered \subseteq Couriers
  /\ handed \subseteq Couriers \union {NULL}

Protected == g_random_courier_mutex # DESTROYED

\* The thread inside a critical section, if any, and where it is.
Inside(places) == \E t \in Threads : g_random_courier_mutex = t /\ at[t] \in places

\* The couriers in the queue, oldest first.  A courier is in the queue from its
\* store on and out of it as soon as it is picked, whatever the two indices and
\* the counter still have to be set to before the unlock.
Head0 == IF Inside({"dequeue_front"}) THEN Succ(front) ELSE front

Size0 ==
  IF Inside({"enqueue_back", "enqueue_count"}) THEN value_count + 1
  ELSE IF Inside({"dequeue_front", "dequeue_count"}) THEN value_count - 1
  ELSE value_count

Waiting == [k \in 1 .. Size0 |-> values[(Head0 + k - 1) % COURIER_QUEUE_SIZE]]

\* While the mutex exists, at most its holder is inside the two functions, and
\* at every unlock the indices and the counter agree (courier_manager.c:50-52,
\* 107-109): back is value_count cells behind front.
QueueConsistent ==
  Protected =>
    /\ \A t \in Threads : at[t] # "idle" => g_random_courier_mutex = t
    /\ g_random_courier_mutex = NULL =>
         /\ value_count \in 0 .. COURIER_QUEUE_SIZE
         /\ back = (front + value_count) % COURIER_QUEUE_SIZE

\* While the mutex exists, the couriers in the queue are distinct and none of
\* them was handed out before: no two threads get the same courier.
QueueDistinct ==
  Protected =>
    /\ \A j, k \in 1 .. Size0 : Waiting[j] = Waiting[k] => j = k
    /\ \A k \in 1 .. Size0 : Waiting[k] \in offered \ handed

\* While the mutex exists, the queue is a bounded FIFO.
Fifo == INSTANCE CourierFifo WITH
          Capacity <- COURIER_QUEUE_SIZE,
          fifo     <- IF Protected THEN Waiting ELSE <<>>,
          offered  <- IF Protected THEN offered ELSE {},
          promised <- Protected

ImplementsFifo == Fifo!FifoSpec

\* README.md:45: a thread takes one courier out of the queue for its order.
\* No courier is ever picked twice, by anyone, at any time.
CourierPickedOnce ==
  [][\A t \in Threads :
       DequeueTake(t) => values[front] \notin handed \intersect Couriers]_queueVars
=============================================================================
