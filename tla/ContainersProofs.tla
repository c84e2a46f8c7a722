--------------------------- MODULE ContainersProofs ---------------------------
(***************************************************************************)
(* What TLAPS proves about the list of prepared orders, for every order    *)
(* file, every list size and every number of courier threads; and about    *)
(* the courier queue, for every queue size and any number of threads:      *)
(* until its mutex is destroyed, it is a bounded FIFO whose couriers are   *)
(* distinct and handed out at most once.                                   *)
(***************************************************************************)
EXTENDS ReadyOrders, RandomCourierQueue, FiniteSetTheorems, TLAPS

-----------------------------------------------------------------------------
(* The list of prepared orders.                                            *)

\* The order that add_order has counted but not yet stored is new to the list.
AddingInv ==
  /\ popped \subseteq listed
  /\ g_order_mutex # NULL =>
       /\ g_ready_order_count >= 1
       /\ g_order_mutex \in listed \ popped
       /\ g_order_mutex \notin ReadySet

\* The inductive invariant of the list.
ReadyInv == ReadyTypeOK /\ ReadyDistinct /\ AddingInv

-----------------------------------------------------------------------------
\* The stored slots are slots, and the last one is the last counted one when no
\* add_order is under way.
LEMMA StoredSlotsAreSlots ==
  ASSUME ReadyTypeOK, AddingInv
  PROVE  /\ StoredCount \in 0 .. ORDER_LIST_SIZE
         /\ StoredSlots \subseteq Slots
  BY ReadyAssumption DEF ReadyTypeOK, AddingInv, StoredCount, StoredSlots, Slots

\* The initial list satisfies the inductive invariant: nothing is stored.
LEMMA ReadyInvInit == ReadyInit => ReadyInv
<1> SUFFICES ASSUME ReadyInit PROVE ReadyInv
  OBVIOUS
<1>1. StoredSlots = {}
  BY DEF ReadyInit, StoredSlots, StoredCount
<1>2. ReadyTypeOK
  <2>1. overrun \in BOOLEAN
    BY Zenon DEF ReadyInit
  <2>. QED  BY <2>1, ReadyAssumption DEF ReadyInit, ReadyTypeOK
<1>3. ReadyDistinct
  BY <1>1 DEF ReadyDistinct, ReadySet
<1>4. AddingInv
  BY DEF ReadyInit, AddingInv
<1>. QED  BY <1>2, <1>3, <1>4 DEF ReadyInv

\* add_order's first half (order_manager.c:25-27) stores nothing yet.
LEMMA AddOrderCountInv ==
  ASSUME ReadyInv, NEW o \in Orders \ listed, AddOrderCount(o)
  PROVE  ReadyInv'
<1> USE ReadyAssumption DEF ReadyInv, AddOrderCount, OrderMutexFree
<1>1. StoredSlots' = StoredSlots
  BY DEF ReadyTypeOK, StoredSlots, StoredCount
<1>2. ReadySet' = ReadySet
  BY <1>1 DEF ReadySet
<1>3. ReadyTypeOK'
  BY DEF ReadyTypeOK
<1>4. ReadyDistinct'
  BY <1>1, <1>2 DEF ReadyDistinct
<1>5. AddingInv'
  BY <1>2 DEF AddingInv, ReadyDistinct, ReadyTypeOK
<1>. QED  BY <1>3, <1>4, <1>5

\* add_order's second half (order_manager.c:27-29): the set of stored orders
\* grows by the new one.
LEMMA AddOrderStoreSet ==
  ASSUME ReadyInv, NEW o \in Orders, AddOrderStore(o)
  PROVE  /\ StoredSlots' = StoredSlots \union {StoredCount}
         /\ StoredCount \in Slots
         /\ \A i \in StoredSlots : g_ready_orders'[i] = g_ready_orders[i]
         /\ g_ready_orders'[StoredCount] = o
         /\ ReadySet' = ReadySet \union {o}
<1> USE ReadyAssumption DEF ReadyInv, AddOrderStore
<1>1. /\ StoredSlots' = StoredSlots \union {StoredCount}
      /\ StoredCount \in Slots
      /\ StoredCount = g_ready_order_count - 1
  BY DEF ReadyTypeOK, AddingInv, StoredSlots, StoredCount, Slots
<1>2. \A i \in StoredSlots : i \in Slots /\ i # StoredCount
  BY StoredSlotsAreSlots DEF StoredSlots
<1>3. /\ \A i \in StoredSlots : g_ready_orders'[i] = g_ready_orders[i]
      /\ g_ready_orders'[StoredCount] = o
  BY <1>1, <1>2 DEF ReadyTypeOK
<1>4. ReadySet' = ReadySet \union {o}
  BY <1>1, <1>3 DEF ReadySet
<1>. QED  BY <1>1, <1>3, <1>4

\* Storing the order keeps the list distinct: the order is new to it.
LEMMA AddOrderStoreInv ==
  ASSUME ReadyInv, NEW o \in Orders, AddOrderStore(o)
  PROVE  ReadyInv'
<1> USE ReadyAssumption DEF ReadyInv
<1>1. ReadyTypeOK'
  BY DEF ReadyTypeOK, AddOrderStore
<1>2. o \in listed \ popped /\ o \notin ReadySet
  BY DEF AddOrderStore, AddingInv
<1>3. ReadyDistinct'
  <2>1. \A i \in StoredSlots : g_ready_orders[i] # o
    BY <1>2 DEF ReadySet
  <2>2. \A i, j \in StoredSlots' : g_ready_orders'[i] = g_ready_orders'[j] => i = j
    BY <2>1, AddOrderStoreSet DEF ReadyDistinct
  <2>3. ReadySet' \subseteq listed' \ popped'
    <3>1. ReadySet' = ReadySet \union {o}
      BY AddOrderStoreSet
    <3>2. listed' = listed /\ popped' = popped
      BY DEF AddOrderStore
    <3>3. ReadySet \subseteq listed \ popped
      BY DEF ReadyDistinct
    <3>. QED  BY ONLY <1>2, <3>1, <3>2, <3>3
  <2>. QED  BY <2>2, <2>3 DEF ReadyDistinct
<1>4. AddingInv'
  BY DEF AddingInv, AddOrderStore
<1>. QED  BY <1>1, <1>3, <1>4

\* What both pop_random_order_or_null and remove_order do to the array: the last
\* order is moved into slot i and the count goes down by one.
MoveLastInto(i) ==
  /\ OrderMutexFree
  /\ g_ready_order_count > 0
  /\ g_ready_orders' =
       [g_ready_orders EXCEPT ![i] = g_ready_orders[g_ready_order_count - 1]]
  /\ g_ready_order_count' = g_ready_order_count - 1
  /\ g_order_mutex' = NULL
  /\ UNCHANGED <<overrun, listed>>

\* Exactly one order leaves the list: the one in slot i, or, when i is at or
\* behind the last counted slot, the last one.
LEMMA MoveLastRemovesOne ==
  ASSUME ReadyInv, NEW i \in Slots, MoveLastInto(i)
  PROVE  LET k == IF i < g_ready_order_count THEN i ELSE g_ready_order_count - 1
         IN  /\ k \in StoredSlots
             /\ g_ready_orders[k] \in ReadySet
             /\ ReadySet' = ReadySet \ {g_ready_orders[k]}
             /\ \A x, y \in StoredSlots' :
                   g_ready_orders'[x] = g_ready_orders'[y] => x = y
<1> USE ReadyAssumption DEF ReadyInv, MoveLastInto, OrderMutexFree
<1> DEFINE last == g_ready_order_count - 1
           k    == IF i < g_ready_order_count THEN i ELSE last
           from(x) == IF x = i THEN last ELSE x
<1>1. /\ StoredSlots = 0 .. last
      /\ StoredSlots' = 0 .. last - 1
      /\ last \in StoredSlots
      /\ last \in Slots
      /\ StoredSlots \subseteq Slots
      /\ k \in StoredSlots
  BY DEF ReadyTypeOK, StoredSlots, StoredCount, Slots
<1>2. \A x \in StoredSlots' :
         /\ from(x) \in StoredSlots
         /\ from(x) # k
         /\ g_ready_orders'[x] = g_ready_orders[from(x)]
  BY <1>1 DEF ReadyTypeOK, Slots
<1>3. \A x, y \in StoredSlots' : from(x) = from(y) => x = y
  BY <1>1
<1>4. \A z \in StoredSlots \ {k} : \E x \in StoredSlots' : from(x) = z
  <2> TAKE z \in StoredSlots \ {k}
  <2>1. CASE z = last
    <3>1. i \in StoredSlots' /\ from(i) = z
      BY <1>1, <2>1 DEF Slots
    <3>. QED  BY <3>1
  <2>2. CASE z # last
    <3>1. z \in StoredSlots' /\ z # i
      BY <1>1, <2>2 DEF Slots, ReadyTypeOK
    <3>. QED  BY <3>1
  <2>. QED  BY <2>1, <2>2
<1>5. \A x, y \in StoredSlots : g_ready_orders[x] = g_ready_orders[y] => x = y
  BY DEF ReadyDistinct
<1>6. \A x, y \in StoredSlots' : g_ready_orders'[x] = g_ready_orders'[y] => x = y
  <2> HIDE DEF from, k, last
  <2>. QED  BY <1>2, <1>3, <1>5
<1>7. ReadySet' = {g_ready_orders'[x] : x \in StoredSlots'}
  BY DEF ReadySet
<1>8. ReadySet' = ReadySet \ {g_ready_orders[k]}
  <2> HIDE DEF from, k, last
  <2>1. ASSUME NEW o \in ReadySet' PROVE o \in ReadySet \ {g_ready_orders[k]}
    <3>1. PICK x \in StoredSlots' : o = g_ready_orders'[x]
      BY <1>7, <2>1
    <3>. QED  BY <3>1, <1>1, <1>2, <1>5 DEF ReadySet
  <2>2. ASSUME NEW o \in ReadySet \ {g_ready_orders[k]} PROVE o \in ReadySet'
    <3>1. PICK z \in StoredSlots : o = g_ready_orders[z]
      BY <2>2 DEF ReadySet
    <3>2. z \in StoredSlots \ {k}
      BY <3>1, <2>2
    <3>3. PICK x \in StoredSlots' : from(x) = z
      BY <3>2, <1>4
    <3>. QED  BY <3>1, <3>3, <1>2, <1>7
  <2>. QED  BY <2>1, <2>2
<1>. QED  BY <1>1, <1>6, <1>8 DEF ReadySet

\* pop_random_order_or_null hands out an order of the list and takes it off.
LEMMA PopOrderInv ==
  ASSUME ReadyInv, NEW t, NEW o \in Orders, PopOrder(t, o)
  PROVE  /\ ReadyInv'
         /\ o \in ReadySet
         /\ ReadySet' = ReadySet \ {o}
<1> USE ReadyAssumption DEF ReadyInv
<1>1. PICK i \in 0 .. g_ready_order_count - 1 :
         /\ o = g_ready_orders[i]
         /\ g_ready_orders' =
              [g_ready_orders EXCEPT ![i] = g_ready_orders[g_ready_order_count - 1]]
  BY DEF PopOrder
<1>2. i \in Slots /\ i < g_ready_order_count /\ MoveLastInto(i)
  <2>1. i \in Slots /\ i < g_ready_order_count /\ g_ready_order_count > 0
    BY <1>1 DEF ReadyTypeOK, Slots
  <2>. QED  BY <1>1, <2>1 DEF PopOrder, MoveLastInto
<1>3. /\ o \in ReadySet
      /\ ReadySet' = ReadySet \ {o}
      /\ \A x, y \in StoredSlots' : g_ready_orders'[x] = g_ready_orders'[y] => x = y
  BY <1>1, <1>2, MoveLastRemovesOne
<1>4. ReadyTypeOK'
  BY <1>1, <1>2 DEF ReadyTypeOK, PopOrder, OrderMutexFree, Slots
<1>5. ReadyDistinct'
  BY <1>3 DEF ReadyDistinct, PopOrder
<1>6. AddingInv'
  BY <1>3 DEF AddingInv, ReadyDistinct, PopOrder
<1>. QED  BY <1>3, <1>4, <1>5, <1>6

\* remove_order takes exactly one order off a list that is not empty.
LEMMA RemoveOrderInv ==
  ASSUME ReadyInv, NEW i \in Slots, RemoveOrder(i)
  PROVE  /\ ReadyInv'
         /\ \E o \in ReadySet : ReadySet' = ReadySet \ {o}
<1> USE ReadyAssumption DEF ReadyInv
<1>1. MoveLastInto(i)
  BY DEF RemoveOrder, MoveLastInto
<1>2. /\ \E o \in ReadySet : ReadySet' = ReadySet \ {o}
      /\ \A x, y \in StoredSlots' : g_ready_orders'[x] = g_ready_orders'[y] => x = y
  BY <1>1, MoveLastRemovesOne
<1>3. ReadyTypeOK'
  BY DEF ReadyTypeOK, RemoveOrder, OrderMutexFree, Slots
<1>4. ReadyDistinct'
  BY <1>2 DEF ReadyDistinct, RemoveOrder
<1>5. AddingInv'
  BY DEF AddingInv, RemoveOrder
<1>. QED  BY <1>2, <1>3, <1>4, <1>5

\* A step that leaves array, count and mutex alone, as a lookup in an empty list
\* and an overrun do, preserves the invariant.
LEMMA UnlistedInv ==
  ASSUME ReadyInv, overrun' \in BOOLEAN,
         UNCHANGED <<g_ready_orders, g_ready_order_count, g_order_mutex, listed, popped>>
  PROVE  ReadyInv' /\ ReadySet' = ReadySet
<1>1. StoredCount' = StoredCount /\ StoredSlots' = StoredSlots /\ ReadySet' = ReadySet
  BY DEF StoredCount, StoredSlots, ReadySet
<1>. QED
  BY <1>1 DEF ReadyInv, ReadyTypeOK, ReadyDistinct, AddingInv

\* Every step of the list preserves the inductive invariant.
LEMMA ReadyInvNext == ReadyInv /\ [ReadyNext]_readyVars => ReadyInv'
<1> SUFFICES ASSUME ReadyInv, [ReadyNext]_readyVars PROVE ReadyInv'
  OBVIOUS
<1>1. CASE \E o \in Orders \ listed : AddOrderCount(o)
  BY <1>1, AddOrderCountInv
<1>2. CASE \E o \in Orders \ listed : AddOrderOverrun(o)
  BY <1>2, UnlistedInv DEF AddOrderOverrun
<1>3. CASE \E o \in Orders : AddOrderStore(o)
  BY <1>3, AddOrderStoreInv
<1>4. CASE \E t \in Clients, o \in Orders : PopOrder(t, o)
  BY <1>4, PopOrderInv
<1>5. CASE \E t \in Clients : PopNull(t)
  BY <1>5, UnlistedInv DEF PopNull, OrderMutexFree, ReadyInv, ReadyTypeOK
<1>6. CASE \E i \in Slots : RemoveOrder(i)
  BY <1>6, RemoveOrderInv
<1>7. CASE RemoveOrderEmpty
  BY <1>7, UnlistedInv DEF RemoveOrderEmpty, OrderMutexFree, ReadyInv, ReadyTypeOK
<1>8. CASE UNCHANGED readyVars
  BY <1>8, UnlistedInv DEF readyVars, ReadyInv, ReadyTypeOK
<1>. QED
  BY <1>1, <1>2, <1>3, <1>4, <1>5, <1>6, <1>7, <1>8 DEF ReadyNext

\* The inductive invariant holds in every reachable state.
THEOREM ReadyInvariant == ReadySpec => []ReadyInv
  BY ReadyInvInit, ReadyInvNext, PTL DEF ReadySpec

\* Type correctness of the list.
THEOREM ReadyTypeCorrect == ReadySpec => []ReadyTypeOK
<1>1. ReadyInv => ReadyTypeOK
  BY DEF ReadyInv
<1>. QED  BY <1>1, ReadyInvariant, PTL

\* No order is in the list twice, and none that was handed out, whatever index
\* remove_order is called with.
THEOREM ReadyStaysDistinct == ReadySpec => []ReadyDistinct
<1>1. ReadyInv => ReadyDistinct
  BY DEF ReadyInv
<1>. QED  BY <1>1, ReadyInvariant, PTL

\* pop_random_order_or_null hands out every order at most once.
THEOREM EveryPopIsNew == ReadySpec => PopsOnce
<1>1. ASSUME ReadyInv, NEW t \in Clients, NEW o \in Orders, PopOrder(t, o)
      PROVE  o \notin popped
  BY <1>1, PopOrderInv DEF ReadyInv, ReadyDistinct
<1>2. ReadyInv => [\A t \in Clients, o \in Orders : PopOrder(t, o) => o \notin popped]_readyVars
  BY <1>1
<1>. QED  BY <1>2, ReadyInvariant, PTL DEF PopsOnce

-----------------------------------------------------------------------------
\* A list whose stored orders are distinct and miss an order of the file is not
\* full: the slots inject into the other orders.
LEMMA RoomForNewOrder ==
  ASSUME IsFiniteSet(Orders), Cardinality(Orders) <= ORDER_LIST_SIZE,
         ReadyInv, g_order_mutex = NULL,
         NEW o \in Orders \ listed
  PROVE  g_ready_order_count < ORDER_LIST_SIZE
<1> DEFINE others == Orders \ {o}
           f == [i \in StoredSlots |-> g_ready_orders[i]]
<1>1. StoredSlots = 0 .. g_ready_order_count - 1 /\ g_ready_order_count \in Nat
  BY DEF ReadyInv, ReadyTypeOK, StoredSlots, StoredCount
<1>2. IsFiniteSet(others) /\ Cardinality(others) = Cardinality(Orders) - 1
  BY FS_RemoveElement
<1>3. f \in Injection(StoredSlots, others)
  <2>1. \A i \in StoredSlots : g_ready_orders[i] \in others
    BY DEF ReadyInv, ReadyDistinct, ReadySet, ReadyTypeOK
  <2>2. \A i, j \in StoredSlots : f[i] = f[j] => i = j
    BY DEF ReadyInv, ReadyDistinct
  <2>. QED  BY <2>1, <2>2 DEF Injection, IsInjective
<1>4. Cardinality(StoredSlots) <= Cardinality(others)
  BY <1>2, <1>3, FS_Injection
<1>5. Cardinality(StoredSlots) = g_ready_order_count
  BY <1>1, FS_Interval
<1>6. Cardinality(Orders) \in Nat
  BY FS_CardinalityType
<1>. QED  BY <1>1, <1>2, <1>4, <1>5, <1>6, ReadyAssumption

\* With no more orders in the file than slots in the array, no step of the list
\* writes behind the array.
LEMMA NoOverrunNext ==
  ASSUME IsFiniteSet(Orders), Cardinality(Orders) <= ORDER_LIST_SIZE,
         ReadyInv, NoOverrun, [ReadyNext]_readyVars
  PROVE  NoOverrun'
<1>1. ASSUME NEW o \in Orders \ listed, AddOrderOverrun(o) PROVE FALSE
  <2>1. g_order_mutex = NULL /\ g_ready_order_count >= ORDER_LIST_SIZE
    BY <1>1 DEF AddOrderOverrun, OrderMutexFree
  <2>2. g_ready_order_count < ORDER_LIST_SIZE
    BY <2>1, RoomForNewOrder
  <2>. QED  BY <2>1, <2>2, ReadyAssumption DEF ReadyInv, ReadyTypeOK
<1>. QED
  BY <1>1 DEF ReadyNext, readyVars, NoOverrun, AddOrderCount, AddOrderStore,
              PopOrder, PopNull, RemoveOrder, RemoveOrderEmpty

\* add_order never writes behind the array, although it does not check, if the order
\* file is not longer than the array.
THEOREM ListNeverOverruns ==
  ASSUME IsFiniteSet(Orders), Cardinality(Orders) <= ORDER_LIST_SIZE
  PROVE  ReadySpec => []NoOverrun
<1>1. ReadyInit => NoOverrun
  BY DEF ReadyInit, NoOverrun
<1>2. ReadyInv /\ NoOverrun /\ [ReadyNext]_readyVars => NoOverrun'
  BY NoOverrunNext
<1>. QED  BY <1>1, <1>2, ReadyInvariant, PTL DEF ReadySpec

-----------------------------------------------------------------------------
\* A step that takes order o off the list takes it out of the pool.
LEMMA ShrinkTakes ==
  ASSUME g_order_mutex = NULL, g_order_mutex' = NULL, listed' = listed,
         NEW o \in Orders, o \in ReadySet, ReadySet' = ReadySet \ {o}
  PROVE  Pool!PoolNext
<1>1. Pool!Take(o)
  BY DEF Pool!Take, PooledOrders
<1>. QED  BY <1>1 DEF Pool!PoolNext

\* Every step of the list is a step of the pool, or does not change it.
LEMMA ReadyStepIsPoolStep ==
  ASSUME ReadyInv, ReadyInv', [ReadyNext]_readyVars
  PROVE  [Pool!PoolNext]_(Pool!poolVars)
<1> USE ReadyAssumption
<1>1. ASSUME NEW o \in Orders \ listed, AddOrderCount(o)
      PROVE  Pool!PoolNext
  <2>1. StoredSlots' = StoredSlots /\ ReadySet' = ReadySet
    BY <1>1 DEF AddOrderCount, OrderMutexFree, ReadyInv, ReadyTypeOK, StoredSlots,
                StoredCount, ReadySet
  <2>2. PooledOrders = ReadySet /\ PooledOrders' = ReadySet \union {o}
    BY <1>1, <2>1 DEF AddOrderCount, OrderMutexFree, PooledOrders
  <2>3. Pool!Put(o)
    BY <1>1, <2>2 DEF AddOrderCount, Pool!Put
  <2>. QED  BY <2>3 DEF Pool!PoolNext
<1>2. ASSUME NEW o \in Orders, AddOrderStore(o)
      PROVE  UNCHANGED Pool!poolVars
  BY <1>2, AddOrderStoreSet DEF AddOrderStore, PooledOrders, Pool!poolVars
<1>3. ASSUME NEW t \in Clients, NEW o \in Orders, PopOrder(t, o)
      PROVE  Pool!PoolNext
  BY <1>3, PopOrderInv, ShrinkTakes DEF PopOrder, OrderMutexFree
<1>4. ASSUME NEW i \in Slots, RemoveOrder(i)
      PROVE  Pool!PoolNext
  <2>1. PICK o \in ReadySet : ReadySet' = ReadySet \ {o}
    BY <1>4, RemoveOrderInv
  <2>2. o \in Orders
    BY DEF ReadyInv, ReadyDistinct, ReadyTypeOK
  <2>. QED
    BY <1>4, <2>1, <2>2, ShrinkTakes DEF RemoveOrder, OrderMutexFree
<1>5. ASSUME UNCHANGED <<g_ready_orders, g_ready_order_count, g_order_mutex, listed>>
      PROVE  UNCHANGED Pool!poolVars
  BY <1>5 DEF Pool!poolVars, PooledOrders, ReadySet, StoredSlots, StoredCount
<1>6. ASSUME \/ \E o \in Orders \ listed : AddOrderOverrun(o)
             \/ \E t \in Clients : PopNull(t)
             \/ RemoveOrderEmpty
             \/ UNCHANGED readyVars
      PROVE  UNCHANGED Pool!poolVars
  BY <1>5, <1>6 DEF AddOrderOverrun, PopNull, RemoveOrderEmpty, OrderMutexFree, readyVars
<1>. QED
  BY <1>1, <1>2, <1>3, <1>4, <1>6 DEF ReadyNext

\* Nothing is in the list at first.
LEMMA ReadyInitIsPoolInit == ReadyInit => Pool!PoolInit
  BY ReadyAssumption
  DEF ReadyInit, Pool!PoolInit, PooledOrders, ReadySet, StoredSlots, StoredCount

\* The list of prepared orders implements the abstract pool.
THEOREM ListImplementsPool == ReadySpec => ImplementsPool
<1>1. ReadyInit => Pool!PoolInit
  BY ReadyInitIsPoolInit
<1>2. ReadyInv /\ ReadyInv' /\ [ReadyNext]_readyVars => [Pool!PoolNext]_(Pool!poolVars)
  BY ReadyStepIsPoolStep
<1>. QED
  BY <1>1, <1>2, ReadyInvariant, PTL DEF ReadySpec, ImplementsPool, Pool!PoolSpec

-----------------------------------------------------------------------------
(* The queue of couriers.                                                  *)

\* The cell behind the youngest courier, whether back already names it or not.
Tail0 == IF Inside({"enqueue_back"}) THEN Succ(back) ELSE back

\* Only the holder of the mutex is inside the two functions.
HolderInside ==
  /\ \A t \in Threads : at[t] # "idle" => g_random_courier_mutex = t
  /\ \A t \in Threads : g_random_courier_mutex = t => at[t] # "idle"

\* The two indices and the counter agree at every statement of a critical section.
Shape ==
  /\ Size0 \in 0 .. COURIER_QUEUE_SIZE
  /\ Tail0 = (Head0 + Size0) % COURIER_QUEUE_SIZE

\* The inductive invariant of the queue.
QueueInv ==
  /\ QueueTypeOK
  /\ Protected => HolderInside /\ Shape
  /\ QueueDistinct
  /\ Protected => handed \subseteq offered

-----------------------------------------------------------------------------
\* Circular indices: the arithmetic the proofs below need, nothing else.
LEMMA Circular ==
  ASSUME NEW h \in Cells
  PROVE  /\ Succ(h) \in Cells
         /\ \A k \in 0 .. COURIER_QUEUE_SIZE :
              /\ (h + k) % COURIER_QUEUE_SIZE \in Cells
              /\ (h + k) % COURIER_QUEUE_SIZE
                   = IF h + k < COURIER_QUEUE_SIZE THEN h + k ELSE h + k - COURIER_QUEUE_SIZE
         /\ \A k \in 0 .. COURIER_QUEUE_SIZE - 1 :
              /\ (Succ(h) + k) % COURIER_QUEUE_SIZE = (h + k + 1) % COURIER_QUEUE_SIZE
              /\ Succ((h + k) % COURIER_QUEUE_SIZE) = (h + k + 1) % COURIER_QUEUE_SIZE
<1> DEFINE n == COURIER_QUEUE_SIZE
<1>1. n \in Nat \ {0}
  BY QueueAssumption
<1>2. ASSUME NEW x \in 0 .. 2 * n - 1
      PROVE  x % n = IF x < n THEN x ELSE x - n
  BY <1>1, <1>2
<1>3. ASSUME NEW k \in 0 .. n
      PROVE  /\ (h + k) % n \in Cells
             /\ (h + k) % n = IF h + k < n THEN h + k ELSE h + k - n
  <2>1. h + k \in 0 .. 2 * n - 1
    BY <1>1 DEF Cells
  <2>. QED  BY <1>1, <1>2, <2>1 DEF Cells
<1>4. Succ(h) \in Cells /\ Succ(h) = IF h + 1 < n THEN h + 1 ELSE 0
  BY <1>1, <1>3 DEF Succ, Cells
<1>5. ASSUME NEW k \in 0 .. n - 1
      PROVE  /\ (Succ(h) + k) % n = (h + k + 1) % n
             /\ Succ((h + k) % n) = (h + k + 1) % n
  <2>1. h \in 0 .. n - 1 /\ h + k \in 0 .. 2 * n - 1 /\ h + k + 1 \in 0 .. 2 * n - 1
    BY <1>1 DEF Cells
  <2>2. Succ(h) + k \in 0 .. 2 * n - 1
    BY <1>1, <1>4 DEF Cells
  <2>3. (Succ(h) + k) % n = (h + k + 1) % n
    BY <1>1, <1>2, <1>4, <2>1, <2>2
  <2>4. ((h + k) % n) + 1 \in 0 .. 2 * n - 1
    BY <1>1, <1>3 DEF Cells
  <2>5. Succ((h + k) % n) = (h + k + 1) % n
    BY <1>1, <1>2, <2>1, <2>4, SMTT(30) DEF Succ
  <2>. QED  BY <2>3, <2>5
<1>. QED  BY <1>3, <1>4, <1>5

-----------------------------------------------------------------------------
\* The two statements that follow the store or the pick inside a critical section
\* change no courier's place in the queue.
Settling(t) ==
  EnqueueBack(t) \/ EnqueueCount(t) \/ DequeueFront(t) \/ DequeueCount(t)

\* What the whole proof sees of the queue: where it starts and ends, how many
\* couriers it holds, and the array.
View == <<Head0, Size0, Tail0, values>>

\* A thread inside a critical section holds the mutex, and is the only one inside.
LEMMA InsideIsHolder ==
  ASSUME QueueInv, Protected, NEW t \in Threads, at[t] # "idle"
  PROVE  /\ g_random_courier_mutex = t
         /\ \A u \in Threads : u # t => at[u] = "idle"
         /\ Head0 = IF at[t] = "dequeue_front" THEN Succ(front) ELSE front
         /\ Size0 = IF at[t] \in {"enqueue_back", "enqueue_count"} THEN value_count + 1
                    ELSE IF at[t] \in {"dequeue_front", "dequeue_count"} THEN value_count - 1
                    ELSE value_count
         /\ Tail0 = IF at[t] = "enqueue_back" THEN Succ(back) ELSE back
  BY DEF QueueInv, HolderInside, Head0, Size0, Tail0, Inside

\* When the mutex is free, the indices and the counter are the queue.
LEMMA FreeQueue ==
  ASSUME QueueInv, g_random_courier_mutex = NULL
  PROVE  /\ Protected
         /\ \A u \in Threads : at[u] = "idle"
         /\ Head0 = front /\ Size0 = value_count /\ Tail0 = back
  BY QueueAssumption
  DEF QueueInv, QueueTypeOK, HolderInside, Head0, Size0, Tail0, Inside, Protected

\* Settling leaves the view alone.
LEMMA SettlingKeepsView ==
  ASSUME QueueInv, Protected, NEW t \in Threads, Settling(t)
  PROVE  /\ Protected' /\ HolderInside'
         /\ UNCHANGED View
         /\ UNCHANGED <<offered, handed>>
<1> USE QueueAssumption
<1> USE DEF Places
<1>1. at[t] # "idle"
  BY DEF Settling, EnqueueBack, EnqueueCount, DequeueFront, DequeueCount, At
<1>2. /\ g_random_courier_mutex = t
      /\ \A u \in Threads : u # t => at[u] = "idle"
  BY <1>1, InsideIsHolder
<1>3. CASE EnqueueBack(t)
  <2>1. Protected' /\ HolderInside'
    BY <1>2, <1>3 DEF EnqueueBack, At, Protected, HolderInside, QueueInv, QueueTypeOK
  <2>2. UNCHANGED View
    BY <1>1, <1>2, <1>3, InsideIsHolder
    DEF EnqueueBack, At, View, Head0, Size0, Tail0, Inside, QueueInv, QueueTypeOK
  <2>. QED  BY <1>3, <2>1, <2>2 DEF EnqueueBack
<1>4. CASE EnqueueCount(t)
  <2>1. Protected' /\ HolderInside' /\ g_random_courier_mutex' = NULL
    BY <1>2, <1>4 DEF EnqueueCount, QueueUnlock, At, Protected, HolderInside, QueueInv, QueueTypeOK
  <2>2. UNCHANGED View
    BY <1>1, <1>2, <1>4, <2>1, InsideIsHolder
    DEF EnqueueCount, At, View, Head0, Size0, Tail0, Inside, QueueInv, QueueTypeOK
  <2>. QED  BY <1>4, <2>1, <2>2 DEF EnqueueCount
<1>5. CASE DequeueFront(t)
  <2>1. Protected' /\ HolderInside'
    BY <1>2, <1>5 DEF DequeueFront, At, Protected, HolderInside, QueueInv, QueueTypeOK
  <2>2. UNCHANGED View
    BY <1>1, <1>2, <1>5, InsideIsHolder
    DEF DequeueFront, At, View, Head0, Size0, Tail0, Inside, QueueInv, QueueTypeOK
  <2>. QED  BY <1>5, <2>1, <2>2 DEF DequeueFront
<1>6. CASE DequeueCount(t)
  <2>1. Protected' /\ HolderInside' /\ g_random_courier_mutex' = NULL
    BY <1>2, <1>6 DEF DequeueCount, QueueUnlock, At, Protected, HolderInside, QueueInv, QueueTypeOK
  <2>2. UNCHANGED View
    BY <1>1, <1>2, <1>6, <2>1, InsideIsHolder
    DEF DequeueCount, At, View, Head0, Size0, Tail0, Inside, QueueInv, QueueTypeOK
  <2>. QED  BY <1>6, <2>1, <2>2 DEF DequeueCount
<1>. QED  BY <1>3, <1>4, <1>5, <1>6 DEF Settling

\* The store puts the courier behind the youngest one; the queue was not full.
LEMMA StoreAppends ==
  ASSUME QueueInv, Protected, NEW t \in Threads, NEW c \in Couriers, EnqueueStore(t, c)
  PROVE  /\ Protected' /\ HolderInside'
         /\ g_random_courier_mutex = NULL
         /\ Head0' = Head0
         /\ Size0 < COURIER_QUEUE_SIZE
         /\ Size0' = Size0 + 1
         /\ Tail0' = Succ(Tail0)
         /\ values' = [values EXCEPT ![Tail0] = c]
<1> USE QueueAssumption
<1> USE DEF Places
<1>1. g_random_courier_mutex = NULL /\ g_random_courier_mutex' = t
  BY DEF EnqueueStore, QueueLock, QueueEnter, Protected
<1>2. /\ \A u \in Threads : at[u] = "idle"
      /\ Head0 = front /\ Size0 = value_count /\ Tail0 = back
  BY <1>1, FreeQueue
<1>3. at' = [at EXCEPT ![t] = "enqueue_back"] /\ at'[t] = "enqueue_back"
  BY DEF EnqueueStore, At, QueueInv, QueueTypeOK
<1>4. Protected' /\ HolderInside'
  BY <1>1, <1>2, <1>3 DEF Protected, HolderInside, QueueInv, QueueTypeOK
<1>5. Head0' = front /\ Size0' = value_count + 1 /\ Tail0' = Succ(back)
  BY <1>1, <1>3 DEF EnqueueStore, Head0, Size0, Tail0, Inside
<1>. QED
  BY <1>1, <1>2, <1>4, <1>5 DEF EnqueueStore, QueueInv, QueueTypeOK

\* The pick takes the oldest courier; there was one.
LEMMA TakeShortens ==
  ASSUME QueueInv, Protected, NEW t \in Threads, DequeueTake(t)
  PROVE  /\ Protected' /\ HolderInside'
         /\ g_random_courier_mutex = NULL
         /\ Head0 = front
         /\ Head0' = Succ(Head0)
         /\ Size0 > 0
         /\ Size0' = Size0 - 1
         /\ Tail0' = Tail0
         /\ values' = values
<1> USE QueueAssumption
<1> USE DEF Places
<1>1. g_random_courier_mutex = NULL /\ g_random_courier_mutex' = t
  BY DEF DequeueTake, QueueLock, QueueEnter, Protected
<1>2. /\ \A u \in Threads : at[u] = "idle"
      /\ Head0 = front /\ Size0 = value_count /\ Tail0 = back
  BY <1>1, FreeQueue
<1>3. at' = [at EXCEPT ![t] = "dequeue_front"] /\ at'[t] = "dequeue_front"
  BY DEF DequeueTake, At, QueueInv, QueueTypeOK
<1>4. Protected' /\ HolderInside'
  BY <1>1, <1>2, <1>3 DEF Protected, HolderInside, QueueInv, QueueTypeOK
<1>5. Head0' = Succ(front) /\ Size0' = value_count - 1 /\ Tail0' = back
  BY <1>1, <1>3 DEF DequeueTake, Head0, Size0, Tail0, Inside
<1>6. Size0 > 0
  BY <1>2 DEF DequeueTake, QueueInv, Shape, Protected
<1>. QED
  BY <1>1, <1>2, <1>4, <1>5, <1>6 DEF DequeueTake

-----------------------------------------------------------------------------
\* Types survive every step, with or without the mutex.
LEMMA QueueTypeNext == QueueTypeOK /\ [QueueOps]_queueVars => QueueTypeOK'
<1> SUFFICES ASSUME QueueTypeOK, [QueueOps]_queueVars PROVE QueueTypeOK'
  OBVIOUS
<1> USE QueueAssumption DEF QueueTypeOK, Places
<1>1. ASSUME NEW t \in Threads, NEW c \in Couriers, EnqueueFull(t, c)
      PROVE  QueueTypeOK'
  BY <1>1 DEF EnqueueFull
<1>2. ASSUME NEW t \in Threads, NEW c \in Couriers, EnqueueStore(t, c)
      PROVE  QueueTypeOK'
  BY <1>2 DEF EnqueueStore, At, QueueLock
<1>3. ASSUME NEW t \in Threads, EnqueueBack(t)
      PROVE  QueueTypeOK'
  BY <1>3, Circular DEF EnqueueBack, At
<1>4. ASSUME NEW t \in Threads, EnqueueCount(t)
      PROVE  QueueTypeOK'
  BY <1>4 DEF EnqueueCount, At, QueueUnlock
<1>5. ASSUME NEW t \in Threads, DequeueEmpty(t)
      PROVE  QueueTypeOK'
  BY <1>5 DEF DequeueEmpty
<1>6. ASSUME NEW t \in Threads, DequeueTake(t)
      PROVE  QueueTypeOK'
  BY <1>6 DEF DequeueTake, At, QueueLock
<1>7. ASSUME NEW t \in Threads, DequeueFront(t)
      PROVE  QueueTypeOK'
  BY <1>7, Circular DEF DequeueFront, At
<1>8. ASSUME NEW t \in Threads, DequeueCount(t)
      PROVE  QueueTypeOK'
  BY <1>8 DEF DequeueCount, At, QueueUnlock
<1>9. ASSUME NEW t \in Threads, DestroyQueueMutex(t)
      PROVE  QueueTypeOK'
  BY <1>9 DEF DestroyQueueMutex
<1>10. CASE UNCHANGED queueVars
  BY <1>10 DEF queueVars
<1>. QED
  BY <1>1, <1>2, <1>3, <1>4, <1>5, <1>6, <1>7, <1>8, <1>9, <1>10 DEF QueueOps

\* The cells of the couriers in the queue are distinct, and the cell behind the
\* youngest is none of them unless the queue is full.
LEMMA CellsDistinct ==
  ASSUME QueueInv, Protected
  PROVE  /\ Head0 \in Cells
         /\ Tail0 \in Cells
         /\ \A k \in 1 .. Size0 : (Head0 + k - 1) % COURIER_QUEUE_SIZE \in Cells
         /\ Size0 < COURIER_QUEUE_SIZE =>
              \A k \in 1 .. Size0 : (Head0 + k - 1) % COURIER_QUEUE_SIZE # Tail0
<1> USE QueueAssumption
<1>1. Head0 \in Cells
  BY Circular DEF Head0, QueueInv, QueueTypeOK
<1>2. Size0 \in 0 .. COURIER_QUEUE_SIZE /\ Tail0 = (Head0 + Size0) % COURIER_QUEUE_SIZE
  BY DEF QueueInv, Shape
<1>3. Tail0 \in Cells
  BY <1>1, <1>2, Circular
<1>4. ASSUME NEW k \in 1 .. Size0
      PROVE  /\ (Head0 + k - 1) % COURIER_QUEUE_SIZE \in Cells
             /\ Size0 < COURIER_QUEUE_SIZE => (Head0 + k - 1) % COURIER_QUEUE_SIZE # Tail0
  <2>1. k - 1 \in 0 .. COURIER_QUEUE_SIZE /\ Head0 + k - 1 = Head0 + (k - 1)
    BY <1>1, <1>2 DEF Cells
  <2>2. /\ (Head0 + k - 1) % COURIER_QUEUE_SIZE \in Cells
        /\ (Head0 + k - 1) % COURIER_QUEUE_SIZE
             = IF Head0 + (k - 1) < COURIER_QUEUE_SIZE THEN Head0 + (k - 1)
               ELSE Head0 + (k - 1) - COURIER_QUEUE_SIZE
    BY <1>1, <2>1, Circular
  <2>3. Tail0 = IF Head0 + Size0 < COURIER_QUEUE_SIZE THEN Head0 + Size0
                ELSE Head0 + Size0 - COURIER_QUEUE_SIZE
    BY <1>1, <1>2, Circular
  <2>. QED  BY <1>1, <1>2, <2>2, <2>3 DEF Cells
<1>. QED  BY <1>1, <1>3, <1>4

\* The store appends the courier to the waiting ones.
LEMMA StoreWaiting ==
  ASSUME QueueInv, Protected, NEW t \in Threads, NEW c \in Couriers, EnqueueStore(t, c)
  PROVE  /\ Shape'
         /\ Size0' = Size0 + 1
         /\ Waiting'[Size0 + 1] = c
         /\ \A k \in 1 .. Size0 : Waiting'[k] = Waiting[k]
<1> USE QueueAssumption
<1>1. /\ Head0' = Head0
      /\ Size0 \in 0 .. COURIER_QUEUE_SIZE - 1
      /\ Size0' = Size0 + 1
      /\ Tail0' = Succ(Tail0)
      /\ values' = [values EXCEPT ![Tail0] = c]
      /\ Tail0 = (Head0 + Size0) % COURIER_QUEUE_SIZE
  BY StoreAppends DEF QueueInv, Shape
<1>2. Tail0' = (Head0 + Size0 + 1) % COURIER_QUEUE_SIZE
  BY <1>1, CellsDistinct, Circular
<1>3. Shape'
  BY <1>1, <1>2, CellsDistinct DEF Shape, Cells
<1>4. Waiting' = [k \in 1 .. Size0 + 1 |-> values'[(Head0 + k - 1) % COURIER_QUEUE_SIZE]]
  BY <1>1 DEF Waiting
<1>5. Waiting'[Size0 + 1] = c
  <2>1. Waiting'[Size0 + 1] = values'[(Head0 + (Size0 + 1) - 1) % COURIER_QUEUE_SIZE]
    BY <1>1, <1>4
  <2>2. Head0 + (Size0 + 1) - 1 = Head0 + Size0
    BY <1>1, CellsDistinct DEF Cells
  <2>. QED  BY <1>1, <2>1, <2>2, CellsDistinct DEF QueueInv, QueueTypeOK
<1>6. ASSUME NEW k \in 1 .. Size0 PROVE Waiting'[k] = Waiting[k]
  <2>1. Waiting'[k] = values'[(Head0 + k - 1) % COURIER_QUEUE_SIZE]
    BY <1>1, <1>4
  <2>2. Waiting[k] = values[(Head0 + k - 1) % COURIER_QUEUE_SIZE]
    BY DEF Waiting
  <2>. QED  BY <1>1, <2>1, <2>2, CellsDistinct DEF QueueInv, QueueTypeOK
<1>. QED  BY <1>1, <1>3, <1>5, <1>6

\* The pick removes the first of the waiting couriers.
LEMMA TakeWaiting ==
  ASSUME QueueInv, Protected, NEW t \in Threads, DequeueTake(t)
  PROVE  /\ Shape'
         /\ Size0 \in 1 .. COURIER_QUEUE_SIZE
         /\ Size0' = Size0 - 1
         /\ values[front] = Waiting[1]
         /\ \A k \in 1 .. Size0' : Waiting'[k] = Waiting[k + 1]
<1> USE QueueAssumption
<1>1. /\ Head0 = front /\ Head0 \in Cells
      /\ Head0' = Succ(Head0)
      /\ Size0 \in 1 .. COURIER_QUEUE_SIZE
      /\ Size0' = Size0 - 1
      /\ Tail0' = Tail0
      /\ values' = values
      /\ Tail0 = (Head0 + Size0) % COURIER_QUEUE_SIZE
  BY TakeShortens, CellsDistinct DEF QueueInv, Shape
<1>2. \A k \in 0 .. COURIER_QUEUE_SIZE - 1 :
         (Succ(Head0) + k) % COURIER_QUEUE_SIZE = (Head0 + k + 1) % COURIER_QUEUE_SIZE
  BY <1>1, Circular
<1>3. Shape'
  <2>1. Size0 - 1 \in 0 .. COURIER_QUEUE_SIZE - 1 /\ Head0 + (Size0 - 1) + 1 = Head0 + Size0
    BY <1>1 DEF Cells
  <2>. QED  BY <1>1, <1>2, <2>1 DEF Shape
<1>4. values[front] = Waiting[1]
  <2>1. Waiting[1] = values[(Head0 + 1 - 1) % COURIER_QUEUE_SIZE]
    BY <1>1 DEF Waiting
  <2>2. Head0 + 1 - 1 = Head0 + 0 /\ Head0 + 0 = Head0 /\ Head0 < COURIER_QUEUE_SIZE
    BY <1>1 DEF Cells
  <2>3. (Head0 + 0) % COURIER_QUEUE_SIZE = Head0
    BY <1>1, <2>2, Circular
  <2>. QED  BY <1>1, <2>1, <2>2, <2>3
<1>5. ASSUME NEW k \in 1 .. Size0' PROVE Waiting'[k] = Waiting[k + 1]
  <2>1. Waiting'[k] = values[(Succ(Head0) + k - 1) % COURIER_QUEUE_SIZE]
    BY <1>1 DEF Waiting
  <2>2. Waiting[k + 1] = values[(Head0 + (k + 1) - 1) % COURIER_QUEUE_SIZE]
    BY <1>1 DEF Waiting
  <2>3. /\ k - 1 \in 0 .. COURIER_QUEUE_SIZE - 1
        /\ Succ(Head0) + k - 1 = Succ(Head0) + (k - 1)
        /\ Head0 + (k + 1) - 1 = Head0 + (k - 1) + 1
    BY <1>1, Circular DEF Cells
  <2>. QED  BY <1>2, <2>1, <2>2, <2>3
<1>. QED  BY <1>1, <1>3, <1>4, <1>5

-----------------------------------------------------------------------------
\* The initial queue is empty and its mutex free.
LEMMA QueueInvInit == QueueInit => QueueInv
<1> SUFFICES ASSUME QueueInit PROVE QueueInv
  OBVIOUS
<1> USE QueueAssumption DEF QueueInit, Places
<1>1. QueueTypeOK
  BY DEF QueueTypeOK, Cells
<1>2. HolderInside /\ Head0 = 0 /\ Size0 = 0 /\ Tail0 = 0
  BY DEF HolderInside, Head0, Size0, Tail0, Inside
<1>3. Shape
  <2>1. 0 \in Cells
    BY DEF Cells
  <2>2. (0 + 0) % COURIER_QUEUE_SIZE = 0
    BY <2>1, Circular DEF Cells
  <2>. QED  BY <1>2, <2>2 DEF Shape
<1>4. QueueDistinct
  BY <1>2 DEF QueueDistinct
<1>. QED  BY <1>1, <1>2, <1>3, <1>4 DEF QueueInv

\* A store of a courier that was not offered before keeps the invariant.
LEMMA StoreKeepsInv ==
  ASSUME QueueInv, Protected, NEW t \in Threads, NEW c \in Couriers \ offered,
         EnqueueStore(t, c)
  PROVE  /\ Protected' => HolderInside' /\ Shape'
         /\ QueueDistinct'
         /\ handed' \subseteq offered'
<1>1. HolderInside' /\ Shape' /\ Size0 \in 0 .. COURIER_QUEUE_SIZE
  BY StoreAppends, StoreWaiting DEF QueueInv, Shape
<1>2. offered' = offered \union {c} /\ handed' = handed /\ handed \subseteq offered
  BY DEF EnqueueStore, QueueInv
<1>3. ASSUME NEW k \in 1 .. Size0'
      PROVE  \/ k = Size0 + 1 /\ Waiting'[k] = c
             \/ k \in 1 .. Size0 /\ Waiting'[k] = Waiting[k]
  BY <1>1, StoreWaiting
<1>4. /\ \A j, k \in 1 .. Size0 : Waiting[j] = Waiting[k] => j = k
      /\ \A k \in 1 .. Size0 : Waiting[k] \in offered \ handed
  BY DEF QueueInv, QueueDistinct
<1>5. ASSUME NEW j \in 1 .. Size0', NEW k \in 1 .. Size0', Waiting'[j] = Waiting'[k]
      PROVE  j = k
  BY <1>3, <1>4, <1>5
<1>6. ASSUME NEW k \in 1 .. Size0' PROVE Waiting'[k] \in offered' \ handed'
  BY <1>2, <1>3, <1>4
<1>. QED  BY <1>1, <1>2, <1>5, <1>6 DEF QueueDistinct

\* So does a pick.
LEMMA TakeKeepsInv ==
  ASSUME QueueInv, Protected, NEW t \in Threads, DequeueTake(t)
  PROVE  /\ Protected' => HolderInside' /\ Shape'
         /\ QueueDistinct'
         /\ handed' \subseteq offered'
         /\ values[front] \notin handed
<1>1. HolderInside' /\ Shape' /\ Size0 \in 1 .. COURIER_QUEUE_SIZE
      /\ Size0' = Size0 - 1 /\ values[front] = Waiting[1]
  BY TakeShortens, TakeWaiting
<1>2. offered' = offered /\ handed' = handed \union {Waiting[1]} /\ handed \subseteq offered
  BY <1>1 DEF DequeueTake, QueueInv
<1>3. ASSUME NEW k \in 1 .. Size0'
      PROVE  k + 1 \in 1 .. Size0 /\ k + 1 # 1 /\ Waiting'[k] = Waiting[k + 1]
  BY <1>1, TakeWaiting
<1>4. /\ \A j, k \in 1 .. Size0 : Waiting[j] = Waiting[k] => j = k
      /\ \A k \in 1 .. Size0 : Waiting[k] \in offered \ handed
      /\ 1 \in 1 .. Size0
  BY <1>1 DEF QueueInv, QueueDistinct
<1>5. ASSUME NEW j \in 1 .. Size0', NEW k \in 1 .. Size0', Waiting'[j] = Waiting'[k]
      PROVE  j = k
  <2>1. j + 1 = k + 1
    BY <1>3, <1>4, <1>5
  <2>. QED  BY <1>1, <2>1
<1>6. ASSUME NEW k \in 1 .. Size0' PROVE Waiting'[k] \in offered' \ handed'
  <2>1. Waiting[k + 1] # Waiting[1]
    BY <1>3, <1>4
  <2>. QED  BY <1>2, <1>3, <1>4, <2>1
<1>. QED  BY <1>1, <1>2, <1>4, <1>5, <1>6 DEF QueueDistinct

\* Every step keeps the invariant.
LEMMA QueueInvNext == QueueInv /\ [QueueOps]_queueVars => QueueInv'
<1> SUFFICES ASSUME QueueInv, [QueueOps]_queueVars PROVE QueueInv'
  OBVIOUS
<1> DEFINE Rest == /\ Protected => HolderInside /\ Shape
                   /\ QueueDistinct
                   /\ Protected => handed \subseteq offered
<1>1. QueueTypeOK'
  BY QueueTypeNext DEF QueueInv
<1>2. CASE ~Protected
  <2>1. ~Protected'
    BY <1>2 DEF Protected, QueueOps, EnqueueFull, EnqueueStore, EnqueueBack, EnqueueCount,
       DequeueEmpty, DequeueTake, DequeueFront, DequeueCount, DestroyQueueMutex, QueueLock,
       QueueUnlock, queueVars
  <2>. QED  BY <1>1, <2>1 DEF QueueInv, QueueDistinct
<1>3. ASSUME Protected, NEW t \in Threads, Settling(t) PROVE Rest'
  <2>1. /\ Protected' /\ HolderInside' /\ UNCHANGED <<offered, handed>>
        /\ Head0' = Head0 /\ Size0' = Size0 /\ Tail0' = Tail0 /\ values' = values
    BY <1>3, SettlingKeepsView DEF View
  <2>2. Shape'
    BY <1>3, <2>1 DEF QueueInv, Shape
  <2>3. Waiting' = Waiting
    BY <2>1 DEF Waiting
  <2>. QED  BY <1>3, <2>1, <2>2, <2>3 DEF QueueInv, QueueDistinct
<1>4. ASSUME Protected, NEW t \in Threads, NEW c \in Couriers \ offered, EnqueueStore(t, c)
      PROVE  Rest'
  BY <1>4, StoreKeepsInv
<1>5. ASSUME Protected, NEW t \in Threads, DequeueTake(t)
      PROVE  Rest'
  BY <1>5, TakeKeepsInv
<1>6. ASSUME Protected,
             UNCHANGED <<front, back, value_count, values, g_random_courier_mutex, at, handed>>,
             offered \subseteq offered'
      PROVE  Rest'
  <2>1. /\ Protected' /\ Head0' = Head0 /\ Size0' = Size0 /\ Tail0' = Tail0
        /\ values' = values /\ handed' = handed
    BY <1>6 DEF Protected, Head0, Size0, Tail0, Inside
  <2>2. HolderInside' /\ Shape'
    BY <1>6, <2>1 DEF QueueInv, HolderInside, Shape
  <2>3. Waiting' = Waiting
    BY <2>1 DEF Waiting
  <2>. QED  BY <1>6, <2>1, <2>2, <2>3 DEF QueueInv, QueueDistinct
<1>7. ASSUME NEW t \in Threads, DestroyQueueMutex(t), Protected
      PROVE  Rest'
  <2>1. CASE g_random_courier_mutex = NULL
    <3>1. ~Protected'
      BY <1>7, <2>1 DEF DestroyQueueMutex, Protected
    <3>. QED  BY <3>1 DEF QueueDistinct
  <2>2. CASE g_random_courier_mutex # NULL
    BY <1>6, <1>7, <2>2 DEF DestroyQueueMutex
  <2>. QED  BY <2>1, <2>2
<1>8. ASSUME Protected PROVE Rest'
  <2>1. ASSUME NEW t \in Threads, NEW c \in Couriers \ offered, EnqueueFull(t, c)
        PROVE  Rest'
    BY <1>6, <1>8, <2>1 DEF EnqueueFull
  <2>2. ASSUME NEW t \in Threads, DequeueEmpty(t)
        PROVE  Rest'
    BY <1>6, <1>8, <2>2 DEF DequeueEmpty
  <2>3. CASE UNCHANGED queueVars
    BY <1>6, <1>8, <2>3 DEF queueVars
  <2> HIDE DEF Rest
  <2>. QED
    BY <1>3, <1>4, <1>5, <1>7, <1>8, <2>1, <2>2, <2>3 DEF QueueOps, Settling
<1>. QED  BY <1>1, <1>2, <1>8 DEF QueueInv

-----------------------------------------------------------------------------
\* Every reachable state satisfies the inductive invariant.
THEOREM QueueInvariant == QueueSpec => []QueueInv
<1>1. QueueNext => QueueOps
  BY DEF QueueNext
<1>. QED  BY <1>1, QueueInvInit, QueueInvNext, PTL DEF QueueSpec

\* Every variable of the queue keeps its type, also after the mutex is destroyed.
THEOREM QueueTypeCorrect == QueueSpec => []QueueTypeOK
<1>1. QueueInv => QueueTypeOK
  BY DEF QueueInv
<1>. QED  BY <1>1, QueueInvariant, PTL

\* While the mutex exists only its holder is inside the two functions, and the
\* indices and the counter agree at every unlock.
THEOREM QueueStaysConsistent == QueueSpec => []QueueConsistent
<1>1. QueueInv => QueueConsistent
  <2> SUFFICES ASSUME QueueInv, Protected PROVE QueueConsistent
    BY DEF QueueConsistent
  <2>1. \A t \in Threads : at[t] # "idle" => g_random_courier_mutex = t
    BY DEF QueueInv, HolderInside
  <2>2. ASSUME g_random_courier_mutex = NULL
        PROVE  /\ value_count \in 0 .. COURIER_QUEUE_SIZE
               /\ back = (front + value_count) % COURIER_QUEUE_SIZE
    BY <2>2, FreeQueue DEF QueueInv, Shape
  <2>. QED  BY <2>1, <2>2 DEF QueueConsistent
<1>. QED  BY <1>1, QueueInvariant, PTL

\* While the mutex exists, no courier is in the queue twice, and none that is in
\* the queue has been handed out.
THEOREM QueueStaysDistinct == QueueSpec => []QueueDistinct
<1>1. QueueInv => QueueDistinct
  BY DEF QueueInv
<1>. QED  BY <1>1, QueueInvariant, PTL

-----------------------------------------------------------------------------
(***************************************************************************)
(* Until the mutex is destroyed the queue implements CourierFifo.          *)
(***************************************************************************)
WaitingSeq ==
  /\ Waiting \in Seq(Couriers \union {NULL})
  /\ Len(Waiting) = Size0
  /\ Size0 \in Nat

\* What the queue holds, read from its front, is a sequence of couriers.
LEMMA WaitingIsSeq == QueueInv /\ Protected => WaitingSeq
<1> SUFFICES ASSUME QueueInv, Protected PROVE WaitingSeq
  OBVIOUS
<1> USE DEF WaitingSeq
<1>1. Size0 \in Nat
  BY QueueAssumption DEF QueueInv, Shape
<1>2. Waiting \in [1 .. Size0 -> Couriers \union {NULL}]
  BY CellsDistinct DEF Waiting, QueueInv, QueueTypeOK
<1>. QED  BY <1>1, <1>2

\* The store is an Accept of the abstract queue.
LEMMA StoreAccepts ==
  ASSUME QueueInv, QueueInv', Protected,
         NEW t \in Threads, NEW c \in Couriers \ offered, EnqueueStore(t, c)
  PROVE  Fifo!Accept(c)
<1>1. /\ Protected' /\ Size0 < COURIER_QUEUE_SIZE /\ Size0' = Size0 + 1
      /\ Waiting'[Size0 + 1] = c
      /\ \A k \in 1 .. Size0 : Waiting'[k] = Waiting[k]
  BY StoreAppends, StoreWaiting
<1>2. WaitingSeq /\ WaitingSeq'
  <2>1. (QueueInv /\ Protected => WaitingSeq)'
    BY WaitingIsSeq, PTL
  <2>. QED  BY <1>1, <2>1, WaitingIsSeq
<1>3. Waiting' = Append(Waiting, c)
  BY <1>1, <1>2 DEF WaitingSeq
<1>4. offered' = offered \union {c}
  BY DEF EnqueueStore
<1>. QED  BY <1>1, <1>2, <1>3, <1>4 DEF WaitingSeq, Fifo!Accept

\* The pick is a HandOut of the abstract queue.
LEMMA TakeHandsOut ==
  ASSUME QueueInv, QueueInv', Protected, NEW t \in Threads, DequeueTake(t)
  PROVE  Fifo!HandOut
<1>1. /\ Protected' /\ Size0 \in 1 .. COURIER_QUEUE_SIZE /\ Size0' = Size0 - 1
      /\ \A k \in 1 .. Size0' : Waiting'[k] = Waiting[k + 1]
  BY TakeShortens, TakeWaiting
<1>2. WaitingSeq /\ WaitingSeq'
  <2>1. (QueueInv /\ Protected => WaitingSeq)'
    BY WaitingIsSeq, PTL
  <2>. QED  BY <1>1, <2>1, WaitingIsSeq
<1>3. Waiting # <<>> /\ Waiting' = Tail(Waiting)
  BY <1>1, <1>2 DEF WaitingSeq
<1>4. offered' = offered
  BY DEF DequeueTake
<1>. QED  BY <1>1, <1>3, <1>4 DEF Fifo!HandOut

\* Every step of the queue is a step of the abstract queue or a stutter.
LEMMA QueueStepsMap ==
  ASSUME QueueInv, QueueInv', [QueueOps]_queueVars
  PROVE  [Fifo!FifoNext]_(Fifo!fifoVars)
<1> DEFINE Stutter == UNCHANGED Fifo!fifoVars
<1>1. ASSUME UNCHANGED <<front, back, value_count, values, g_random_courier_mutex, at>>
      PROVE  Protected' = Protected /\ Waiting' = Waiting
  BY <1>1 DEF Protected, Waiting, Size0, Head0, Inside
<1>2. CASE ~Protected
  <2>1. ~Protected'
    BY <1>2 DEF Protected, QueueOps, EnqueueFull, EnqueueStore, EnqueueBack, EnqueueCount,
       DequeueEmpty, DequeueTake, DequeueFront, DequeueCount, DestroyQueueMutex, QueueLock,
       QueueUnlock, queueVars
  <2>. QED  BY <1>2, <2>1 DEF Fifo!fifoVars, Protected
<1>3. ASSUME Protected, NEW t \in Threads, NEW c \in Couriers \ offered, EnqueueFull(t, c)
      PROVE  Fifo!Refuse(c)
  <2>1. g_random_courier_mutex = NULL
    BY <1>3 DEF EnqueueFull, QueueEnter, Protected
  <2>2. Len(Waiting) = COURIER_QUEUE_SIZE
    BY <1>3, <2>1, FreeQueue, WaitingIsSeq, QueueAssumption
    DEF WaitingSeq, EnqueueFull, QueueInv, Shape
  <2>. QED  BY <1>1, <1>3, <2>2 DEF EnqueueFull, Fifo!Refuse
<1>4. ASSUME Protected, NEW t \in Threads, Settling(t)
      PROVE  Stutter
  <2>1. Protected' /\ Waiting' = Waiting /\ UNCHANGED offered
    BY <1>4, SettlingKeepsView DEF View, Waiting
  <2>. QED  BY <1>4, <2>1 DEF Fifo!fifoVars
<1>5. ASSUME Protected, NEW t \in Threads, DequeueEmpty(t)
      PROVE  Stutter
  BY <1>1, <1>5 DEF DequeueEmpty, Fifo!fifoVars
<1>6. ASSUME Protected, NEW t \in Threads, DestroyQueueMutex(t)
      PROVE  Fifo!Abandon \/ Stutter
  <2>1. CASE g_random_courier_mutex = NULL
    BY <1>6, <2>1 DEF DestroyQueueMutex, Protected, Fifo!Abandon
  <2>2. CASE g_random_courier_mutex # NULL
    BY <1>1, <1>6, <2>2 DEF DestroyQueueMutex, Fifo!fifoVars
  <2>. QED  BY <2>1, <2>2
<1>7. CASE UNCHANGED queueVars
  BY <1>1, <1>7 DEF queueVars, Fifo!fifoVars
<1>8. ASSUME Protected, NEW t \in Threads, NEW c \in Couriers \ offered, EnqueueStore(t, c)
      PROVE  Fifo!Accept(c)
  BY <1>8, StoreAccepts
<1>9. ASSUME Protected, NEW t \in Threads, DequeueTake(t)
      PROVE  Fifo!HandOut
  BY <1>9, TakeHandsOut
<1> HIDE DEF Stutter
<1>10. CASE Protected
  <2>1. ASSUME NEW t \in Threads, NEW c \in Couriers \ offered,
               EnqueueFull(t, c) \/ EnqueueStore(t, c)
        PROVE  Fifo!FifoNext
    BY <1>3, <1>8, <1>10, <2>1 DEF Fifo!FifoNext
  <2>2. ASSUME NEW t \in Threads, DequeueTake(t) \/ DestroyQueueMutex(t)
        PROVE  Fifo!FifoNext \/ Stutter
    BY <1>6, <1>9, <1>10, <2>2 DEF Fifo!FifoNext
  <2>3. ASSUME NEW t \in Threads, Settling(t) \/ DequeueEmpty(t)
        PROVE  Stutter
    BY <1>4, <1>5, <1>10, <2>3
  <2>4. Fifo!FifoNext \/ Stutter \/ UNCHANGED queueVars
    BY <2>1, <2>2, <2>3 DEF QueueOps, Settling
  <2>. QED  BY <1>7, <2>4 DEF Stutter
<1>. QED  BY <1>2, <1>10

\* The empty array is an empty queue.
LEMMA QueueInitIsFifoInit == QueueInit => Fifo!FifoInit
<1> SUFFICES ASSUME QueueInit PROVE Fifo!FifoInit
  OBVIOUS
<1>1. Protected /\ Size0 = 0
  BY QueueAssumption DEF QueueInit, Protected, Size0, Inside
<1>2. Waiting = <<>>
  BY <1>1 DEF Waiting
<1>. QED  BY <1>1, <1>2 DEF QueueInit, Fifo!FifoInit

\* While its mutex exists the array with its two indices and its counter is a
\* bounded first-in first-out queue, under every interleaving of its callers.
THEOREM QueueImplementsFifo == QueueSpec => ImplementsFifo
<1>1. QueueInit => Fifo!FifoInit
  BY QueueInitIsFifoInit
<1>2. QueueInv /\ QueueInv' /\ [QueueNext]_queueVars => [Fifo!FifoNext]_(Fifo!fifoVars)
  BY QueueStepsMap DEF QueueNext
<1>. QED  BY <1>1, <1>2, QueueInvariant, PTL DEF QueueSpec, ImplementsFifo, Fifo!FifoSpec
=============================================================================
