------------------------- MODULE OrderProcessingProofs -------------------------
(***************************************************************************)
(* What TLAPS proves about the threads together, for every order file,     *)
(* every number of connections and requests and every size of the arrays.  *)
(*                                                                         *)
(* The list of orders and the queue of couriers are proved about in        *)
(* ContainersProofs, and the array of couriers with a target first here,   *)
(* under every schedule of their callers; then every step of the threads   *)
(* is shown to be one of the steps assumed there.                          *)
(***************************************************************************)
EXTENDS OrderProcessing, ContainersProofs

-----------------------------------------------------------------------------
(* The array of couriers with a target, for every length of the array and  *)
(* every number of couriers.                                               *)

\* The couriers in the array have been registered; the one that is counted and not
\* yet stored is new to it.
RegisteredInv ==
  /\ TargetSet \subseteq registered
  /\ ~TargetMutexFree =>
       /\ s_target_courier_count >= 1
       /\ g_target_courier_mutex \in registered \ TargetSet

\* The inductive invariant of the array.
TargetArrayInv == TargetTypeOK /\ TargetsDistinct /\ RegisteredInv

-----------------------------------------------------------------------------
\* The counted and written slots are slots of the array.
LEMMA StoredTargetsAreSlots ==
  ASSUME TargetTypeOK, RegisteredInv
  PROVE  StoredTargets \subseteq TargetSlots
  BY TargetAssumption DEF TargetTypeOK, RegisteredInv, StoredTargets, TargetSlots

\* The empty array satisfies the invariant.
LEMMA TargetArrayInvInit == TargetInit => TargetArrayInv
<1> SUFFICES ASSUME TargetInit PROVE TargetArrayInv
  OBVIOUS
<1>1. StoredTargets = {}
  BY DEF TargetInit, StoredTargets, TargetMutexFree
<1>2. TargetTypeOK
  BY TargetAssumption DEF TargetInit, TargetTypeOK
<1>. QED
  BY <1>1, <1>2
  DEF TargetArrayInv, TargetsDistinct, RegisteredInv, TargetSet, TargetInit, TargetMutexFree

\* add_target_courier counts the courier (courier_manager.c:79) and stores nothing yet.
LEMMA AddTargetCountInv ==
  ASSUME TargetArrayInv, NEW c \in Couriers \ registered, AddTargetCount(c)
  PROVE  TargetArrayInv' /\ TargetSet' = TargetSet
<1> USE TargetAssumption DEF TargetArrayInv, AddTargetCount, TargetMutexFree
<1>1. StoredTargets' = StoredTargets
  BY DEF TargetTypeOK, StoredTargets
<1>2. TargetSet' = TargetSet
  BY <1>1 DEF TargetSet
<1>3. TargetTypeOK'
  BY DEF TargetTypeOK
<1>4. TargetsDistinct'
  BY <1>1 DEF TargetsDistinct
<1>5. RegisteredInv'
  BY <1>2 DEF RegisteredInv, TargetTypeOK
<1>. QED  BY <1>2, <1>3, <1>4, <1>5

\* It stores the courier into the last counted slot: the array gains that courier.
LEMMA AddTargetStoreInv ==
  ASSUME TargetArrayInv, NEW c \in Couriers, AddTargetStore(c)
  PROVE  TargetArrayInv' /\ TargetSet' = TargetSet \union {c}
<1> USE TargetAssumption DEF TargetArrayInv
<1> DEFINE last == s_target_courier_count - 1
<1>1. /\ StoredTargets = 0 .. last - 1
      /\ StoredTargets' = 0 .. last
      /\ last \in TargetSlots
      /\ StoredTargets \subseteq TargetSlots
  BY DEF TargetTypeOK, RegisteredInv, AddTargetStore, StoredTargets, TargetMutexFree,
         TargetSlots
<1>2. StoredTargets' = StoredTargets \union {last} /\ last \notin StoredTargets
  BY <1>1 DEF TargetSlots
<1>3. /\ \A i \in StoredTargets : s_target_couriers'[i] = s_target_couriers[i]
      /\ s_target_couriers'[last] = c
  BY <1>1, <1>2 DEF TargetTypeOK, AddTargetStore
<1>4. TargetSet' = TargetSet \union {c}
  <2> HIDE DEF last
  <2>. QED  BY <1>2, <1>3 DEF TargetSet
<1>5. c \in registered \ TargetSet
  BY DEF AddTargetStore, RegisteredInv, TargetMutexFree
<1>6. TargetTypeOK'
  BY DEF TargetTypeOK, AddTargetStore
<1>7. TargetsDistinct'
  <2> HIDE DEF last
  <2>1. \A i \in StoredTargets : s_target_couriers[i] # c
    BY <1>5 DEF TargetSet
  <2>. QED  BY <1>2, <1>3, <2>1 DEF TargetsDistinct
<1>8. RegisteredInv'
  BY <1>4, <1>5 DEF RegisteredInv, AddTargetStore, TargetMutexFree
<1>. QED  BY <1>4, <1>6, <1>7, <1>8

\* remove_target_courier moves the last courier into slot i: exactly the courier in
\* slot i leaves the array.
LEMMA RemoveTargetInv ==
  ASSUME TargetArrayInv, NEW i \in 0 .. s_target_courier_count - 1, RemoveTarget(i)
  PROVE  /\ TargetArrayInv'
         /\ s_target_couriers[i] \in TargetSet
         /\ TargetSet' = TargetSet \ {s_target_couriers[i]}
<1> USE TargetAssumption DEF TargetArrayInv
<1> DEFINE last    == s_target_courier_count - 1
           from(x) == IF x = i THEN last ELSE x
<1>1. /\ StoredTargets = 0 .. last
      /\ StoredTargets' = 0 .. last - 1
      /\ last \in StoredTargets
      /\ i \in StoredTargets
      /\ StoredTargets \subseteq TargetSlots
  BY DEF TargetTypeOK, RemoveTarget, StoredTargets, TargetMutexFree, TargetSlots
<1>2. \A x \in StoredTargets' :
         /\ from(x) \in StoredTargets
         /\ from(x) # i
         /\ s_target_couriers'[x] = s_target_couriers[from(x)]
  BY <1>1 DEF TargetTypeOK, RemoveTarget, TargetSlots
<1>3. \A x, y \in StoredTargets' : from(x) = from(y) => x = y
  BY <1>1
<1>4. \A z \in StoredTargets \ {i} : \E x \in StoredTargets' : from(x) = z
  <2> TAKE z \in StoredTargets \ {i}
  <2>1. CASE z = last
    <3>1. i \in StoredTargets' /\ from(i) = z
      BY <1>1, <2>1
    <3>. QED  BY <3>1
  <2>2. CASE z # last
    <3>1. z \in StoredTargets' /\ from(z) = z
      BY <1>1, <2>2
    <3>. QED  BY <3>1
  <2>. QED  BY <2>1, <2>2
<1> HIDE DEF from, last
<1>5. TargetsDistinct'
  BY <1>2, <1>3 DEF TargetsDistinct
<1>6. TargetSet' = TargetSet \ {s_target_couriers[i]}
  <2>1. ASSUME NEW c \in TargetSet' PROVE c \in TargetSet \ {s_target_couriers[i]}
    <3>1. PICK x \in StoredTargets' : c = s_target_couriers'[x]
      BY <2>1 DEF TargetSet
    <3>. QED  BY <1>1, <1>2, <3>1, SMTT(30) DEF TargetSet, TargetsDistinct
  <2>2. ASSUME NEW c \in TargetSet \ {s_target_couriers[i]} PROVE c \in TargetSet'
    <3>1. PICK z \in StoredTargets \ {i} : c = s_target_couriers[z]
      BY <2>2 DEF TargetSet
    <3>2. PICK x \in StoredTargets' : from(x) = z
      BY <1>4
    <3>. QED  BY <1>2, <3>1, <3>2 DEF TargetSet
  <2>. QED  BY <2>1, <2>2
<1>7. TargetTypeOK'
  BY DEF TargetTypeOK, RemoveTarget, TargetSlots
<1>8. RegisteredInv'
  BY <1>6 DEF RegisteredInv, RemoveTarget, TargetMutexFree
<1>. QED  BY <1>1, <1>5, <1>6, <1>7, <1>8 DEF TargetSet

\* A step that leaves the array alone.
LEMMA TargetUnchanged ==
  ASSUME UNCHANGED targetVars
  PROVE  /\ TargetArrayInv => TargetArrayInv'
         /\ PooledTargets' = PooledTargets
  BY DEF targetVars, TargetArrayInv, TargetTypeOK, TargetsDistinct, RegisteredInv, TargetSet,
         StoredTargets, TargetMutexFree, PooledTargets

\* Every step of the array preserves the invariant.
LEMMA TargetArrayInvNext == TargetArrayInv /\ [TargetNext]_targetVars => TargetArrayInv'
<1> SUFFICES ASSUME TargetArrayInv, [TargetNext]_targetVars PROVE TargetArrayInv'
  OBVIOUS
<1>1. CASE \E c \in Couriers \ registered : AddTargetCount(c)
  BY <1>1, AddTargetCountInv
<1>2. CASE \E c \in Couriers : AddTargetStore(c)
  BY <1>2, AddTargetStoreInv
<1>3. CASE \E i \in 0 .. s_target_courier_count - 1 : RemoveTarget(i)
  BY <1>3, RemoveTargetInv
<1>4. CASE AddTargetFull \/ RemoveTargetEmpty \/ UNCHANGED targetVars
  BY <1>4, TargetUnchanged DEF AddTargetFull, RemoveTargetEmpty
<1>. QED  BY <1>1, <1>2, <1>3, <1>4 DEF TargetNext

\* Every step of the array is a step of the pool, or does not change it: only the
\* removed courier leaves, although two slots and a counter change.
LEMMA TargetStepIsPoolStep ==
  ASSUME TargetArrayInv, [TargetNext]_targetVars
  PROVE  [TargetPool!PoolNext]_(TargetPool!poolVars)
<1> USE TargetAssumption
<1>1. ASSUME NEW c \in Couriers \ registered, AddTargetCount(c)
      PROVE  TargetPool!Put(c)
  <2>1. TargetSet' = TargetSet
    BY <1>1, AddTargetCountInv
  <2>2. PooledTargets = TargetSet /\ PooledTargets' = TargetSet \union {c}
    BY <1>1, <2>1 DEF AddTargetCount, TargetMutexFree, PooledTargets
  <2>. QED  BY <1>1, <2>2 DEF AddTargetCount, TargetPool!Put
<1>2. ASSUME NEW c \in Couriers, AddTargetStore(c)
      PROVE  UNCHANGED TargetPool!poolVars
  <2>1. TargetSet' = TargetSet \union {c}
    BY <1>2, AddTargetStoreInv
  <2>. QED
    BY <1>2, <2>1 DEF AddTargetStore, TargetMutexFree, PooledTargets, TargetPool!poolVars
<1>3. ASSUME NEW i \in 0 .. s_target_courier_count - 1, RemoveTarget(i)
      PROVE  TargetPool!Take(s_target_couriers[i]) /\ s_target_couriers[i] \in Couriers
  <2>1. /\ s_target_couriers[i] \in TargetSet
        /\ TargetSet' = TargetSet \ {s_target_couriers[i]}
    BY <1>3, RemoveTargetInv
  <2>2. PooledTargets = TargetSet /\ PooledTargets' = TargetSet'
    BY <1>3 DEF RemoveTarget, TargetMutexFree, PooledTargets
  <2>. QED
    BY <1>3, <2>1, <2>2
    DEF RemoveTarget, TargetPool!Take, TargetArrayInv, RegisteredInv, TargetTypeOK
<1>4. ASSUME AddTargetFull \/ RemoveTargetEmpty \/ UNCHANGED targetVars
      PROVE  UNCHANGED TargetPool!poolVars
  <2>1. UNCHANGED targetVars
    BY <1>4 DEF AddTargetFull, RemoveTargetEmpty
  <2>. QED  BY <2>1, TargetUnchanged DEF targetVars, TargetPool!poolVars
<1>. QED  BY <1>1, <1>2, <1>3, <1>4 DEF TargetNext, TargetPool!PoolNext

\* Nothing is in the array at first.
LEMMA TargetInitIsPoolInit == TargetInit => TargetPool!PoolInit
  BY DEF TargetInit, TargetPool!PoolInit, PooledTargets, TargetSet, StoredTargets,
         TargetMutexFree

-----------------------------------------------------------------------------
\* The inductive invariant holds in every reachable state of the array.
THEOREM TargetArrayInvariant == TargetSpec => []TargetArrayInv
  BY TargetArrayInvInit, TargetArrayInvNext, PTL DEF TargetSpec

\* No two slots hold the same courier (courier_manager.c:58-85).
THEOREM TargetsStayDistinct == TargetSpec => []TargetsDistinct
<1>1. TargetArrayInv => TargetsDistinct
  BY DEF TargetArrayInv
<1>. QED  BY <1>1, TargetArrayInvariant, PTL

\* The array implements the abstract pool.
THEOREM TargetArrayImplementsPool == TargetSpec => TargetsImplementPool
<1>. QED
  BY TargetInitIsPoolInit, TargetStepIsPoolStep, TargetArrayInvariant, PTL
  DEF TargetSpec, TargetsImplementPool, TargetPool!PoolSpec

-----------------------------------------------------------------------------
(* The threads.                                                            *)

\* The listener's indices are in bounds wherever it uses them: nobody else lowers
\* the counter of the targeted couriers, and the list of orders does not shrink.
ListenInv ==
  /\ scan.at \in {"inner", "compare", "courier", "order", "deliver", "remove_courier"}
       => scan.i < s_target_courier_count
  /\ scan.at = "remove_order" => scan.i < TARGET_LIST_SIZE
  /\ scan.at \in {"compare", "courier", "order", "deliver", "remove_courier", "remove_order"}
       => scan.j < ORDER_LIST_SIZE

\* A travelling courier is on the way to one thread only and has not yet been put
\* into the queue or the array.
TravelInv ==
  /\ offered \union registered \subseteq dispatched
  /\ \A k \in Clients : pc[k] = "travelling"
                         => courier[k] \in dispatched \ (offered \union registered)
  /\ \A k, m \in Clients :
        pc[k] = "travelling" /\ pc[m] = "travelling" /\ courier[k] = courier[m] => k = m

\* Some cook or courier thread has delivered the order.
Delivered(o) == \E d \in RandomDeliveries : d[3] = o

\* An order is with its cook, in the list, in the hands of one courier thread, or
\* delivered by one thread.
OrderInv ==
  /\ \A o \in Orders : pc[o] # "done" => o \notin listed /\ ~Delivered(o)
  /\ \A o \in Orders : Delivered(o) => o \notin listed \ popped
  /\ \A k \in Clients : order[k] # NULL => order[k] \in popped /\ ~Delivered(order[k])
  /\ \A k, m \in Clients : order[k] # NULL /\ order[k] = order[m] => k = m
  /\ OrderServedOnce

\* The thread has a courier in its hands.
Holds(t) == pc[t] = "dequeued" /\ ret[t] # NULL

\* While the queue's mutex exists, a courier that was handed out is in the hands of
\* one thread, delivered by one thread, or forgotten.
CourierInv ==
  Protected =>
    /\ \A d \in RandomDeliveries : d[2] \in handed
    /\ \A t \in Threads : Holds(t) => /\ ret[t] \in handed
                                     /\ \A d \in RandomDeliveries : d[2] # ret[t]
    /\ \A t, u \in Threads : Holds(t) /\ Holds(u) /\ ret[t] = ret[u] => t = u
    /\ CourierServedOnce

\* The inductive invariant.
ProcInv ==
  /\ ProcTypeOK
  /\ ReadyInv
  /\ QueueInv
  /\ TargetArrayInv
  /\ ListenInv
  /\ TravelInv
  /\ OrderInv
  /\ CourierInv

-----------------------------------------------------------------------------
(***************************************************************************)
(* Every step of the threads is a step of the list, and one of the queue.  *)
(***************************************************************************)
\* Whatever a thread does, the list of ready orders takes one of its own steps or none.
LEMMA StepIsReadyStep ==
  ASSUME ProcTypeOK, ListenInv, OrderInv, [Next]_vars
  PROVE  [ReadyNext]_readyVars
<1> USE DEF readyVars
<1>1. ASSUME NEW o \in Orders, CookStep(o) PROVE [ReadyNext]_readyVars
  <2>1. CASE CookDequeue(o)
    BY <2>1 DEF CookDequeue
  <2>2. CASE CookDeliver(o)
    BY <2>2 DEF CookDeliver
  <2>3. CASE CookList(o)
    <3>1. o \notin listed
      BY <2>3 DEF CookList, Goto, OrderInv
    <3>. QED  BY <2>3, <3>1 DEF CookList, ReadyNext
  <2>4. CASE CookStore(o)
    BY <2>4 DEF CookStore, ReadyNext
  <2>. QED  BY <1>1, <2>1, <2>2, <2>3, <2>4 DEF CookStep
<1>2. ASSUME NEW k \in Clients, ClientStep(k) PROVE [ReadyNext]_readyVars
  <2>1. CASE ClientPop(k)
    BY <2>1 DEF ClientPop, ReadyNext
  <2>2. CASE ~ClientPop(k)
    BY <1>2, <2>2 DEF ClientStep, ArriveRandom, ArriveTarget, StoreTarget, ClientDequeue,
       ClientDeliver, ClientForget
  <2>. QED  BY <2>1, <2>2
<1>3. ASSUME NEW k \in Clients, Disconnect(k) PROVE UNCHANGED readyVars
  BY <1>3 DEF Disconnect
<1>4. ASSUME NEW k \in Clients, NEW c \in Couriers, Receive(k, c) PROVE UNCHANGED readyVars
  BY <1>4 DEF Receive
<1>5. ASSUME NEW t \in Threads, QueueStep(t) PROVE UNCHANGED readyVars
  BY <1>5 DEF QueueStep
<1>6. ASSUME ListenerStep PROVE [ReadyNext]_readyVars
  <2>1. CASE ListenRemoveOrder
    <3>1. scan.j \in Slots
      <4>1. scan.at = "remove_order"
        BY <2>1 DEF ListenRemoveOrder, ListenTo
      <4>2. scan.j \in 0 .. ORDER_LIST_SIZE
        BY DEF ProcTypeOK
      <4>3. scan.j < ORDER_LIST_SIZE
        BY <4>1 DEF ListenInv
      <4>. QED  BY <4>2, <4>3, ReadyAssumption DEF Slots
    <3>. QED  BY <2>1, <3>1 DEF ListenRemoveOrder, ReadyNext
  <2>2. CASE ~ListenRemoveOrder
    BY <1>6, <2>2 DEF ListenerStep, ListenOuter, ListenInner, ListenCompare, ListenCompareNull,
       ListenTakeCourier, ListenTakeOrder, ListenDeliver, ListenRemoveTarget, ListenerReads
  <2>. QED  BY <2>1, <2>2
<1>7. CASE UNCHANGED vars
  BY <1>7 DEF vars
<1>. QED  BY <1>1, <1>2, <1>3, <1>4, <1>5, <1>6, <1>7 DEF Next

\* Likewise for the queue of random couriers.
LEMMA StepIsQueueStep ==
  ASSUME ProcTypeOK, TravelInv, [Next]_vars
  PROVE  [QueueOps]_queueVars
<1> USE DEF queueVars, Threads
<1>1. ASSUME NEW o \in Orders, CookStep(o) PROVE [QueueOps]_queueVars
  <2>1. CASE CookDequeue(o)
    BY <2>1 DEF CookDequeue, Dequeue, QueueOps
  <2>2. CASE ~CookDequeue(o)
    BY <1>1, <2>2 DEF CookStep, CookDeliver, CookList, CookStore
  <2>. QED  BY <2>1, <2>2
<1>2. ASSUME NEW k \in Clients, ClientStep(k) PROVE [QueueOps]_queueVars
  <2>1. CASE ArriveRandom(k)
    <3>1. pc[k] = "travelling"
      BY <2>1 DEF ArriveRandom, Goto
    <3>2. courier[k] \in Couriers \ offered
      BY <3>1 DEF TravelInv, ProcTypeOK
    <3>. QED  BY <2>1, <3>2 DEF ArriveRandom, QueueOps
  <2>2. CASE ClientDequeue(k)
    BY <2>2 DEF ClientDequeue, Dequeue, QueueOps
  <2>3. CASE ~ArriveRandom(k) /\ ~ClientDequeue(k)
    BY <1>2, <2>3 DEF ClientStep, ArriveTarget, StoreTarget, ClientPop, ClientDeliver, ClientForget
  <2>. QED  BY <2>1, <2>2, <2>3
<1>3. ASSUME NEW k \in Clients, Disconnect(k) PROVE [QueueOps]_queueVars
  BY <1>3 DEF Disconnect, QueueOps
<1>4. ASSUME NEW k \in Clients, NEW c \in Couriers, Receive(k, c) PROVE UNCHANGED queueVars
  BY <1>4 DEF Receive
<1>5. ASSUME NEW t \in Threads, QueueStep(t) PROVE [QueueOps]_queueVars
  BY <1>5 DEF QueueStep, QueueOps
<1>6. ASSUME ListenerStep PROVE UNCHANGED queueVars
  BY <1>6 DEF ListenerStep, ListenOuter, ListenInner, ListenCompare, ListenCompareNull,
     ListenTakeCourier, ListenTakeOrder, ListenDeliver, ListenRemoveTarget, ListenRemoveOrder,
     ListenerReads
<1>7. CASE UNCHANGED vars
  BY <1>7 DEF vars
<1>. QED  BY <1>1, <1>2, <1>3, <1>4, <1>5, <1>6, <1>7 DEF Next

-----------------------------------------------------------------------------
(***************************************************************************)
(* The array of targeted couriers, and the listener's indices.             *)
(***************************************************************************)
\* Every step of the threads is a step of the array, or leaves it alone: the index the
\* listener passes is a counted one, and a courier is registered once.
LEMMA StepIsTargetStep ==
  ASSUME ProcTypeOK, ListenInv, TravelInv, [Next]_vars
  PROVE  [TargetNext]_targetVars
<1> USE DEF targetVars
<1>1. ASSUME NEW k \in Clients, ArriveTarget(k) PROVE [TargetNext]_targetVars
  <2>1. courier[k] \in Couriers \ registered
    BY <1>1 DEF ArriveTarget, Goto, TravelInv, ProcTypeOK
  <2>. QED  BY <1>1, <2>1 DEF ArriveTarget, TargetNext
<1>2. ASSUME NEW k \in Clients, StoreTarget(k) PROVE [TargetNext]_targetVars
  <2>1. courier[k] \in Couriers
    BY <1>2 DEF StoreTarget, ProcTypeOK
  <2>. QED  BY <1>2, <2>1 DEF StoreTarget, TargetNext
<1>3. CASE ListenRemoveTarget
  <2>1. scan.at = "remove_courier" /\ scan.i \in 0 .. TARGET_LIST_SIZE
    BY <1>3 DEF ListenRemoveTarget, ListenTo, ProcTypeOK
  <2>2. scan.i < s_target_courier_count /\ s_target_courier_count \in 0 .. TARGET_LIST_SIZE
    BY <2>1 DEF ListenInv, ProcTypeOK, TargetTypeOK
  <2>3. scan.i \in 0 .. s_target_courier_count - 1
    BY <2>1, <2>2, TargetAssumption
  <2>. QED  BY <1>3, <2>3 DEF ListenRemoveTarget, TargetNext
<1>4. ASSUME NEW o \in Orders, CookStep(o) PROVE UNCHANGED targetVars
  BY <1>4 DEF CookStep, CookDequeue, CookDeliver, CookList, CookStore
<1>5. ASSUME NEW k \in Clients, ClientStep(k), ~ArriveTarget(k), ~StoreTarget(k)
      PROVE  UNCHANGED targetVars
  BY <1>5 DEF ClientStep, ArriveRandom, ClientPop, ClientDequeue, ClientDeliver, ClientForget
<1>6. ASSUME NEW k \in Clients, Disconnect(k) PROVE UNCHANGED targetVars
  BY <1>6 DEF Disconnect
<1>7. ASSUME NEW k \in Clients, NEW c \in Couriers, Receive(k, c) PROVE UNCHANGED targetVars
  BY <1>7 DEF Receive
<1>8. ASSUME NEW t \in Threads, QueueStep(t) PROVE UNCHANGED targetVars
  BY <1>8 DEF QueueStep
<1>9. ASSUME ListenerStep, ~ListenRemoveTarget PROVE UNCHANGED targetVars
  BY <1>9 DEF ListenerStep, ListenOuter, ListenInner, ListenCompare, ListenCompareNull,
     ListenTakeCourier, ListenTakeOrder, ListenDeliver, ListenRemoveOrder, ListenerReads
<1>10. CASE UNCHANGED vars
  BY <1>10 DEF vars
<1>. QED
  BY <1>1, <1>2, <1>3, <1>4, <1>5, <1>6, <1>7, <1>8, <1>9, <1>10 DEF Next

\* The threads other than the listener do not lower the counter of the array.
LEMMA TargetsOnlyGrow ==
  ASSUME TargetTypeOK, [Next]_vars, ~ListenerStep
  PROVE  s_target_courier_count' >= s_target_courier_count /\ UNCHANGED scan
<1> USE DEF TargetTypeOK, targetVars, procVars
<1>1. ASSUME NEW o \in Orders, CookStep(o)
      PROVE  s_target_courier_count' >= s_target_courier_count /\ UNCHANGED scan
  BY <1>1 DEF CookStep, CookDequeue, CookDeliver, CookList, CookStore
<1>2. ASSUME NEW k \in Clients, ClientStep(k)
      PROVE  s_target_courier_count' >= s_target_courier_count /\ UNCHANGED scan
  BY <1>2 DEF ClientStep, ArriveRandom, ArriveTarget, StoreTarget, ClientPop, ClientDequeue,
     ClientDeliver, ClientForget, AddTargetFull, AddTargetCount, AddTargetStore
<1>3. ASSUME NEW k \in Clients, Disconnect(k)
      PROVE  s_target_courier_count' >= s_target_courier_count /\ UNCHANGED scan
  BY <1>3 DEF Disconnect
<1>4. ASSUME NEW k \in Clients, NEW c \in Couriers, Receive(k, c)
      PROVE  s_target_courier_count' >= s_target_courier_count /\ UNCHANGED scan
  BY <1>4 DEF Receive
<1>5. ASSUME NEW t \in Threads, QueueStep(t)
      PROVE  s_target_courier_count' >= s_target_courier_count /\ UNCHANGED scan
  BY <1>5 DEF QueueStep
<1>6. CASE UNCHANGED vars
  BY <1>6 DEF vars
<1>. QED  BY <1>1, <1>2, <1>3, <1>4, <1>5, <1>6 DEF Next

-----------------------------------------------------------------------------
(***************************************************************************)
(* Types.                                                                  *)
(***************************************************************************)
LocalTypes ==
  /\ pc \in [Threads -> {"cooking", "dequeued", "done", "unconnected", "reading",
                         "travelling", "arrived", "popped", "gone"}]
  /\ courier \in [Clients -> Couriers \union {NULL}]
  /\ order \in [Clients -> Orders \union {NULL}]
  /\ dispatched \subseteq Couriers

ScanType ==
  scan \in [at : {"outer", "inner", "compare", "courier", "order", "deliver",
                 "remove_courier", "remove_order"},
           i : 0 .. TARGET_LIST_SIZE, j : 0 .. ORDER_LIST_SIZE,
           courier : Couriers \union {NULL}, order : Orders \union {NULL}]

HistoryTypes ==
  /\ freed \subseteq Orders \union Couriers \union {NULL}
  /\ deliveries \subseteq (Threads \union {Listener}) \X (Couriers \union {NULL})
                                                    \X (Orders \union {NULL})
  /\ failed \in BOOLEAN

\* What the type invariant says of each part of the state, by name.
LEMMA TypeParts ==
  /\ ProcTypeOK <=> /\ ReadyTypeOK /\ QueueTypeOK /\ TargetTypeOK
                    /\ LocalTypes /\ ScanType /\ HistoryTypes
  /\ ProcTypeOK' <=> /\ ReadyTypeOK' /\ QueueTypeOK' /\ TargetTypeOK'
                     /\ LocalTypes' /\ ScanType' /\ HistoryTypes'
  BY DEF ProcTypeOK, LocalTypes, ScanType, HistoryTypes

\* The steps of the listener and of the queue leave the other threads' locals alone.
LEMMA OthersKeepLocals ==
  ASSUME ListenerStep \/ \E t \in Threads : QueueStep(t)
  PROVE  UNCHANGED <<pc, courier, order, dispatched>>
  BY DEF QueueStep, procVars, ListenerStep, ListenOuter, ListenInner, ListenCompare,
     ListenCompareNull, ListenTakeCourier, ListenTakeOrder, ListenDeliver, ListenRemoveTarget,
     ListenRemoveOrder, ListenerReads, ListenerOnly

\* Every step leaves the locals of the threads well-typed.
LEMMA LocalTypesNext ==
  ASSUME LocalTypes, [Next]_vars
  PROVE  LocalTypes'
<1> USE DEF LocalTypes, Threads, Goto
<1>1. ASSUME NEW o \in Orders, CookStep(o) PROVE LocalTypes'
  BY <1>1 DEF CookStep, CookDequeue, CookDeliver, CookList, CookStore, procVars
<1>2. ASSUME NEW k \in Clients, ClientStep(k) PROVE LocalTypes'
  <2>1. CASE ArriveRandom(k)
    BY <2>1 DEF ArriveRandom
  <2>2. CASE ArriveTarget(k)
    BY <2>2 DEF ArriveTarget
  <2>3. CASE StoreTarget(k)
    BY <2>3 DEF StoreTarget, procVars
  <2>4. CASE ClientPop(k)
    BY <2>4 DEF ClientPop
  <2>5. CASE ClientDequeue(k)
    BY <2>5 DEF ClientDequeue
  <2>6. CASE ClientDeliver(k)
    BY <2>6 DEF ClientDeliver, ForgetLocals
  <2>7. CASE ClientForget(k)
    BY <2>7 DEF ClientForget, ForgetLocals
  <2>. QED  BY <1>2, <2>1, <2>2, <2>3, <2>4, <2>5, <2>6, <2>7 DEF ClientStep
<1>3. ASSUME NEW k \in Clients, Disconnect(k) PROVE LocalTypes'
  BY <1>3 DEF Disconnect
<1>4. ASSUME NEW k \in Clients, NEW c \in Couriers, Receive(k, c) PROVE LocalTypes'
  BY <1>4 DEF Receive
<1>5. ASSUME UNCHANGED <<pc, courier, order, dispatched>> PROVE LocalTypes'
  BY <1>5
<1>6. CASE UNCHANGED vars
  BY <1>6 DEF vars, procVars
<1> HIDE DEF LocalTypes, Threads, Goto
<1>. QED  BY <1>1, <1>2, <1>3, <1>4, <1>5, <1>6, OthersKeepLocals DEF Next

ScanPlaces == {"outer", "inner", "compare", "courier", "order", "deliver",
           "remove_courier", "remove_order"}

Scans == [at : ScanPlaces, i : 0 .. TARGET_LIST_SIZE, j : 0 .. ORDER_LIST_SIZE,
          courier : Couriers \union {NULL}, order : Orders \union {NULL}]

\* The listener's bounds, of one value of scan and one of the counter.
InBounds(s, count) ==
  /\ s.at \in {"inner", "compare", "courier", "order", "deliver", "remove_courier"}
       => s.i < count
  /\ s.at = "remove_order" => s.i < TARGET_LIST_SIZE
  /\ s.at \in {"compare", "courier", "order", "deliver", "remove_courier", "remove_order"}
       => s.j < ORDER_LIST_SIZE

\* What is known of the listener's scan when it is inside its two loops.
LEMMA ScanParts ==
  ASSUME ScanType
  PROVE  /\ scan \in Scans
         /\ ListenInv <=> InBounds(scan, s_target_courier_count)
         /\ scan.at \in ScanPlaces
         /\ scan.i \in 0 .. TARGET_LIST_SIZE
         /\ scan.j \in 0 .. ORDER_LIST_SIZE
  BY DEF ScanType, Scans, ScanPlaces, ListenInv, InBounds

\* Every step keeps the listener's indices inside the arrays they are used with.
LEMMA ScanNext ==
  ASSUME ProcTypeOK, TargetTypeOK', ListenInv, [Next]_vars
  PROVE  ScanType' /\ ListenInv'
<1> DEFINE n == s_target_courier_count
<1>1. /\ scan \in Scans
      /\ scan.at \in ScanPlaces
      /\ scan.i \in 0 .. TARGET_LIST_SIZE
      /\ scan.j \in 0 .. ORDER_LIST_SIZE
      /\ InBounds(scan, n)
      /\ TARGET_LIST_SIZE \in Nat /\ ORDER_LIST_SIZE \in Nat
      /\ n \in 0 .. TARGET_LIST_SIZE
      /\ n' \in 0 .. TARGET_LIST_SIZE
      /\ g_ready_order_count \in 0 .. ORDER_LIST_SIZE
      /\ s_target_couriers \in [TargetSlots -> Couriers \union {NULL}]
      /\ g_ready_orders \in [Slots -> Orders \union {NULL}]
  BY ReadyAssumption, TargetAssumption, TypeParts, ScanParts
  DEF TargetTypeOK, ReadyTypeOK
<1>0. scan \in Scans /\ 0 \in 0 .. TARGET_LIST_SIZE /\ 0 \in 0 .. ORDER_LIST_SIZE
  BY <1>1
<1>2. SUFFICES scan' \in Scans /\ InBounds(scan', n')
  BY DEF ScanType, Scans, ScanPlaces, ListenInv, InBounds
<1> HIDE DEF n
<1>3. CASE ~ListenerStep
  <2>1. n' >= n /\ scan' = scan
    BY <1>3, TargetsOnlyGrow DEF ProcTypeOK, n
  <2>. QED  BY <1>1, <2>1 DEF InBounds
<1>4. ASSUME NEW f \in ScanPlaces, scan' = [scan EXCEPT !.at = f]
      PROVE  scan' \in Scans /\ scan'.at = f /\ scan'.i = scan.i /\ scan'.j = scan.j
  BY <1>0, <1>4 DEF Scans
<1>5. CASE ListenOuter
  <2>1. n' = n
    BY <1>5 DEF ListenOuter, ListenerReads, targetVars, n
  <2>2. CASE scan.i < n
    <3>1. scan' = [scan EXCEPT !.at = "inner", !.j = 0] /\ "inner" \in ScanPlaces
      BY <1>1, <1>5, <2>2 DEF ListenOuter, ListenTo, n, ScanPlaces
    <3>2. scan' \in Scans /\ scan'.at = "inner" /\ scan'.i = scan.i
      BY <1>0, <3>1 DEF Scans
    <3>. QED  BY <3>2, <2>1, <2>2 DEF InBounds
  <2>3. CASE ~(scan.i < n)
    <3>1. scan' = [scan EXCEPT !.i = 0, !.j = 0] /\ scan.at = "outer"
      BY <1>1, <1>5, <2>3 DEF ListenOuter, ListenTo, n
    <3>2. scan' \in Scans /\ scan'.at = "outer"
      BY <1>0, <3>1 DEF Scans
    <3>. QED  BY <3>2 DEF InBounds
  <2>. QED  BY <2>2, <2>3
<1>6. CASE ListenInner
  <2>1. n' = n /\ scan.at = "inner" /\ scan.i < n
    BY <1>1, <1>6 DEF ListenInner, ListenTo, ListenerReads, targetVars, n, InBounds
  <2>2. CASE scan.j < g_ready_order_count
    <3>1. scan' = [scan EXCEPT !.at = "compare"] /\ "compare" \in ScanPlaces
      BY <1>1, <1>6, <2>2 DEF ListenInner, ListenTo, ScanPlaces
    <3>. QED  BY <1>1, <1>4, <2>1, <2>2, <3>1 DEF InBounds
  <2>3. CASE ~(scan.j < g_ready_order_count)
    <3>1. scan' = [scan EXCEPT !.at = "outer", !.i = scan.i + 1] /\ "outer" \in ScanPlaces
      BY <1>1, <1>6, <2>3 DEF ListenInner, ListenTo, ScanPlaces
    <3>2. scan.i + 1 \in 0 .. TARGET_LIST_SIZE
      BY <1>1, <2>1
    <3>3. scan' \in Scans /\ scan'.at = "outer"
      BY <1>0, <3>1, <3>2 DEF Scans
    <3>. QED  BY <3>3 DEF InBounds
  <2>. QED  BY <2>2, <2>3
<1>7. CASE ListenCompare
  <2>1. n' = n /\ scan.i < n /\ scan.j < ORDER_LIST_SIZE
    BY <1>1, <1>7 DEF ListenCompare, ListenerReads, targetVars, n, InBounds
  <2>2. CASE scan' = [scan EXCEPT !.at = "courier"]
    BY <1>1, <1>4, <2>1, <2>2 DEF InBounds, ScanPlaces
  <2>3. CASE scan' = [scan EXCEPT !.at = "inner", !.j = scan.j + 1]
    <3>1. scan.j + 1 \in 0 .. ORDER_LIST_SIZE /\ "inner" \in ScanPlaces
      BY <1>1, <2>1 DEF ScanPlaces
    <3>2. scan' \in Scans /\ scan'.at = "inner" /\ scan'.i = scan.i
      BY <1>0, <2>3, <3>1 DEF Scans
    <3>. QED  BY <2>1, <3>2 DEF InBounds
  <2>. QED  BY <1>7, <2>2, <2>3 DEF ListenCompare, ListenTo
<1>8. CASE ListenCompareNull
  BY <1>1, <1>8 DEF ListenCompareNull, ListenerReads, targetVars, n
<1>9. CASE ListenTakeCourier
  <2>1. n' = n /\ scan.i < n /\ scan.j < ORDER_LIST_SIZE
    BY <1>1, <1>9 DEF ListenTakeCourier, ListenTo, ListenerReads, targetVars, n, InBounds
  <2>2. s_target_couriers[scan.i] \in Couriers \union {NULL} /\ "order" \in ScanPlaces
    BY <1>1, <2>1 DEF TargetSlots, ScanPlaces
  <2>3. scan' = [scan EXCEPT !.at = "order", !.courier = s_target_couriers[scan.i]]
    BY <1>9 DEF ListenTakeCourier, ListenTo
  <2>4. scan' \in Scans /\ scan'.at = "order" /\ scan'.i = scan.i /\ scan'.j = scan.j
    BY <1>0, <2>2, <2>3 DEF Scans
  <2>. QED  BY <2>1, <2>4 DEF InBounds
<1>10. CASE ListenTakeOrder
  <2>1. n' = n /\ scan.i < n /\ scan.j < ORDER_LIST_SIZE
    BY <1>1, <1>10 DEF ListenTakeOrder, ListenTo, ListenerReads, targetVars, n, InBounds
  <2>2. g_ready_orders[scan.j] \in Orders \union {NULL} /\ "deliver" \in ScanPlaces
    BY <1>1, <2>1 DEF Slots, ScanPlaces
  <2>3. scan' = [scan EXCEPT !.at = "deliver", !.order = g_ready_orders[scan.j]]
    BY <1>10 DEF ListenTakeOrder, ListenTo
  <2>4. scan' \in Scans /\ scan'.at = "deliver" /\ scan'.i = scan.i /\ scan'.j = scan.j
    BY <1>0, <2>2, <2>3 DEF Scans
  <2>. QED  BY <2>1, <2>4 DEF InBounds
<1>11. CASE ListenDeliver
  <2>1. n' = n /\ scan.i < n /\ scan.j < ORDER_LIST_SIZE
    BY <1>1, <1>11 DEF ListenDeliver, ListenTo, targetVars, n, InBounds
  <2>2. scan' = [scan EXCEPT !.at = "remove_courier"]
    BY <1>11 DEF ListenDeliver, ListenTo
  <2>. QED  BY <1>1, <1>4, <2>1, <2>2 DEF InBounds, ScanPlaces
<1>12. CASE ListenRemoveTarget
  <2>1. scan.i < n /\ scan.j < ORDER_LIST_SIZE
    BY <1>1, <1>12 DEF ListenRemoveTarget, ListenTo, InBounds
  <2>2. scan' = [scan EXCEPT !.at = "remove_order"]
    BY <1>12 DEF ListenRemoveTarget, ListenTo
  <2>. QED  BY <1>1, <1>4, <2>1, <2>2 DEF InBounds, ScanPlaces
<1>13. CASE ListenRemoveOrder
  <2>1. scan.i + 1 \in 0 .. TARGET_LIST_SIZE /\ "outer" \in ScanPlaces
    BY <1>1, <1>13 DEF ListenRemoveOrder, ListenTo, InBounds, ScanPlaces
  <2>2. scan' = [at |-> "outer", i |-> scan.i + 1, j |-> 0, courier |-> NULL, order |-> NULL]
    BY <1>13 DEF ListenRemoveOrder, ListenTo
  <2>3. scan' \in Scans /\ scan'.at = "outer"
    BY <1>0, <2>1, <2>2 DEF Scans
  <2>. QED  BY <2>3 DEF InBounds
<1>. QED
  BY <1>3, <1>5, <1>6, <1>7, <1>8, <1>9, <1>10, <1>11, <1>12, <1>13 DEF ListenerStep

\* What a delivery adds to the history is well-typed.
LEMMA DeliverTypes ==
  ASSUME HistoryTypes, NEW t \in Threads \union {Listener}, NEW c \in Couriers \union {NULL},
         NEW o \in Orders \union {NULL}, Deliver(t, c, o)
  PROVE  HistoryTypes'
<1>1. freed' \subseteq Orders \union Couriers \union {NULL}
  BY DEF HistoryTypes, Deliver
<1>2. <<t, c, o>> \in (Threads \union {Listener}) \X (Couriers \union {NULL})
                                                  \X (Orders \union {NULL})
  OBVIOUS
<1>3. deliveries' \subseteq (Threads \union {Listener}) \X (Couriers \union {NULL})
                                                        \X (Orders \union {NULL})
  BY <1>2 DEF HistoryTypes, Deliver
<1>4. failed' \in BOOLEAN
  BY DEF Deliver
<1>. QED  BY <1>1, <1>3, <1>4 DEF HistoryTypes

\* Every step leaves the histories well-typed.
LEMMA HistoryTypesNext ==
  ASSUME ProcTypeOK, [Next]_vars
  PROVE  HistoryTypes'
<1>1. HistoryTypes /\ QueueTypeOK /\ LocalTypes /\ ScanType
  BY TypeParts
<1>2. ASSUME UNCHANGED <<freed, deliveries, failed>> PROVE HistoryTypes'
  BY <1>1, <1>2 DEF HistoryTypes
<1>3. ret \in [Threads -> Couriers \union {NULL}]
  BY <1>1 DEF QueueTypeOK
<1>4. ASSUME NEW o \in Orders, CookStep(o) PROVE HistoryTypes'
  <2>1. CASE CookDeliver(o)
    <3>1. o \in Threads
      BY DEF Threads
    <3>. QED  BY <1>1, <1>3, <2>1, <3>1, DeliverTypes DEF CookDeliver
  <2>2. CASE ~CookDeliver(o)
    BY <1>2, <1>4, <2>2 DEF CookStep, CookDequeue, CookList, CookStore, procVars
  <2>. QED  BY <2>1, <2>2
<1>5. ASSUME NEW k \in Clients, ClientStep(k) PROVE HistoryTypes'
  <2>1. CASE ClientDeliver(k)
    <3>1. k \in Threads /\ order[k] \in Orders \union {NULL}
      BY <1>1 DEF Threads, LocalTypes
    <3>. QED  BY <1>1, <1>3, <2>1, <3>1, DeliverTypes DEF ClientDeliver
  <2>2. CASE ~ClientDeliver(k)
    BY <1>2, <1>5, <2>2 DEF ClientStep, ArriveRandom, ArriveTarget, StoreTarget, ClientPop,
       ClientDequeue, ClientForget, procVars
  <2>. QED  BY <2>1, <2>2
<1>6. CASE ListenerStep
  <2>1. CASE ListenDeliver
    <3>1. scan.courier \in Couriers \union {NULL} /\ scan.order \in Orders \union {NULL}
      BY <1>1 DEF ScanType
    <3>. QED  BY <1>1, <2>1, <3>1, DeliverTypes DEF ListenDeliver
  <2>2. CASE ListenCompareNull
    BY <1>1, <2>2 DEF ListenCompareNull, ListenerReads, HistoryTypes
  <2>3. CASE ~ListenDeliver /\ ~ListenCompareNull
    BY <1>2, <1>6, <2>3 DEF ListenerStep, ListenOuter, ListenInner, ListenCompare,
       ListenTakeCourier, ListenTakeOrder, ListenRemoveTarget, ListenRemoveOrder, ListenerReads
  <2>. QED  BY <2>1, <2>2, <2>3
<1>7. ASSUME NEW k \in Clients, Disconnect(k) PROVE HistoryTypes'
  BY <1>2, <1>7 DEF Disconnect
<1>8. ASSUME NEW k \in Clients, NEW c \in Couriers, Receive(k, c) PROVE HistoryTypes'
  BY <1>2, <1>8 DEF Receive
<1>9. ASSUME NEW t \in Threads, QueueStep(t) PROVE HistoryTypes'
  BY <1>2, <1>9 DEF QueueStep, procVars
<1>10. CASE UNCHANGED vars
  BY <1>2, <1>10 DEF vars, procVars
<1>. QED  BY <1>4, <1>5, <1>6, <1>7, <1>8, <1>9, <1>10 DEF Next
-----------------------------------------------------------------------------
(***************************************************************************)
(* The couriers on their way.                                              *)
(***************************************************************************)
\* Every step keeps what is known of a courier on its way.
LEMMA TravelInvNext ==
  ASSUME ProcTypeOK, TravelInv, [Next]_vars
  PROVE  TravelInv'
<1>0. LocalTypes
  BY TypeParts
<1>1. ASSUME offered' = offered, registered' = registered,
             dispatched' = dispatched, courier' = courier,
             \A k \in Clients : pc'[k] = "travelling" => pc[k] = "travelling"
      PROVE  TravelInv'
  BY <1>1 DEF TravelInv
<1>2. ASSUME NEW o \in Orders, CookStep(o) PROVE TravelInv'
  <2>1. pc' = pc \/ \E f \in {"dequeued", "done"} : pc' = [pc EXCEPT ![o] = f]
    BY <1>2 DEF CookStep, CookDequeue, CookDeliver, CookList, CookStore, procVars, Goto
  <2>2. \A k \in Clients : pc'[k] = "travelling" => pc[k] = "travelling"
    BY <1>0, <2>1 DEF LocalTypes, Threads
  <2>3. /\ offered' = offered /\ registered' = registered
        /\ dispatched' = dispatched /\ courier' = courier
    BY <1>2 DEF CookStep, CookDequeue, CookDeliver, CookList, CookStore, procVars, queueVars,
       targetVars, Dequeue, DequeueEmpty, DequeueTake
  <2>. QED  BY <1>1, <2>2, <2>3
<1>3. ASSUME NEW k \in Clients, ClientStep(k) PROVE TravelInv'
  <2>1. CASE ArriveRandom(k) \/ ArriveTarget(k)
    <3>1. /\ pc[k] = "travelling" /\ pc' = [pc EXCEPT ![k] = "arrived"]
          /\ offered' \union registered' \subseteq (offered \union registered) \union {courier[k]}
          /\ courier' = courier /\ dispatched' = dispatched
      BY <2>1 DEF ArriveRandom, ArriveTarget, Goto, EnqueueFull, EnqueueStore, AddTargetFull,
         AddTargetCount, queueVars, targetVars
    <3>2. \A m \in Clients : pc'[m] = "travelling" => pc[m] = "travelling" /\ m # k
      BY <1>0, <3>1 DEF LocalTypes, Threads
    <3>. QED  BY <3>1, <3>2 DEF TravelInv
  <2>2. CASE ~ArriveRandom(k) /\ ~ArriveTarget(k)
    <3>1. \/ pc' = pc
          \/ \E f \in {"popped", "dequeued", "reading"} : pc' = [pc EXCEPT ![k] = f]
      BY <1>3, <2>2 DEF ClientStep, StoreTarget, ClientPop, ClientDequeue,
         ClientDeliver, ClientForget, procVars, Goto
    <3>2. \A m \in Clients : pc'[m] = "travelling" => pc[m] = "travelling"
      BY <1>0, <3>1 DEF LocalTypes, Threads
    <3>3. offered' = offered /\ registered' = registered /\ dispatched' = dispatched
      BY <1>3, <2>2 DEF ClientStep, StoreTarget, ClientPop, ClientDequeue, ClientDeliver,
         ClientForget, procVars, queueVars, targetVars, Dequeue, DequeueEmpty, DequeueTake,
         AddTargetStore
    <3>4. courier' = courier \/ ClientDeliver(k) \/ ClientForget(k)
      BY <1>3, <2>2 DEF ClientStep, StoreTarget, ClientPop, ClientDequeue, procVars
    <3>5. CASE ClientDeliver(k) \/ ClientForget(k)
      <4>1. courier' = [courier EXCEPT ![k] = NULL] /\ pc' = [pc EXCEPT ![k] = "reading"]
        BY <3>5 DEF ClientDeliver, ClientForget, ForgetLocals, Goto
      <4>2. \A m \in Clients : pc'[m] = "travelling"
                                 => pc[m] = "travelling" /\ courier'[m] = courier[m]
        BY <1>0, <4>1 DEF LocalTypes, Threads
      <4>. QED  BY <3>3, <4>2 DEF TravelInv
    <3>. QED  BY <1>1, <3>2, <3>3, <3>4, <3>5
  <2>. QED  BY <2>1, <2>2
<1>4. ASSUME NEW k \in Clients, NEW c \in Couriers, Receive(k, c) PROVE TravelInv'
  <2>1. /\ c \notin dispatched /\ dispatched' = dispatched \union {c}
        /\ offered' = offered /\ registered' = registered
        /\ pc' = [pc EXCEPT ![k] = "travelling"] /\ courier' = [courier EXCEPT ![k] = c]
    BY <1>4 DEF Receive, Goto, queueVars, targetVars
  <2>2. pc'[k] = "travelling" /\ courier'[k] = c
    BY <1>0, <2>1 DEF LocalTypes, Threads
  <2>3. \A m \in Clients \ {k} : pc'[m] = pc[m] /\ courier'[m] = courier[m]
    BY <1>0, <2>1 DEF LocalTypes, Threads
  <2>. QED  BY <2>1, <2>2, <2>3 DEF TravelInv
<1>5. ASSUME NEW k \in Clients, Disconnect(k) PROVE TravelInv'
  <2>1. \A m \in Clients : pc'[m] = "travelling" => pc[m] = "travelling"
    BY <1>0, <1>5 DEF Disconnect, Goto, LocalTypes, Threads
  <2>. QED  BY <1>1, <1>5, <2>1 DEF Disconnect, DestroyQueueMutex, targetVars
<1>6. ASSUME NEW t \in Threads, QueueStep(t) PROVE TravelInv'
  BY <1>1, <1>6 DEF QueueStep, procVars, targetVars, EnqueueBack, EnqueueCount, DequeueFront, DequeueCount
<1>7. CASE ListenerStep
  <2>1. UNCHANGED queueVars
    BY <1>7 DEF ListenerStep, ListenOuter, ListenInner, ListenCompare, ListenCompareNull,
       ListenTakeCourier, ListenTakeOrder, ListenDeliver, ListenRemoveTarget, ListenRemoveOrder,
       ListenerReads
  <2>2. registered' = registered
    BY <1>7 DEF ListenerStep, ListenOuter, ListenInner, ListenCompare, ListenCompareNull,
       ListenTakeCourier, ListenTakeOrder, ListenDeliver, ListenRemoveTarget, ListenRemoveOrder,
       ListenerReads, RemoveTarget, RemoveTargetEmpty, targetVars
  <2>. QED  BY <1>1, <1>7, <2>1, <2>2, OthersKeepLocals DEF queueVars
<1>8. CASE UNCHANGED vars
  BY <1>1, <1>8 DEF vars, procVars, queueVars, targetVars
<1>. QED  BY <1>2, <1>3, <1>4, <1>5, <1>6, <1>7, <1>8 DEF Next
-----------------------------------------------------------------------------
(***************************************************************************)
(* No order is delivered twice.                                            *)
(***************************************************************************)
\* A delivery is added to the history, and to nothing else.
LEMMA DeliveryRecorded ==
  ASSUME NEW t \in Threads \union {Listener}, NEW c, NEW o, Deliver(t, c, o)
  PROVE  RandomDeliveries' = RandomDeliveries \union {d \in {<<t, c, o>>} : t # Listener}
  BY DEF Deliver, RandomDeliveries

\* The listener's deliveries are not those of the cooks and the courier threads.
LEMMA ListenerDeliversNothingRandom ==
  ASSUME ListenerStep
  PROVE  RandomDeliveries' = RandomDeliveries
<1>1. CASE ListenDeliver
  BY <1>1, DeliveryRecorded DEF ListenDeliver
<1>2. CASE ~ListenDeliver
  BY <1>2 DEF ListenerStep, ListenOuter, ListenInner, ListenCompare,
     ListenCompareNull, ListenTakeCourier, ListenTakeOrder, ListenRemoveTarget,
     ListenRemoveOrder, ListenerReads, RandomDeliveries
<1>. QED  BY <1>1, <1>2

\* A step that neither lists, pops nor delivers an order.
LEMMA OrderInvFrame ==
  ASSUME OrderInv, listed' = listed, popped' = popped,
         RandomDeliveries' = RandomDeliveries,
         \A x \in Orders : pc'[x] # "done" => pc[x] # "done",
         \A k \in Clients : order'[k] \in {order[k], NULL}
  PROVE  OrderInv'
  BY DEF OrderInv, Delivered, OrderServedOnce

\* A cook or courier thread delivers an order nobody has delivered.
LEMMA OrderInvDeliver ==
  ASSUME OrderInv, NEW t \in Threads, NEW c, NEW o \in Orders, Deliver(t, c, o),
         popped \subseteq Orders, o \notin listed \ popped, ~Delivered(o),
         listed' = listed, popped' = popped,
         \A x \in Orders : pc'[x] # "done" => pc[x] # "done" /\ x # o,
         \A k \in Clients : \/ order'[k] = NULL
                            \/ order'[k] = order[k] /\ order[k] # o
  PROVE  OrderInv'
<1>1. RandomDeliveries' = RandomDeliveries \union {<<t, c, o>>}
  BY DeliveryRecorded, ProcessingAssumption
<1>2. \A x \in Orders : Delivered(x)' <=> Delivered(x) \/ x = o
  <2>1. <<t, c, o>>[3] = o
    OBVIOUS
  <2>. QED  BY <1>1, <2>1 DEF Delivered
<1>3. OrderServedOnce'
  BY <1>1 DEF OrderInv, OrderServedOnce, Delivered
<1>4. \A x \in Orders : pc'[x] # "done" => x \notin listed' /\ ~Delivered(x)'
  BY <1>2 DEF OrderInv
<1>5. \A x \in Orders : Delivered(x)' => x \notin listed' \ popped'
  BY <1>2 DEF OrderInv
<1>6. (\A k \in Clients : order[k] # NULL => order[k] \in popped /\ ~Delivered(order[k]))'
  <2> SUFFICES ASSUME NEW k \in Clients, order'[k] # NULL
               PROVE  order'[k] \in popped' /\ ~(Delivered(order[k])')
    OBVIOUS
  <2>1. order'[k] = order[k] /\ order[k] # o
    OBVIOUS
  <2>. QED  BY <1>2, <2>1 DEF OrderInv
<1>7. \A k, m \in Clients : order'[k] # NULL /\ order'[k] = order'[m] => k = m
  BY DEF OrderInv
<1>. QED  BY <1>3, <1>4, <1>5, <1>6, <1>7 DEF OrderInv

\* Every step keeps the orders on the list, in hand and delivered apart.
LEMMA OrderInvNext ==
  ASSUME ProcTypeOK, ReadyInv, OrderInv, [Next]_vars
  PROVE  OrderInv'
<1>1. LocalTypes /\ popped \subseteq listed /\ popped \subseteq Orders
  BY TypeParts DEF ReadyInv, AddingInv, ReadyTypeOK
<1>2. ASSUME UNCHANGED <<readyVars, pc, order, deliveries>> PROVE OrderInv'
  BY <1>2, OrderInvFrame DEF readyVars, RandomDeliveries
<1>3. ASSUME NEW o \in Orders, CookStep(o) PROVE OrderInv'
  <2>1. o \in Threads
    BY DEF Threads
  <2>2. CASE CookDequeue(o)
    <3>1. pc[o] = "cooking" /\ pc' = [pc EXCEPT ![o] = "dequeued"]
      BY <2>2 DEF CookDequeue, Goto
    <3>2. \A x \in Orders : pc'[x] # "done" => pc[x] # "done"
      BY <1>1, <2>1, <3>1 DEF LocalTypes
    <3>. QED  BY <2>2, <3>2, OrderInvFrame DEF CookDequeue, readyVars, RandomDeliveries
  <2>3. CASE CookDeliver(o)
    <3>1. /\ pc[o] = "dequeued" /\ pc' = [pc EXCEPT ![o] = "done"]
          /\ Deliver(o, ret[o], o) /\ order' = order /\ listed' = listed /\ popped' = popped
      BY <2>3 DEF CookDeliver, Goto, readyVars
    <3>2. \A x \in Orders : pc'[x] # "done" => pc[x] # "done" /\ x # o
      BY <1>1, <2>1, <3>1 DEF LocalTypes
    <3>3. o \notin listed /\ ~Delivered(o)
      BY <3>1 DEF OrderInv
    <3>4. \A k \in Clients : order[k] # o
      BY <1>1, <3>3, ReadyAssumption DEF OrderInv
    <3>. QED  BY <1>1, <2>1, <3>1, <3>2, <3>3, <3>4, OrderInvDeliver
  <2>4. CASE CookList(o)
    <3>1. /\ pc[o] = "dequeued" /\ pc' = [pc EXCEPT ![o] = "done"]
          /\ order' = order /\ deliveries' = deliveries /\ popped' = popped
          /\ listed' \in {listed, listed \union {o}}
      BY <2>4 DEF CookList, Goto, AddOrderCount, AddOrderOverrun
    <3>2. \A x \in Orders : pc'[x] # "done" => pc[x] # "done" /\ x # o
      BY <1>1, <2>1, <3>1 DEF LocalTypes
    <3>3. ~Delivered(o) /\ RandomDeliveries' = RandomDeliveries
      BY <3>1 DEF OrderInv, RandomDeliveries
    <3>. QED  BY <3>1, <3>2, <3>3 DEF OrderInv, Delivered, OrderServedOnce
  <2>5. CASE CookStore(o)
    BY <2>5, OrderInvFrame DEF CookStore, AddOrderStore, procVars, RandomDeliveries
  <2>. QED  BY <1>3, <2>2, <2>3, <2>4, <2>5 DEF CookStep
<1>4. ASSUME NEW k \in Clients, ClientStep(k) PROVE OrderInv'
  <2>1. k \in Threads /\ \A x \in Orders : pc'[x] = pc[x]
    <3>1. \/ pc' = pc
          \/ \E f \in {"arrived", "popped", "dequeued", "reading"} : pc' = [pc EXCEPT ![k] = f]
      BY <1>4 DEF ClientStep, ArriveRandom, ArriveTarget, StoreTarget, ClientPop, ClientDequeue,
         ClientDeliver, ClientForget, procVars, Goto
    <3>. QED  BY <1>1, <3>1, ReadyAssumption DEF LocalTypes, Threads
  <2>2. CASE ArriveRandom(k)
    BY <2>1, <2>2, OrderInvFrame DEF ArriveRandom, readyVars, RandomDeliveries
  <2>3. CASE ArriveTarget(k)
    BY <2>1, <2>3, OrderInvFrame DEF ArriveTarget, readyVars, RandomDeliveries
  <2>4. CASE StoreTarget(k)
    BY <1>2, <2>4 DEF StoreTarget, procVars
  <2>5. CASE ClientDequeue(k)
    BY <2>1, <2>5, OrderInvFrame DEF ClientDequeue, readyVars, RandomDeliveries
  <2>6. CASE ClientForget(k)
    <3>1. order' = [order EXCEPT ![k] = NULL]
      BY <2>6 DEF ClientForget, ForgetLocals
    <3>2. \A m \in Clients : order'[m] \in {order[m], NULL}
      BY <1>1, <3>1 DEF LocalTypes
    <3>. QED
      BY <2>1, <2>6, <3>1, <3>2, OrderInvFrame DEF ClientForget, readyVars, RandomDeliveries
  <2>7. CASE ClientDeliver(k)
    <3>1. /\ order' = [order EXCEPT ![k] = NULL]
          /\ order[k] # NULL /\ Deliver(k, ret[k], order[k])
          /\ listed' = listed /\ popped' = popped
      BY <2>7 DEF ClientDeliver, ForgetLocals, readyVars
    <3>2. order[k] \in Orders /\ order[k] \in popped /\ ~Delivered(order[k])
      BY <1>1, <3>1 DEF LocalTypes, OrderInv
    <3>3. \A x \in Orders : pc'[x] # "done" => pc[x] # "done" /\ x # order[k]
      BY <1>1, <2>1, <3>1, <3>2 DEF OrderInv
    <3>4. \A m \in Clients : order'[m] = NULL \/ (order'[m] = order[m] /\ order[m] # order[k])
      BY <1>1, <3>1 DEF LocalTypes, OrderInv
    <3>. QED  BY <1>1, <2>1, <3>1, <3>2, <3>3, <3>4, OrderInvDeliver
  <2>8. CASE ClientPop(k)
    <3>1. RandomDeliveries' = RandomDeliveries
      BY <2>8 DEF ClientPop, RandomDeliveries
    <3>2. CASE PopNull(k) /\ order' = [order EXCEPT ![k] = NULL]
      <4>1. \A m \in Clients : order'[m] \in {order[m], NULL}
        BY <1>1, <3>2 DEF LocalTypes
      <4>. QED  BY <2>1, <3>1, <3>2, <4>1, OrderInvFrame DEF PopNull
    <3>3. ASSUME NEW o \in Orders, PopOrder(k, o), order' = [order EXCEPT ![k] = o]
          PROVE  OrderInv'
      <4>1. o \in listed \ popped
        BY <3>3, PopOrderInv DEF ReadyInv, ReadyDistinct
      <4>2. ~Delivered(o) /\ \A m \in Clients : order[m] # o
        BY <4>1, ReadyAssumption DEF OrderInv
      <4>3. listed' = listed /\ popped' = popped \union {o}
        BY <3>3 DEF PopOrder
      <4>4. order'[k] = o /\ \A m \in Clients \ {k} : order'[m] = order[m]
        BY <1>1, <3>3 DEF LocalTypes
      <4>. QED
        BY <2>1, <3>1, <4>1, <4>2, <4>3, <4>4 DEF OrderInv, Delivered, OrderServedOnce
    <3>. QED  BY <2>8, <3>2, <3>3 DEF ClientPop
  <2>. QED  BY <1>4, <2>2, <2>3, <2>4, <2>5, <2>6, <2>7, <2>8 DEF ClientStep
<1>5. ASSUME NEW k \in Clients, Disconnect(k) \/ \E c \in Couriers : Receive(k, c)
      PROVE  OrderInv'
  <2>1. \E f \in {"gone", "travelling"} : pc' = [pc EXCEPT ![k] = f]
    BY <1>5 DEF Disconnect, Receive, Goto
  <2>2. \A x \in Orders : pc'[x] # "done" => pc[x] # "done"
    BY <1>1, <2>1, ReadyAssumption DEF LocalTypes, Threads
  <2>. QED  BY <1>5, <2>2, OrderInvFrame DEF Disconnect, Receive, readyVars, RandomDeliveries
<1>6. ASSUME NEW t \in Threads, QueueStep(t) PROVE OrderInv'
  BY <1>2, <1>6 DEF QueueStep, procVars
<1>7. CASE ListenerStep
  <2>1. UNCHANGED <<pc, order, listed, popped>>
    BY <1>7, OthersKeepLocals DEF ListenerStep, ListenOuter, ListenInner, ListenCompare,
       ListenCompareNull, ListenTakeCourier, ListenTakeOrder, ListenDeliver, ListenRemoveTarget,
       ListenRemoveOrder, ListenerReads, readyVars, RemoveOrder, RemoveOrderEmpty
  <2>2. RandomDeliveries' = RandomDeliveries
    BY <1>7, ListenerDeliversNothingRandom
  <2>. QED  BY <2>1, <2>2, OrderInvFrame
<1>8. CASE UNCHANGED vars
  BY <1>2, <1>8 DEF vars, procVars
<1>. QED  BY <1>3, <1>4, <1>5, <1>6, <1>7, <1>8 DEF Next
-----------------------------------------------------------------------------
(***************************************************************************)
(* No courier is delivered twice while the queue's mutex exists.           *)
(***************************************************************************)
\* A step that neither hands out nor delivers a courier.
LEMMA CourierInvFrame ==
  ASSUME CourierInv, Protected' => Protected, handed' = handed,
         RandomDeliveries' = RandomDeliveries,
         \A t \in Threads : Holds(t)' => Holds(t) /\ ret'[t] = ret[t]
  PROVE  CourierInv'
  BY DEF CourierInv, CourierServedOnce

\* A cook or courier thread calls dequeue_random_courier.
LEMMA CourierInvDequeue ==
  ASSUME LocalTypes, QueueInv, CourierInv, NEW t \in Threads, Dequeue(t),
         pc' = [pc EXCEPT ![t] = "dequeued"], RandomDeliveries' = RandomDeliveries
  PROVE  CourierInv'
<1>1. \A u \in Threads \ {t} : Holds(u)' => Holds(u) /\ ret'[u] = ret[u]
  BY DEF Dequeue, DequeueEmpty, DequeueTake, LocalTypes, QueueInv, QueueTypeOK, Holds
<1>2. CASE DequeueEmpty(t)
  <2>1. ~Holds(t)'
    BY <1>2 DEF DequeueEmpty, QueueInv, QueueTypeOK, Holds
  <2>. QED  BY <1>1, <1>2, <2>1, CourierInvFrame DEF DequeueEmpty, Protected
<1>3. CASE DequeueTake(t)
  <2> SUFFICES ASSUME Protected' PROVE CourierInv'
    BY DEF CourierInv
  <2>1. Protected
    BY <1>3 DEF DequeueTake, QueueLock, Protected
  <2>2. ret'[t] = values[front] /\ handed' = handed \union {values[front]}
    BY <1>3 DEF DequeueTake, QueueInv, QueueTypeOK
  <2>3. values[front] \notin handed
    BY <1>3, <2>1, TakeKeepsInv
  <2>4. CourierServedOnce'
    BY <2>1 DEF CourierInv, CourierServedOnce
  <2>5. \A d \in RandomDeliveries : d[2] \in handed /\ d[2] # ret'[t]
    BY <2>1, <2>2, <2>3 DEF CourierInv
  <2>6. ASSUME NEW u \in Threads, Holds(u)'
        PROVE  ret'[u] \in handed' /\ \A d \in RandomDeliveries : d[2] # ret'[u]
    BY <1>1, <2>1, <2>2, <2>5, <2>6 DEF CourierInv
  <2>7. ASSUME NEW u \in Threads, NEW w \in Threads, Holds(u)', Holds(w)', ret'[u] = ret'[w]
        PROVE  u = w
    <3>1. \A x \in Threads \ {t} : Holds(x)' => ret'[x] \in handed
      BY <1>1, <2>1 DEF CourierInv
    <3>2. u = t <=> w = t
      BY <2>2, <2>3, <2>7, <3>1
    <3>. QED  BY <1>1, <2>1, <2>7, <3>2 DEF CourierInv
  <2>. QED  BY <2>2, <2>4, <2>5, <2>6, <2>7 DEF CourierInv
<1>. QED  BY <1>2, <1>3 DEF Dequeue

\* A cook or courier thread delivers the courier in its hands.
LEMMA CourierInvDeliver ==
  ASSUME LocalTypes, CourierInv, NEW t \in Threads, NEW o, Holds(t), Deliver(t, ret[t], o),
         UNCHANGED queueVars, NEW f, f # "dequeued", pc' = [pc EXCEPT ![t] = f]
  PROVE  CourierInv'
<1>1. RandomDeliveries' = RandomDeliveries \union {<<t, ret[t], o>>}
  BY DeliveryRecorded, ProcessingAssumption
<1>2. ret' = ret /\ handed' = handed /\ (Protected' <=> Protected)
  BY DEF queueVars, Protected
<1>3. \A u \in Threads : Holds(u)' => Holds(u) /\ u # t
  BY <1>2 DEF Holds, LocalTypes
<1>4. <<t, ret[t], o>>[2] = ret[t]
  OBVIOUS
<1> SUFFICES ASSUME Protected PROVE CourierInv'
  BY <1>2 DEF CourierInv
<1>5. CourierServedOnce'
  BY <1>1, <1>4 DEF CourierInv, CourierServedOnce
<1>6. \A d \in RandomDeliveries' : d[2] \in handed
  BY <1>1, <1>4 DEF CourierInv
<1>7. \A u \in Threads : Holds(u)' => /\ ret[u] \in handed
                                      /\ \A d \in RandomDeliveries' : d[2] # ret[u]
  BY <1>1, <1>3, <1>4 DEF CourierInv
<1>8. \A u, w \in Threads : Holds(u)' /\ Holds(w)' /\ ret[u] = ret[w] => u = w
  BY <1>3 DEF CourierInv
<1>. QED  BY <1>2, <1>5, <1>6, <1>7, <1>8 DEF CourierInv

\* Every step keeps the couriers queued, in hand and delivered apart.
LEMMA CourierInvNext ==
  ASSUME ProcTypeOK, QueueInv, CourierInv, [Next]_vars
  PROVE  CourierInv'
<1>1. LocalTypes
  BY TypeParts
<1>2. ASSUME UNCHANGED <<ret, handed, deliveries>>, Protected' => Protected,
             \/ pc' = pc
             \/ \E t \in Threads : \E f \in {"done", "travelling", "arrived", "popped",
                                             "reading", "gone"} : pc' = [pc EXCEPT ![t] = f]
      PROVE  CourierInv'
  <2>1. \A t \in Threads : pc'[t] = "dequeued" => pc[t] = "dequeued"
    BY <1>1, <1>2 DEF LocalTypes
  <2>2. \A t \in Threads : Holds(t)' => Holds(t) /\ ret'[t] = ret[t]
    BY <1>2, <2>1 DEF Holds
  <2>. QED  BY <1>2, <2>2, CourierInvFrame DEF RandomDeliveries
<1>3. ASSUME UNCHANGED <<queueVars, deliveries>>,
             \/ pc' = pc
             \/ \E t \in Threads : \E f \in {"done", "travelling", "arrived", "popped",
                                             "reading", "gone"} : pc' = [pc EXCEPT ![t] = f]
      PROVE  CourierInv'
  BY <1>2, <1>3 DEF queueVars, Protected
<1>4. ASSUME NEW o \in Orders, CookStep(o) PROVE CourierInv'
  <2>1. o \in Threads
    BY DEF Threads
  <2>2. CASE CookDequeue(o)
    BY <1>1, <2>1, <2>2, CourierInvDequeue DEF CookDequeue, Goto, RandomDeliveries
  <2>3. CASE CookDeliver(o)
    BY <1>1, <2>1, <2>3, CourierInvDeliver DEF CookDeliver, Goto, Holds
  <2>4. CASE CookList(o)
    BY <1>3, <2>1, <2>4 DEF CookList, Goto
  <2>5. CASE CookStore(o)
    BY <1>3, <2>5 DEF CookStore, procVars
  <2>. QED  BY <1>4, <2>2, <2>3, <2>4, <2>5 DEF CookStep
<1>5. ASSUME NEW k \in Clients, ClientStep(k) PROVE CourierInv'
  <2>1. k \in Threads
    BY DEF Threads
  <2>2. CASE ClientDequeue(k)
    BY <1>1, <2>1, <2>2, CourierInvDequeue DEF ClientDequeue, Goto, RandomDeliveries
  <2>3. CASE ClientDeliver(k)
    BY <1>1, <2>1, <2>3, CourierInvDeliver DEF ClientDeliver, Goto, Holds
  <2>4. CASE ArriveRandom(k)
    <3>1. ret' = ret /\ handed' = handed /\ (Protected' => Protected)
      BY <2>4 DEF ArriveRandom, EnqueueFull, EnqueueStore, QueueLock, Protected
    <3>. QED  BY <1>2, <2>1, <2>4, <3>1 DEF ArriveRandom, Goto
  <2>5. CASE ArriveTarget(k)
    BY <1>3, <2>1, <2>5 DEF ArriveTarget, Goto
  <2>6. CASE StoreTarget(k)
    BY <1>3, <2>6 DEF StoreTarget, procVars
  <2>7. CASE ClientPop(k)
    BY <1>3, <2>1, <2>7 DEF ClientPop, Goto
  <2>8. CASE ClientForget(k)
    BY <1>3, <2>1, <2>8 DEF ClientForget, Goto
  <2>. QED  BY <1>5, <2>2, <2>3, <2>4, <2>5, <2>6, <2>7, <2>8 DEF ClientStep
<1>6. ASSUME NEW k \in Clients, Disconnect(k) PROVE CourierInv'
  <2>1. ret' = ret /\ handed' = handed /\ (Protected' => Protected)
    BY <1>6 DEF Disconnect, DestroyQueueMutex, Protected
  <2>. QED  BY <1>2, <1>6, <2>1 DEF Disconnect, Goto, Threads
<1>7. ASSUME NEW k \in Clients, NEW c \in Couriers, Receive(k, c) PROVE CourierInv'
  BY <1>3, <1>7 DEF Receive, Goto, Threads
<1>8. ASSUME NEW t \in Threads, QueueStep(t) PROVE CourierInv'
  <2>1. ret' = ret /\ handed' = handed /\ (Protected' => Protected)
    BY <1>8 DEF QueueStep, EnqueueBack, EnqueueCount, DequeueFront, DequeueCount, QueueUnlock,
       Protected
  <2>. QED  BY <1>2, <1>8, <2>1 DEF QueueStep, procVars
<1>9. CASE ListenerStep
  <2>1. UNCHANGED <<queueVars, pc>>
    BY <1>9, OthersKeepLocals DEF ListenerStep, ListenOuter, ListenInner, ListenCompare,
       ListenCompareNull, ListenTakeCourier, ListenTakeOrder, ListenDeliver, ListenRemoveTarget,
       ListenRemoveOrder, ListenerReads
  <2>2. RandomDeliveries' = RandomDeliveries
    BY <1>9, ListenerDeliversNothingRandom
  <2>. QED  BY <2>1, <2>2, CourierInvFrame DEF queueVars, Protected, Holds
<1>10. CASE UNCHANGED vars
  BY <1>3, <1>10 DEF vars, procVars
<1>. QED  BY <1>4, <1>5, <1>6, <1>7, <1>8, <1>9, <1>10 DEF Next
-----------------------------------------------------------------------------
(***************************************************************************)
(* The couriers in the queue are outnumbered by the threads that have not  *)
(* dequeued yet.                                                           *)
(***************************************************************************)
Matching == {k \in Clients : pc[k] \in {"arrived", "popped"}}

\* A step that neither fills nor empties the queue, nor moves a thread past the match.
LEMMA WaitingBoundedFrame ==
  ASSUME IsFiniteSet(Clients), WaitingBounded, Protected' => Protected,
         Protected' => Size0' <= Size0, Size0 \in Int, Protected' => Size0' \in Int,
         Matching \subseteq Matching'
  PROVE  WaitingBounded'
<1>1. IsFiniteSet(Matching) /\ IsFiniteSet(Matching')
  BY FS_Subset DEF Matching
<1>2. /\ Cardinality(Matching) \in Nat /\ Cardinality(Matching') \in Nat
      /\ Cardinality(Matching) <= Cardinality(Matching')
  BY <1>1, FS_Subset, FS_CardinalityType
<1>. QED  BY <1>2 DEF WaitingBounded, Matching

\* What the two calls that enter the queue do to its size.
LEMMA EnteringSizes ==
  ASSUME QueueInv, Protected, NEW t \in Threads
  PROVE  /\ Size0 \in Nat
         /\ \A c \in Couriers : EnqueueStore(t, c) => Size0' = Size0 + 1
         /\ \A c \in Couriers : EnqueueFull(t, c) => Size0' = Size0
         /\ DequeueTake(t) => Size0' = Size0 - 1
         /\ DequeueEmpty(t) => Size0 = 0 /\ Size0' = 0
<1>1. Size0 \in Nat
  BY QueueAssumption DEF QueueInv, Shape
<1>2. ASSUME DequeueEmpty(t) PROVE Size0 = 0 /\ Size0' = 0
  <2>1. g_random_courier_mutex = NULL /\ value_count = 0
    BY <1>2 DEF DequeueEmpty, QueueEnter, Protected
  <2>2. Size0' = Size0
    BY <1>2 DEF DequeueEmpty, Size0, Inside
  <2>. QED  BY <2>1, <2>2, FreeQueue
<1>3. ASSUME NEW c \in Couriers, EnqueueFull(t, c) PROVE Size0' = Size0
  BY <1>3 DEF EnqueueFull, Size0, Inside
<1>. QED  BY <1>1, <1>2, <1>3, StoreAppends, TakeShortens

\* Every step keeps the queue no longer than the threads still to match.
LEMMA WaitingBoundedNext ==
  ASSUME IsFiniteSet(Clients), ProcTypeOK, QueueInv, TravelInv, WaitingBounded, [Next]_vars
  PROVE  WaitingBounded'
<1>1. /\ pc \in [Threads -> {"cooking", "dequeued", "done", "unconnected", "reading",
                            "travelling", "arrived", "popped", "gone"}]
      /\ \A k \in Clients : k \in Threads /\ k \notin Orders
      /\ \A o \in Orders : o \in Threads /\ o \notin Clients
      /\ Clients \subseteq Threads
  BY ReadyAssumption, TypeParts DEF LocalTypes, Threads
<1>2. Size0 \in Int
  BY TypeParts DEF QueueInv, QueueTypeOK, Size0
<1>3. ASSUME UNCHANGED queueVars, Matching \subseteq Matching' PROVE WaitingBounded'
  <2>1. Size0' = Size0 /\ (Protected' <=> Protected)
    BY <1>3 DEF queueVars, Size0, Inside, Protected
  <2>. QED  BY <1>2, <1>3, <2>1, WaitingBoundedFrame
<1>4. ASSUME NEW o \in Orders, CookStep(o) PROVE WaitingBounded'
  <2>1. pc' = pc \/ \E f \in {"dequeued", "done"} : pc' = [pc EXCEPT ![o] = f]
    BY <1>4 DEF CookStep, CookDequeue, CookDeliver, CookList, CookStore, procVars, Goto
  <2>2. Matching' = Matching
    BY <1>1, <2>1 DEF Matching
  <2>3. CASE CookDequeue(o)
    <3>1. Dequeue(o) /\ (Protected' => Protected)
      BY <2>3 DEF CookDequeue, Dequeue, DequeueEmpty, DequeueTake, QueueLock, Protected
    <3>2. Protected => Size0' <= Size0 /\ Size0' \in Int
      BY <1>1, <1>2, <3>1, EnteringSizes DEF Dequeue
    <3>. QED  BY <1>2, <2>2, <3>1, <3>2, WaitingBoundedFrame
  <2>4. CASE ~CookDequeue(o)
    BY <1>3, <1>4, <2>2, <2>4 DEF CookStep, CookDeliver, CookList, CookStore
  <2>. QED  BY <2>3, <2>4
<1>5. ASSUME NEW k \in Clients, ArriveRandom(k) PROVE WaitingBounded'
  <2>1. /\ pc[k] = "travelling" /\ pc' = [pc EXCEPT ![k] = "arrived"] /\ courier[k] \in Couriers
        /\ EnqueueFull(k, courier[k]) \/ EnqueueStore(k, courier[k])
    BY <1>5 DEF ArriveRandom, Goto, TravelInv, ProcTypeOK
  <2>2. k \notin Matching /\ Matching' = Matching \union {k}
    BY <1>1, <2>1 DEF Matching
  <2>3. IsFiniteSet(Matching)
    BY FS_Subset DEF Matching
  <2>4. Cardinality(Matching) \in Nat /\ Cardinality(Matching') = Cardinality(Matching) + 1
    BY <2>2, <2>3, FS_AddElement, FS_CardinalityType
  <2>5. Protected' => Protected
    BY <2>1 DEF EnqueueFull, EnqueueStore, QueueLock, Protected
  <2>6. Protected => Size0' \in {Size0, Size0 + 1}
    BY <1>1, <2>1, EnteringSizes
  <2>. QED  BY <1>2, <2>4, <2>5, <2>6 DEF WaitingBounded, Matching
<1>6. ASSUME NEW k \in Clients, ClientDequeue(k) PROVE WaitingBounded'
  <2>1. pc[k] = "popped" /\ pc' = [pc EXCEPT ![k] = "dequeued"] /\ Dequeue(k)
    BY <1>6 DEF ClientDequeue, Goto
  <2>2. k \in Matching /\ Matching' = Matching \ {k}
    BY <1>1, <2>1 DEF Matching
  <2>3. IsFiniteSet(Matching)
    BY FS_Subset DEF Matching
  <2>4. /\ Cardinality(Matching) \in Nat /\ Cardinality(Matching') \in Nat
        /\ Cardinality(Matching') = Cardinality(Matching) - 1
    <3>1. IsFiniteSet(Matching')
      BY <2>2, <2>3, FS_Subset
    <3>. QED  BY <2>2, <2>3, <3>1, FS_RemoveElement, FS_CardinalityType
  <2>5. Protected' => Protected
    BY <2>1 DEF Dequeue, DequeueEmpty, DequeueTake, QueueLock, Protected
  <2>6. Protected => Size0' \in {0, Size0 - 1}
    BY <1>1, <2>1, EnteringSizes DEF Dequeue
  <2>. QED  BY <1>2, <2>4, <2>5, <2>6 DEF WaitingBounded, Matching
<1>7. ASSUME NEW k \in Clients, ClientStep(k), ~ArriveRandom(k), ~ClientDequeue(k)
      PROVE  WaitingBounded'
  <2>1. UNCHANGED queueVars
    BY <1>7 DEF ClientStep, ArriveTarget, StoreTarget, ClientPop, ClientDeliver, ClientForget
  <2>2. \/ pc' = pc
        \/ pc[k] = "travelling" /\ pc' = [pc EXCEPT ![k] = "arrived"]
        \/ pc' = [pc EXCEPT ![k] = "popped"]
        \/ pc[k] = "dequeued" /\ pc' = [pc EXCEPT ![k] = "reading"]
    BY <1>7 DEF ClientStep, ArriveTarget, StoreTarget, ClientPop, ClientDeliver, ClientForget,
       procVars, Goto
  <2>3. Matching \subseteq Matching'
    BY <1>1, <2>2 DEF Matching
  <2>. QED  BY <1>3, <2>1, <2>3
<1>8. ASSUME NEW k \in Clients, NEW c \in Couriers, Receive(k, c) PROVE WaitingBounded'
  <2>1. pc[k] \in {"unconnected", "reading"} /\ pc' = [pc EXCEPT ![k] = "travelling"]
    BY <1>8 DEF Receive, Goto
  <2>2. Matching \subseteq Matching'
    BY <1>1, <2>1 DEF Matching
  <2>. QED  BY <1>3, <1>8, <2>2 DEF Receive
<1>9. ASSUME NEW k \in Clients, Disconnect(k) PROVE WaitingBounded'
  <2>1. pc[k] = "reading" /\ pc' = [pc EXCEPT ![k] = "gone"]
    BY <1>9 DEF Disconnect, Goto
  <2>2. Matching \subseteq Matching'
    BY <1>1, <2>1 DEF Matching
  <2>3. (Protected' => Protected /\ Size0' = Size0)
    BY <1>9 DEF Disconnect, DestroyQueueMutex, Protected, Size0, Inside
  <2>. QED  BY <1>2, <2>2, <2>3, WaitingBoundedFrame
<1>10. ASSUME NEW t \in Threads, QueueStep(t) PROVE WaitingBounded'
  <2>1. Settling(t) /\ pc' = pc
    BY <1>10 DEF QueueStep, Settling, procVars
  <2>2. Protected' => Protected
    BY <2>1 DEF Settling, EnqueueBack, EnqueueCount, DequeueFront, DequeueCount, QueueUnlock,
       Protected
  <2>3. Protected => Size0' = Size0
    BY <2>1, SettlingKeepsView DEF View
  <2>. QED  BY <1>2, <2>1, <2>2, <2>3, WaitingBoundedFrame DEF Matching
<1>11. CASE ListenerStep
  <2>1. UNCHANGED <<queueVars, pc>>
    BY <1>11, OthersKeepLocals DEF ListenerStep, ListenOuter, ListenInner, ListenCompare,
       ListenCompareNull, ListenTakeCourier, ListenTakeOrder, ListenDeliver, ListenRemoveTarget,
       ListenRemoveOrder, ListenerReads
  <2>. QED  BY <1>3, <2>1 DEF Matching
<1>12. CASE UNCHANGED vars
  BY <1>3, <1>12 DEF vars, procVars, Matching
<1>. QED  BY <1>4, <1>5, <1>6, <1>7, <1>8, <1>9, <1>10, <1>11, <1>12 DEF Next

-----------------------------------------------------------------------------
(***************************************************************************)
(* The theorems.                                                           *)
(***************************************************************************)
\* The inductive invariant holds at the start of main,
LEMMA ProcInvInit == Init => ProcInv
<1> SUFFICES ASSUME Init PROVE ProcInv
  OBVIOUS
<1> USE ReadyAssumption, TargetAssumption
<1>1. ReadyInv /\ QueueInv
  BY ReadyInvInit, QueueInvInit DEF Init
<1>2. TargetArrayInv
  BY TargetArrayInvInit DEF Init
<1>3. LocalTypes /\ HistoryTypes
  BY DEF Init, LocalTypes, HistoryTypes
<1>4. ScanType
  <2>1. 0 \in 0 .. TARGET_LIST_SIZE /\ 0 \in 0 .. ORDER_LIST_SIZE
    OBVIOUS
  <2>. QED  BY <2>1 DEF Init, ScanType
<1>5. ProcTypeOK
  BY <1>1, <1>2, <1>3, <1>4, TypeParts DEF ReadyInv, QueueInv, TargetArrayInv
<1>6. ListenInv
  BY DEF Init, ListenInv
<1>7. TravelInv
  BY DEF Init, QueueInit, TargetInit, TravelInv, Threads
<1>8. OrderInv
  BY DEF Init, ReadyInit, OrderInv, OrderServedOnce, Delivered, RandomDeliveries
<1>9. CourierInv
  BY DEF Init, QueueInit, CourierInv, CourierServedOnce, RandomDeliveries, Holds
<1>. QED  BY <1>1, <1>2, <1>5, <1>6, <1>7, <1>8, <1>9 DEF ProcInv

\* and every step of every thread preserves it.
LEMMA ProcInvNext == ProcInv /\ [Next]_vars => ProcInv'
<1> SUFFICES ASSUME ProcInv, [Next]_vars PROVE ProcInv'
  OBVIOUS
<1> USE DEF ProcInv
<1>1. ReadyInv'
  BY StepIsReadyStep, ReadyInvNext
<1>2. QueueInv'
  BY StepIsQueueStep, QueueInvNext
<1>3. TargetArrayInv'
  BY StepIsTargetStep, TargetArrayInvNext
<1>4. ScanType' /\ ListenInv'
  BY <1>3, ScanNext DEF TargetArrayInv
<1>5. LocalTypes' /\ HistoryTypes'
  BY TypeParts, LocalTypesNext, HistoryTypesNext
<1>6. ProcTypeOK'
  BY <1>1, <1>2, <1>3, <1>4, <1>5, TypeParts DEF ReadyInv, QueueInv, TargetArrayInv
<1>7. TravelInv' /\ OrderInv' /\ CourierInv'
  BY TravelInvNext, OrderInvNext, CourierInvNext
<1>. QED  BY <1>1, <1>2, <1>3, <1>4, <1>6, <1>7

\* The inductive invariant of the threads.
THEOREM ProcInvariant == Spec => []ProcInv
<1>. QED  BY ProcInvInit, ProcInvNext, PTL DEF Spec

\* Types: in particular, every index the listener uses without a mutex names a slot
\* of the array it is used with (courier_manager.c:203-211).
THEOREM ProcTypeCorrect == Spec => []ProcTypeOK
<1>1. ProcInv => ProcTypeOK
  BY DEF ProcInv
<1>. QED  BY <1>1, ProcInvariant, PTL

\* The cooks and the courier threads never deliver the same order twice, whatever
\* the listener removes from the list meanwhile (courier_manager.c:162-170).
THEOREM OrdersServedOnce == Spec => []OrderServedOnce
<1>1. ProcInv => OrderServedOnce
  BY DEF ProcInv, OrderInv
<1>. QED  BY <1>1, ProcInvariant, PTL

\* Nor the same courier, until a courier thread destroys the queue's mutex.
THEOREM CouriersServedOnce == Spec => []CourierServedOnce
<1>1. ProcInv => CourierServedOnce
  BY DEF ProcInv, CourierInv, CourierServedOnce
<1>. QED  BY <1>1, ProcInvariant, PTL

\* The queue never holds more couriers than there are courier threads that have not
\* dequeued one since theirs arrived (courier_manager.c:157-168).
THEOREM WaitingStaysBounded ==
  ASSUME IsFiniteSet(Clients)
  PROVE  Spec => []WaitingBounded
<1>1. Init => WaitingBounded
  <2> SUFFICES ASSUME Init PROVE WaitingBounded
    OBVIOUS
  <2>1. Size0 = 0
    BY QueueAssumption DEF Init, QueueInit, Size0, Inside
  <2>2. Cardinality(Matching) \in Nat
    BY FS_Subset, FS_CardinalityType DEF Matching
  <2>. QED  BY <2>1, <2>2 DEF WaitingBounded, Matching
<1>2. ProcInv /\ WaitingBounded /\ [Next]_vars => WaitingBounded'
  BY WaitingBoundedNext DEF ProcInv
<1>. QED  BY <1>1, <1>2, ProcInvariant, PTL DEF Spec

-----------------------------------------------------------------------------
(***************************************************************************)
(* The containers keep their promises in the hands of these threads.       *)
(***************************************************************************)
\* The list of prepared orders is a pool to the threads that share it: the listener's
\* stale index removes one order, whichever (courier_manager.c:211).
THEOREM ThreadsKeepListAPool == Spec => ImplementsPool
<1>1. Init => Pool!PoolInit
  BY ReadyInitIsPoolInit DEF Init
<1>2. ProcInv /\ ProcInv' /\ [Next]_vars => [Pool!PoolNext]_(Pool!poolVars)
  BY StepIsReadyStep, ReadyStepIsPoolStep DEF ProcInv
<1>. QED  BY <1>1, <1>2, ProcInvariant, PTL DEF Spec, ImplementsPool, Pool!PoolSpec

\* No cook writes behind the list, although nothing checks its size: a cook lists its
\* order once, so the list is never longer than the order file (order_manager.c:27).
THEOREM CooksNeverOverrun ==
  ASSUME IsFiniteSet(Orders), Cardinality(Orders) <= ORDER_LIST_SIZE
  PROVE  Spec => []NoOverrun
<1>1. Init => NoOverrun
  BY DEF Init, ReadyInit, NoOverrun
<1>2. ProcInv /\ NoOverrun /\ [Next]_vars => NoOverrun'
  BY StepIsReadyStep, NoOverrunNext DEF ProcInv
<1>. QED  BY <1>1, <1>2, ProcInvariant, PTL DEF Spec

\* The circular queue is a bounded first-in first-out queue to the threads, until one
\* of them destroys its mutex (courier_manager.c:174).
THEOREM ThreadsKeepQueueAFifo == Spec => ImplementsFifo
<1>1. Init => Fifo!FifoInit
  BY QueueInitIsFifoInit DEF Init
<1>2. ProcInv /\ ProcInv' /\ [Next]_vars => [Fifo!FifoNext]_(Fifo!fifoVars)
  BY StepIsQueueStep, QueueStepsMap DEF ProcInv
<1>. QED  BY <1>1, <1>2, ProcInvariant, PTL DEF Spec, ImplementsFifo, Fifo!FifoSpec

\* The array of couriers with a target is a pool to them.
THEOREM ThreadsKeepTargetsAPool == Spec => TargetsImplementPool
<1>1. Init => TargetPool!PoolInit
  BY TargetInitIsPoolInit DEF Init
<1>2. ProcInv /\ [Next]_vars => [TargetPool!PoolNext]_(TargetPool!poolVars)
  BY StepIsTargetStep, TargetStepIsPoolStep DEF ProcInv
<1>. QED  BY <1>1, <1>2, ProcInvariant, PTL DEF Spec, TargetsImplementPool, TargetPool!PoolSpec

\* No courier with a target is in two slots of the array (courier_manager.c:58-85).
THEOREM ThreadsKeepTargetsDistinct == Spec => []TargetsDistinct
<1>1. ProcInv => TargetsDistinct
  BY DEF ProcInv, TargetArrayInv
<1>. QED  BY <1>1, ProcInvariant, PTL
-----------------------------------------------------------------------------
(***************************************************************************)
(* The threads, with their containers and mutexes, implement the abstract  *)
(* dispatcher.                                                             *)
(***************************************************************************)

\* Only orders that went through the list are popped from it.
PoppedListed == popped \subseteq listed

\* No step of the list pops an order that was never added to it.
LEMMA PoppedListedNext ==
  ASSUME ReadyInv, PoppedListed, [ReadyNext]_readyVars
  PROVE  PoppedListed'
<1>1. ASSUME NEW t \in Clients, NEW o \in Orders, PopOrder(t, o) PROVE PoppedListed'
  <2>1. PICK i \in 0 .. g_ready_order_count - 1 : o = g_ready_orders[i]
    BY <1>1 DEF PopOrder
  <2>2. i \in StoredSlots
    BY <1>1, <2>1 DEF PopOrder, OrderMutexFree, StoredSlots, StoredCount
  <2>3. o \in listed
    BY <2>1, <2>2 DEF ReadySet, ReadyInv, ReadyDistinct
  <2>. QED  BY <1>1, <2>3 DEF PopOrder, PoppedListed
<1>2. CASE /\ ReadyNext
           /\ \A t \in Clients, o \in Orders : ~PopOrder(t, o)
  BY <1>2 DEF ReadyNext, AddOrderCount, AddOrderOverrun, AddOrderStore, PopNull, RemoveOrder,
              RemoveOrderEmpty, PoppedListed
<1>3. CASE UNCHANGED readyVars
  BY <1>3 DEF readyVars, PoppedListed
<1>. QED  BY <1>1, <1>2, <1>3

\* A delivery by a cook or a courier thread is a Serve of the dispatcher.
LEMMA DeliverServes ==
  ASSUME ProcInv, Protected, NEW t \in Threads, NEW o \in Orders, Holds(t),
         pc[o] # "cooking", ~Delivered(o), Deliver(t, ret[t], o), UNCHANGED queueVars,
         \A x \in Orders : pc'[x] = "cooking" <=> pc[x] = "cooking"
  PROVE  Served!Serve(ret[t], o)
<1>1. ret[t] \in offered
  BY DEF ProcInv, CourierInv, QueueInv
<1>2. RandomDeliveries' = RandomDeliveries \union {<<t, ret[t], o>>}
  BY DeliveryRecorded, ProcessingAssumption
<1>3. {<<d[2], d[3]>> : d \in RandomDeliveries'}
         = {<<d[2], d[3]>> : d \in RandomDeliveries} \union {<<ret[t], o>>}
  <2>1. <<t, ret[t], o>>[2] = ret[t] /\ <<t, ret[t], o>>[3] = o
    OBVIOUS
  <2>2. \A S, d : {<<e[2], e[3]>> : e \in S \union {d}}
                    = {<<e[2], e[3]>> : e \in S} \union {<<d[2], d[3]>>}
    OBVIOUS
  <2>3. {<<d[2], d[3]>> : d \in RandomDeliveries \union {<<t, ret[t], o>>}}
          = {<<d[2], d[3]>> : d \in RandomDeliveries}
              \union {<<<<t, ret[t], o>>[2], <<t, ret[t], o>>[3]>>}
    BY <2>2, Zenon
  <2>. QED  BY <1>2, <2>1, <2>3
<1>4. \A d \in RandomDeliveries : d[2] # ret[t] /\ d[3] # o
  BY DEF ProcInv, CourierInv, Delivered
<1>5. Protected' /\ offered' = offered
  BY DEF queueVars, Protected
<1>. QED  BY <1>1, <1>3, <1>4, <1>5 DEF Served!Serve

\* A step that changes nothing the dispatcher sees.
LEMMA DispatchStutters ==
  ASSUME offered' = offered, RandomDeliveries' = RandomDeliveries, Protected' = Protected,
         \A x \in Orders : pc'[x] = "cooking" <=> pc[x] = "cooking"
  PROVE  UNCHANGED Served!dispatchVars
  BY DEF Served!dispatchVars

\* Every step of the threads is one of the dispatcher, or it sees nothing.
LEMMA StepsDispatch ==
  ASSUME ProcInv, PoppedListed, [Next]_vars
  PROVE  [Served!DispatchNext]_(Served!dispatchVars)
<1> DEFINE Seen == Served!DispatchNext \/ UNCHANGED Served!dispatchVars
<1>0. /\ pc \in [Threads -> {"cooking", "dequeued", "done", "unconnected", "reading",
                             "travelling", "arrived", "popped", "gone"}]
      /\ Orders \subseteq Threads /\ Clients \subseteq Threads
      /\ Orders \intersect Clients = {}
  BY ReadyAssumption DEF ProcInv, ProcTypeOK, Threads
<1>1. CASE ~Protected
  <2>1. [QueueOps]_queueVars
    BY StepIsQueueStep DEF ProcInv
  <2>2. ~Protected'
    BY <1>1, <2>1 DEF Protected, QueueOps, EnqueueFull, EnqueueStore, EnqueueBack, EnqueueCount,
       DequeueEmpty, DequeueTake, DequeueFront, DequeueCount, DestroyQueueMutex, QueueLock,
       QueueUnlock, At, queueVars
  <2>. QED  BY <1>1, <2>2 DEF Served!DispatchNext, Served!Unpromised, Protected
<1>2. ASSUME NEW k \in Clients, NEW f \in {"travelling", "arrived", "popped", "dequeued",
                                           "reading", "gone"}, pc' = [pc EXCEPT ![k] = f]
      PROVE  \A x \in Orders : pc'[x] = "cooking" <=> pc[x] = "cooking"
  BY <1>0, <1>2
<1>3. ASSUME Protected, NEW o \in Orders, CookStep(o) PROVE Seen
  <2>1. CASE CookDequeue(o)
    <3>1. {x \in Orders : pc[x] # "cooking"}' = {x \in Orders : pc[x] # "cooking"} \union {o}
      BY <1>0, <2>1 DEF CookDequeue, Goto
    <3>2. offered' = offered /\ RandomDeliveries' = RandomDeliveries
      BY <2>1 DEF CookDequeue, Dequeue, DequeueEmpty, DequeueTake, RandomDeliveries
    <3>3. Protected'
      BY <1>3, <2>1, <1>0, QueueAssumption DEF CookDequeue, Dequeue, DequeueEmpty, DequeueTake, QueueLock, Protected
    <3>. QED  BY <1>3, <3>1, <3>2, <3>3 DEF Served!DispatchNext, Served!Prepare
  <2>2. CASE CookDeliver(o)
    <3>1. Holds(o) /\ pc[o] = "dequeued" /\ o \in Threads
      BY <1>0, <2>2 DEF CookDeliver, Goto, Holds
    <3>2. ~Delivered(o)
      BY <3>1 DEF ProcInv, OrderInv
    <3>3. \A x \in Orders : pc'[x] = "cooking" <=> pc[x] = "cooking"
      BY <1>0, <2>2 DEF CookDeliver, Goto
    <3>4. Served!Serve(ret[o], o)
      BY <1>3, <2>2, <3>1, <3>2, <3>3, DeliverServes DEF CookDeliver
    <3>5. ret[o] \in Couriers
      BY <3>1 DEF Holds, ProcInv, ProcTypeOK, QueueTypeOK
    <3>. QED  BY <3>4, <3>5 DEF Served!DispatchNext
  <2>3. CASE CookList(o)
    <3>1. \A x \in Orders : pc'[x] = "cooking" <=> pc[x] = "cooking"
      BY <1>0, <2>3 DEF CookList, Goto
    <3>. QED  BY <2>3, <3>1, DispatchStutters DEF CookList, queueVars, Protected, RandomDeliveries
  <2>4. CASE CookStore(o)
    BY <2>4, DispatchStutters DEF CookStore, queueVars, procVars, Protected, RandomDeliveries
  <2>. QED  BY <1>3, <2>1, <2>2, <2>3, <2>4 DEF CookStep
<1>4. ASSUME Protected, NEW k \in Clients, ClientStep(k) PROVE Seen
  <2>1. CASE ArriveRandom(k)
    <3>1. courier[k] \in Couriers /\ courier[k] \notin offered
      BY <2>1 DEF ArriveRandom, Goto, ProcInv, TravelInv, ProcTypeOK
    <3>2. offered' = offered \union {courier[k]} /\ RandomDeliveries' = RandomDeliveries
      BY <2>1 DEF ArriveRandom, EnqueueFull, EnqueueStore, RandomDeliveries
    <3>3. Protected'
      BY <1>4, <2>1, <1>0, QueueAssumption DEF ArriveRandom, EnqueueFull, EnqueueStore, QueueLock, Protected
    <3>4. \A x \in Orders : pc'[x] = "cooking" <=> pc[x] = "cooking"
      BY <1>2, <2>1 DEF ArriveRandom, Goto
    <3>. QED  BY <1>4, <3>1, <3>2, <3>3, <3>4 DEF Served!DispatchNext, Served!Arrive
  <2>2. CASE ArriveTarget(k)
    <3>1. \A x \in Orders : pc'[x] = "cooking" <=> pc[x] = "cooking"
      BY <1>2, <2>2 DEF ArriveTarget, Goto
    <3>. QED  BY <2>2, <3>1, DispatchStutters DEF ArriveTarget, queueVars, Protected, RandomDeliveries
  <2>3. CASE StoreTarget(k)
    BY <2>3, DispatchStutters DEF StoreTarget, queueVars, procVars, Protected, RandomDeliveries
  <2>4. CASE ClientPop(k)
    <3>1. \A x \in Orders : pc'[x] = "cooking" <=> pc[x] = "cooking"
      BY <1>2, <2>4 DEF ClientPop, Goto
    <3>. QED  BY <2>4, <3>1, DispatchStutters DEF ClientPop, queueVars, Protected, RandomDeliveries
  <2>5. CASE ClientDequeue(k)
    <3>1. \A x \in Orders : pc'[x] = "cooking" <=> pc[x] = "cooking"
      BY <1>2, <2>5 DEF ClientDequeue, Goto
    <3>2. offered' = offered /\ RandomDeliveries' = RandomDeliveries
      BY <2>5 DEF ClientDequeue, Dequeue, DequeueEmpty, DequeueTake, RandomDeliveries
    <3>3. Protected'
      BY <1>4, <2>5, <1>0, QueueAssumption DEF ClientDequeue, Dequeue, DequeueEmpty, DequeueTake, QueueLock, Protected
    <3>4. Protected' = Protected
      BY <1>4, <3>3 DEF Protected
    <3>. QED  BY <3>1, <3>2, <3>4, DispatchStutters
  <2>6. CASE ClientDeliver(k)
    <3>1. Holds(k) /\ order[k] \in Orders /\ order[k] \in popped /\ k \in Threads
      BY <1>0, <2>6 DEF ClientDeliver, Goto, Holds, ProcInv, OrderInv, ProcTypeOK
    <3>2. ~Delivered(order[k])
      BY <2>6 DEF ClientDeliver, ProcInv, OrderInv
    <3>3. pc[order[k]] # "cooking"
      BY <3>1 DEF ProcInv, OrderInv, PoppedListed
    <3>4. \A x \in Orders : pc'[x] = "cooking" <=> pc[x] = "cooking"
      BY <1>2, <2>6 DEF ClientDeliver, Goto
    <3>5. PICK o \in Orders : o = order[k]
      BY <3>1
    <3>6. Deliver(k, ret[k], o) /\ UNCHANGED queueVars
      BY <2>6, <3>5 DEF ClientDeliver
    <3>7. Served!Serve(ret[k], o)
      BY <1>4, <3>1, <3>2, <3>3, <3>4, <3>5, <3>6, DeliverServes
    <3>8. ret[k] \in Couriers
      BY <3>1 DEF Holds, ProcInv, ProcTypeOK, QueueTypeOK
    <3>. QED  BY <3>7, <3>8 DEF Served!DispatchNext
  <2>7. CASE ClientForget(k)
    <3>1. \A x \in Orders : pc'[x] = "cooking" <=> pc[x] = "cooking"
      BY <1>2, <2>7 DEF ClientForget, Goto
    <3>. QED  BY <2>7, <3>1, DispatchStutters DEF ClientForget, queueVars, Protected, RandomDeliveries
  <2>. QED  BY <1>4, <2>1, <2>2, <2>3, <2>4, <2>5, <2>6, <2>7 DEF ClientStep
<1>5. ASSUME Protected, NEW k \in Clients, Disconnect(k) PROVE Seen
  <2>1. \A x \in Orders : pc'[x] = "cooking" <=> pc[x] = "cooking"
    BY <1>2, <1>5 DEF Disconnect, Goto
  <2>2. offered' = offered /\ RandomDeliveries' = RandomDeliveries
    BY <1>5 DEF Disconnect, DestroyQueueMutex, RandomDeliveries
  <2>3. CASE Protected'
    <3>1. Protected' = Protected
      BY <1>5, <2>3 DEF Protected
    <3>. QED  BY <2>1, <2>2, <3>1, DispatchStutters
  <2>4. CASE ~Protected'
    <3>1. Protected' = FALSE
      BY <2>4 DEF Protected
    <3>. QED  BY <1>5, <2>1, <2>2, <3>1 DEF Served!DispatchNext, Served!Abandon
  <2>. QED  BY <2>3, <2>4
<1>6. ASSUME NEW k \in Clients, NEW c \in Couriers, Receive(k, c) PROVE Seen
  <2>1. \A x \in Orders : pc'[x] = "cooking" <=> pc[x] = "cooking"
    BY <1>2, <1>6 DEF Receive, Goto
  <2>. QED  BY <1>6, <2>1, DispatchStutters DEF Receive, queueVars, Protected, RandomDeliveries
<1>7. ASSUME Protected, NEW t \in Threads, QueueStep(t) PROVE Seen
  <2>1. UNCHANGED <<procVars, offered>>
    BY <1>7 DEF QueueStep, EnqueueBack, EnqueueCount, DequeueFront, DequeueCount
  <2>2. Protected'
    BY <1>7, QueueAssumption DEF QueueStep, EnqueueBack, EnqueueCount, DequeueFront, DequeueCount,
       QueueUnlock, Protected
  <2>3. Protected' = Protected
    BY <1>7, <2>2 DEF Protected
  <2>. QED  BY <2>1, <2>3, DispatchStutters DEF procVars, RandomDeliveries
<1>8. ASSUME ListenerStep PROVE Seen
  <2>1. UNCHANGED <<queueVars, pc>>
    BY <1>8 DEF ListenerStep, ListenOuter, ListenInner, ListenCompare, ListenCompareNull,
       ListenTakeCourier, ListenTakeOrder, ListenDeliver, ListenRemoveTarget,
       ListenRemoveOrder, ListenerReads, ListenerOnly
  <2>2. RandomDeliveries' = RandomDeliveries
    BY <1>8, ListenerDeliversNothingRandom
  <2>. QED  BY <2>1, <2>2, DispatchStutters DEF queueVars, Protected
<1>9. CASE UNCHANGED vars
  BY <1>9, DispatchStutters DEF vars, procVars, queueVars, Protected, RandomDeliveries
<1> HIDE DEF Seen
<1>10. ASSUME Protected, Next PROVE Seen
  <2>1. CASE \E o \in Orders : CookStep(o)
    BY <1>3, <1>10, <2>1
  <2>2. CASE \E k \in Clients : ClientStep(k)
    BY <1>4, <1>10, <2>2
  <2>3. CASE \E k \in Clients : Disconnect(k)
    BY <1>5, <1>10, <2>3
  <2>4. CASE \E k \in Clients, c \in Couriers : Receive(k, c)
    BY <1>6, <2>4
  <2>5. CASE \E t \in Threads : QueueStep(t)
    BY <1>7, <1>10, <2>5
  <2>6. CASE ListenerStep
    BY <1>8, <2>6
  <2>. QED  BY <1>10, <2>1, <2>2, <2>3, <2>4, <2>5, <2>6 DEF Next
<1>11. Seen => [Served!DispatchNext]_(Served!dispatchVars)
  BY DEF Seen
<1>. QED  BY <1>1, <1>9, <1>10, <1>11

\* Until the first client disconnects, the cooks, the courier threads and the listener
\* hand each prepared order to one courier for any order that has arrived, and each
\* such courier one order, whatever they do to the shared arrays in between.
THEOREM ThreadsImplementDispatch == Spec => ImplementsDispatch
<1>1. Init => PoppedListed /\ Served!DispatchInit
  BY QueueAssumption DEF Init, ReadyInit, QueueInit, PoppedListed, Served!DispatchInit, RandomDeliveries,
     Protected, Threads
<1>2. ProcInv /\ PoppedListed /\ [Next]_vars => PoppedListed'
  BY StepIsReadyStep, PoppedListedNext DEF ProcInv
<1>3. ProcInv /\ PoppedListed /\ [Next]_vars => [Served!DispatchNext]_(Served!dispatchVars)
  BY StepsDispatch
<1>. QED  BY <1>1, <1>2, <1>3, ProcInvariant, PTL DEF Spec, ImplementsDispatch, Served!DispatchSpec
=============================================================================
