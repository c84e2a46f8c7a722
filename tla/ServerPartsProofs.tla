--------------------------- MODULE ServerPartsProofs ---------------------------
(***************************************************************************)
(* Proofs about the parts of order_process_server that stand alone: the    *)
(* waiting times, the order intake, the table of sockets and the fields of *)
(* requests, for any number of deliveries, orders, sockets, threads and    *)
(* requests; then about all parts side by side, as the instance of         *)
(* MCServerParts composes them.                                            *)
(***************************************************************************)
EXTENDS MCServerParts, ContainersProofs, FiniteSetTheorems, SequenceTheorems, TLAPS

-----------------------------------------------------------------------------
(* The waiting times.                                                      *)

\* The statements up to the one that writes a counter.
Before(l) ==
  {<<"load", "courier">>, <<"count", "courier">>}
    \union (IF l = "order" THEN {<<"slot", "courier">>, <<"load", "order">>, <<"count", "order">>}
            ELSE {})

\* The deliveries that have written the counter of l.
Past(l) == {d \in Deliveries : doing[d] \notin Before(l)}

\* The order of the statements: a call that still has to write a counter is in none of
\* the statements that divide by it.
Behind(l) ==
  {<<"divide", "courier">>, <<"divide", "order">>}
    \union (IF l = "courier" THEN {<<"check", "order">>} ELSE {})

\* A counter never exceeds the number of calls that have written it, and what a call
\* has loaded but not yet written is no more than that; every slot below a counter, or
\* below what a call has loaded, is recorded.
TimeInv ==
  /\ TimeTypeOK
  /\ \A l \in Lists :
       /\ counts[l] <= Cardinality(Past(l))
       /\ \A i \in 0 .. counts[l] - 1 : Recorded(l, i)
       /\ \A d \in Deliveries :
            /\ doing[d] = <<"count", l>> => /\ index[d] <= Cardinality(Past(l))
                                         /\ \A i \in 0 .. index[d] - 1 : Recorded(l, i)
            /\ doing[d] = <<"slot", l>> => index[d] < Cardinality(Past(l))
       /\ \A d \in Calls : doing[d] \in Behind(l) => counts[l] > 0
  /\ \A d \in Interrupts : doing[d][1] \notin {"load", "count", "slot"}

\* Total is a number, and as many deliveries have written a counter at most.
LEMMA PastBounded ==
  \A l \in Lists : /\ Total \in Nat
                   /\ IsFiniteSet(Past(l))
                   /\ Cardinality(Past(l)) \in 0 .. Total
<1>. TAKE l \in Lists
<1>1. Past(l) \subseteq Deliveries
  BY DEF Past
<1>. QED
  BY <1>1, TimeAssumption, FS_Subset, FS_CardinalityType DEF Total

\* A delivery that has yet to write a counter is one more than those that have.
LEMMA OneMorePast ==
  ASSUME NEW l \in Lists, NEW d \in Deliveries, doing[d] \in Before(l)
  PROVE  Cardinality(Past(l) \union {d}) = Cardinality(Past(l)) + 1 /\ Cardinality(Past(l)) < Total
<1>1. d \notin Past(l) /\ Past(l) \union {d} \subseteq Deliveries
  BY DEF Past
<1>2. IsFiniteSet(Past(l)) /\ Cardinality(Past(l)) \in Nat
  BY PastBounded
<1>3. Cardinality(Past(l) \union {d}) = Cardinality(Past(l)) + 1
  BY <1>1, <1>2, FS_AddElement
<1>4. Cardinality(Past(l) \union {d}) <= Total
  BY <1>1, TimeAssumption, FS_Subset DEF Total
<1>. QED
  BY <1>2, <1>3, <1>4, PastBounded

\* No call has loaded or written anything yet.
LEMMA TimeInvInit == TimeInit => TimeInv
<1>. SUFFICES ASSUME TimeInit PROVE TimeInv
  OBVIOUS
<1>1. Total \in Nat
  BY PastBounded DEF Lists
<1>2. TimeTypeOK
  BY <1>1 DEF TimeInit, TimeTypeOK, Calls, Lists
<1>3. \A l \in Lists : counts[l] = 0 /\ Cardinality(Past(l)) \in Nat
  BY PastBounded DEF TimeInit
<1>4. \A d \in Deliveries, l \in Lists : doing[d] # <<"count", l>> /\ doing[d] # <<"slot", l>>
  BY DEF TimeInit, Calls
<1>5. \A d \in Calls, l \in Lists : doing[d] \notin Behind(l)
  BY DEF TimeInit, Behind
<1>6. \A d \in Interrupts : doing[d][1] \notin {"load", "count", "slot"}
  BY TimeAssumption DEF TimeInit, Calls
<1>. QED
  BY <1>2, <1>3, <1>4, <1>5, <1>6 DEF TimeInv

\* Every statement keeps the types; the one that writes a counter is where
\* OneMorePast is needed.
LEMMA TimeTypesNext ==
  ASSUME TimeInv, NEW d \in Calls, NEW l \in Lists, TimeStep(d, l)
  PROVE  TimeTypeOK'
<1>. USE DEF TimeInv, TimeTypeOK, Lists
<1>1. Total \in Nat
  BY PastBounded
<1>2. CASE LoadTime(d, l)
  BY <1>1, <1>2 DEF LoadTime, Goto
<1>3. CASE CountTime(d, l)
  <2>1. d \in Deliveries
    BY <1>3 DEF CountTime, Goto, Calls
  <2>2. index[d] + 1 \in 0 .. Total
    <3>1. doing[d] \in Before(l)
      BY <1>3 DEF CountTime, Goto, Before
    <3>2. Cardinality(Past(l)) < Total
      BY <2>1, <3>1, OneMorePast
    <3>3. index[d] <= Cardinality(Past(l))
      BY <1>3, <2>1 DEF CountTime, Goto
    <3>. QED
      BY <1>1, <3>2, <3>3, PastBounded
  <2>. QED
    BY <1>3, <2>2 DEF CountTime, Goto
<1>4. CASE StoreTime(d, l)
  <2>. HIDE DEF TimeInv
  <2>1. doing' \in [Calls -> ({"load", "count", "slot", "sum", "check", "divide"} \X Lists)
                            \union {<<"done", "order">>}]
    BY <1>4 DEF StoreTime, Goto, TimeInv
  <2>2. stored' \in [Lists -> SUBSET (0 .. Total)]
    BY <1>4 DEF StoreTime, TimeInv
  <2>3. index' \in [Calls -> 0 .. Total] /\ counts' = counts
    BY <1>1, <1>4 DEF StoreTime, TimeInv
  <2>4. counts \in [Lists -> 0 .. Total]
    BY DEF TimeInv
  <2>. QED
    BY <2>1, <2>2, <2>3, <2>4
<1>5. CASE SumTime(d, l)
  <2>1. index[d] + 1 \in 0 .. Total
    BY <1>1, <1>5 DEF SumTime
  <2>. QED
    BY <1>5, <2>1 DEF SumTime, Goto
<1>6. CASE SumEnd(d, l)
  BY <1>1, <1>6 DEF SumEnd, Goto
<1>7. CASE CheckTime(d, l)
  BY <1>7 DEF CheckTime, Goto
<1>8. CASE CheckNone(d, l)
  BY <1>8 DEF CheckNone, Goto
<1>9. CASE DivideTime(d, l)
  BY <1>9 DEF DivideTime, Goto
<1>. QED
  BY <1>2, <1>3, <1>4, <1>5, <1>6, <1>7, <1>8, <1>9 DEF TimeStep

\* A recorded slot stays recorded: the thread that was about to write it has written it.
LEMMA RecordedStays ==
  ASSUME TimeInv, NEW d \in Calls, NEW l \in Lists, TimeStep(d, l),
         NEW m \in Lists, NEW i, Recorded(m, i)
  PROVE  Recorded(m, i)'
<1>. USE DEF TimeInv, TimeTypeOK
<1>1. CASE i \in stored[m]
  <2>1. i \in stored'[m]
    BY <1>1 DEF TimeStep, LoadTime, CountTime, StoreTime, SumTime, SumEnd, CheckTime,
                CheckNone, DivideTime
  <2>. QED
    BY <2>1 DEF Recorded
<1>2. CASE i \notin stored[m]
  <2>1. PICK e \in Deliveries : doing[e] = <<"slot", m>> /\ index[e] = i
    BY <1>2 DEF Recorded
  <2>2. CASE e # d
    <3>1. doing'[e] = doing[e] /\ index'[e] = index[e]
      BY <2>2 DEF TimeStep, LoadTime, CountTime, StoreTime, SumTime, SumEnd, CheckTime,
                  CheckNone, DivideTime, Goto, Calls
    <3>. QED
      BY <2>1, <3>1 DEF Recorded
  <2>3. CASE e = d
    <3>1. StoreTime(d, m)
      BY <2>1, <2>3 DEF TimeStep, LoadTime, CountTime, StoreTime, SumTime, SumEnd, CheckTime,
                  CheckNone, DivideTime, Goto
    <3>2. i \in stored'[m]
      BY <2>1, <2>3, <3>1 DEF StoreTime
    <3>. QED
      BY <3>2 DEF Recorded
  <2>. QED
    BY <2>2, <2>3
<1>. QED
  BY <1>1, <1>2

\* Only a delivery that writes a counter joins those that have.
LEMMA PastStep ==
  ASSUME TimeInv, NEW d \in Calls, NEW l \in Lists, TimeStep(d, l)
  PROVE  \A m \in Lists : Past(m)' = IF CountTime(d, l) /\ m = l THEN Past(m) \union {d} ELSE Past(m)
<1>. USE DEF TimeInv, TimeTypeOK
<1>1. \A e \in Calls \ {d} : doing'[e] = doing[e]
  BY DEF TimeStep, LoadTime, CountTime, StoreTime, SumTime, SumEnd, CheckTime,
                  CheckNone, DivideTime, Goto
<1>2. ASSUME NEW m \in Lists, ~(CountTime(d, l) /\ m = l)
      PROVE  doing'[d] \in Before(m) <=> doing[d] \in Before(m)
  BY <1>2 DEF TimeStep, LoadTime, CountTime, StoreTime, SumTime, SumEnd, CheckTime,
         CheckNone, DivideTime, Goto, Before, Lists
<1>3. CountTime(d, l) => d \in Deliveries /\ doing'[d] \notin Before(l)
  BY DEF CountTime, Goto, Before, Lists, Calls
<1>. QED
  BY <1>1, <1>2, <1>3 DEF Past, Calls

\* Every statement of every call keeps the invariant.
LEMMA TimeInvStep ==
  ASSUME TimeInv, NEW d \in Calls, NEW l \in Lists, TimeStep(d, l)
  PROVE  TimeInv'
<1>1. TimeTypeOK'
  BY TimeTypesNext
<1>2. Total \in Nat /\ \A m \in Lists : Cardinality(Past(m)) \in 0 .. Total
  BY PastBounded DEF Lists
<1>3. \A m \in Lists, i \in Int : Recorded(m, i) => Recorded(m, i)'
  BY RecordedStays
<1>4. \A m \in Lists : Cardinality(Past(m)') = IF CountTime(d, l) /\ m = l
                                                 THEN Cardinality(Past(m)) + 1
                                                 ELSE Cardinality(Past(m))
  <2>1. CountTime(d, l) => d \in Deliveries /\ doing[d] \in Before(l)
    BY DEF CountTime, Goto, Before, Lists, Calls, TimeInv
  <2>. QED
    BY <2>1, OneMorePast, PastStep
<1>5. ASSUME NEW e \in Calls \ {d} PROVE doing'[e] = doing[e] /\ index'[e] = index[e]
  BY <1>5 DEF TimeStep, LoadTime, CountTime, StoreTime, SumTime, SumEnd, CheckTime,
              CheckNone, DivideTime, Goto, TimeInv, TimeTypeOK
<1>6. ASSUME NEW m \in Lists, ~(CountTime(d, l) /\ m = l) PROVE counts'[m] = counts[m]
  BY <1>6 DEF TimeStep, LoadTime, CountTime, StoreTime, SumTime, SumEnd, CheckTime,
              CheckNone, DivideTime, TimeInv, TimeTypeOK
<1>7. CountTime(d, l) => /\ counts'[l] = index[d] + 1 /\ index'[d] = index[d]
                         /\ doing[d] = <<"count", l>> /\ doing'[d] = <<"slot", l>>
                         /\ d \in Deliveries
  BY DEF CountTime, Goto, TimeInv, TimeTypeOK, Calls
<1>8. ASSUME NEW m \in Lists PROVE counts'[m] <= Cardinality(Past(m)')
  BY <1>2, <1>4, <1>6, <1>7 DEF TimeInv, TimeTypeOK
<1>9. ASSUME NEW m \in Lists PROVE \A i \in 0 .. counts'[m] - 1 : Recorded(m, i)'
  <2>1. CASE CountTime(d, l) /\ m = l
    <3>1. Recorded(m, index[d])'
      BY <2>1, <1>7 DEF Recorded
    <3>2. \A i \in 0 .. index[d] - 1 : Recorded(m, i)
      BY <2>1, <1>7 DEF TimeInv
    <3>3. index[d] \in Nat
      BY <1>2, <2>1 DEF TimeInv, TimeTypeOK
    <3>. QED
      BY <2>1, <3>1, <3>2, <3>3, <1>3, <1>7
  <2>2. CASE ~(CountTime(d, l) /\ m = l)
    BY <1>3, <1>6, <2>2 DEF TimeInv
  <2>. QED
    BY <2>1, <2>2
<1>10. ASSUME NEW m \in Lists, NEW e \in Deliveries, doing'[e] = <<"count", m>>
       PROVE  /\ index'[e] <= Cardinality(Past(m)')
              /\ \A i \in 0 .. index'[e] - 1 : Recorded(m, i)'
  <2>1. CASE e # d
    BY <2>1, <1>2, <1>3, <1>4, <1>5, <1>10 DEF TimeInv, TimeTypeOK, Calls
  <2>2. CASE e = d
    <3>1. index'[d] = counts[m] /\ l = m
      BY <2>2, <1>10 DEF TimeStep, LoadTime, CountTime, StoreTime, SumTime, SumEnd, CheckTime,
              CheckNone, DivideTime, Goto, TimeInv, TimeTypeOK
    <3>. QED
      BY <3>1, <2>2, <1>2, <1>3, <1>4 DEF TimeInv, TimeTypeOK
  <2>. QED
    BY <2>1, <2>2
<1>11. ASSUME NEW m \in Lists, NEW e \in Deliveries, doing'[e] = <<"slot", m>>
       PROVE  index'[e] < Cardinality(Past(m)')
  <2>1. CASE e # d
    BY <2>1, <1>2, <1>4, <1>5, <1>11 DEF TimeInv, TimeTypeOK, Calls
  <2>2. CASE e = d
    <3>1. CountTime(d, m) /\ l = m
      BY <2>2, <1>11 DEF TimeStep, LoadTime, CountTime, StoreTime, SumTime, SumEnd, CheckTime,
              CheckNone, DivideTime, Goto, TimeInv, TimeTypeOK
    <3>. QED
      BY <3>1, <2>2, <1>2, <1>4, <1>7 DEF TimeInv, TimeTypeOK
  <2>. QED
    BY <2>1, <2>2
<1>12. ASSUME NEW m \in Lists, NEW e \in Calls, doing'[e] \in Behind(m) PROVE counts'[m] > 0
  <2>1. counts[m] > 0 => counts'[m] > 0
    BY <1>2, <1>6, <1>7 DEF TimeInv, TimeTypeOK
  <2>2. CASE e # d
    BY <2>1, <2>2, <1>5, <1>12 DEF TimeInv
  <2>3. CASE e = d
    <3>1. doing[d] \in Behind(m) \/ (doing[d] = <<"check", m>> /\ CheckTime(d, m))
      BY <2>3, <1>12 DEF TimeStep, LoadTime, CountTime, StoreTime, SumTime, SumEnd, CheckTime,
              CheckNone, DivideTime, Goto, Behind, Lists, TimeInv, TimeTypeOK
    <3>. QED
      BY <2>1, <3>1 DEF CheckTime, TimeInv
  <2>. QED
    BY <2>2, <2>3
<1>13. ASSUME NEW e \in Interrupts PROVE doing'[e][1] \notin {"load", "count", "slot"}
  <2>1. CASE e # d
    BY <2>1, <1>5 DEF TimeInv, Calls
  <2>2. CASE e = d
    BY <2>2 DEF TimeStep, LoadTime, CountTime, StoreTime, SumTime, SumEnd, CheckTime,
              CheckNone, DivideTime, Goto, TimeInv, TimeTypeOK, Lists
  <2>. QED
    BY <2>1, <2>2
<1>. QED
  BY <1>1, <1>8, <1>9, <1>10, <1>11, <1>12, <1>13 DEF TimeInv

\* A step of any thread, or none, keeps the invariant.
LEMMA TimeInvNext == TimeInv /\ [TimeNext]_timeVars => TimeInv'
<1>. SUFFICES ASSUME TimeInv, [TimeNext]_timeVars PROVE TimeInv'
  OBVIOUS
<1>1. CASE TimeNext
  BY <1>1, TimeInvStep DEF TimeNext
<1>2. CASE UNCHANGED timeVars
  <2>1. counts' = counts /\ stored' = stored /\ doing' = doing /\ index' = index
    BY <1>2 DEF timeVars
  <2>2. TimeTypeOK'
    BY <2>1 DEF TimeInv, TimeTypeOK
  <2>3. \A m \in Lists : Past(m)' = Past(m) /\ \A i : Recorded(m, i)' = Recorded(m, i)
    BY <2>1 DEF Past, Recorded
  <2>. QED
    BY <2>1, <2>2, <2>3 DEF TimeInv
<1>. QED
  BY <1>1, <1>2

\* The invariant of the waiting times holds in every reachable state, for any number of
\* deliveries and any schedule of the threads that make them.
THEOREM TimeInvariant == TimeSpec => []TimeInv
BY TimeInvInit, TimeInvNext, PTL DEF TimeSpec

\* Types of the waiting times: however many increments are lost, counters, indices and
\* written slots stay within the number of deliveries.
THEOREM TimeTypeCorrect == TimeSpec => []TimeTypeOK
<1>1. TimeInv => TimeTypeOK
  BY DEF TimeInv
<1>. QED
  BY <1>1, TimeInvariant, PTL

\* No average ever includes a slot that nobody has written or is about to write.
THEOREM CountedIsRecorded == TimeSpec => []CountedRecorded
<1>1. TimeInv => CountedRecorded
  BY DEF TimeInv, CountedRecorded
<1>. QED
  BY <1>1, TimeInvariant, PTL

\* No call loads a slot behind as many slots as there are deliveries.
THEOREM RecordsStayInArray == TimeSpec => []RecordsInArray
<1>1. ASSUME TimeInv, NEW d \in Deliveries, NEW l \in Lists,
             doing[d] \in {<<"count", l>>, <<"slot", l>>}
      PROVE  index[d] < Total
  <2>1. Total \in Nat /\ Cardinality(Past(l)) \in 0 .. Total /\ index[d] \in Int
    BY <1>1, PastBounded DEF TimeInv, TimeTypeOK, Calls
  <2>2. CASE doing[d] = <<"count", l>>
    <3>1. Cardinality(Past(l)) < Total
      BY <2>2, OneMorePast DEF Before, Lists
    <3>. QED
      BY <1>1, <2>1, <2>2, <3>1 DEF TimeInv
  <2>3. CASE doing[d] = <<"slot", l>>
    BY <1>1, <2>1, <2>3 DEF TimeInv
  <2>. QED
    BY <1>1, <2>2, <2>3
<1>2. TimeInv => RecordsInArray
  BY <1>1 DEF RecordsInArray
<1>. QED
  BY <1>2, TimeInvariant, PTL

\* No average is divided by zero, although its counter is read once more after the check.
THEOREM AveragesAreDefined == TimeSpec => []AveragesDefined
<1>1. TimeInv => AveragesDefined
  BY DEF TimeInv, AveragesDefined, Behind, Lists
<1>. QED
  BY <1>1, TimeInvariant, PTL

\* The unsynchronised counters stay in range at both ends, for any number of deliveries,
\* threads and interrupts.
THEOREM CountersStayInRange == TimeSpec => []CountersInRange
<1>1. RecordsInArray /\ AveragesDefined => CountersInRange
  BY DEF CountersInRange
<1>. QED
  BY <1>1, RecordsStayInArray, AveragesAreDefined, PTL

-----------------------------------------------------------------------------
(* The order intake.                                                       *)

\* What process_orders has handed out: it creates no cook for an order behind next, and
\* the variable order never goes back.  If new threads are not late, a cook that was
\* created and has not started is the last one, and sleep(1) has not returned since.
LoopOrder ==
  /\ loop \in {"fill", "create", "sleep"} => next <= Count
  /\ loop = "fill" => order \in {next, NoOrder}
  /\ loop \in {"create", "sleep"} => order = next /\ heap[next] = "complete"

CreatedCooks ==
  \A c \in 1 .. Count : cook[c] = "created" =>
    /\ c <= next
    /\ order # NoOrder => c <= order
    /\ lateness = 0 /\ Running => c = next /\ loop = "sleep" /\ asleep = 1

IntakeInv == IntakeTypeOK /\ LoopOrder /\ CreatedCooks /\ OrderOfItsOwn

\* The order file has some number of entries.
LEMMA CountIsNat == file \in Files => Count \in Nat
BY IntakeAssumption DEF Count

\* Nothing has been read or created yet.
LEMMA IntakeInvInit == IntakeInit => IntakeInv
<1>. SUFFICES ASSUME IntakeInit PROVE IntakeInv
  OBVIOUS
<1>1. Count \in Nat /\ file \in Files
  BY CountIsNat DEF IntakeInit
<1>. QED
  BY <1>1, IntakeAssumption DEF IntakeInit, IntakeInv, IntakeTypeOK, LoopOrder, CreatedCooks,
    OrderOfItsOwn, Heap, NoOrder

\* A step of process_orders: only CreateCook makes a cook that may be late, and then the
\* variable holds its order; only Allocate overwrites the variable.
LEMMA IntakeInvLoop ==
  ASSUME IntakeInv, LoopStep
  PROVE  IntakeInv'
<1>1. file \in Files /\ Count \in Nat
  BY CountIsNat DEF IntakeInv, IntakeTypeOK
<1>2. Count' = Count /\ file' = file /\ lateness' = lateness /\ waited' = waited /\ taken' = taken
  BY DEF LoopStep, Allocate, Fill, FillCrash, CreateCook, WakeUp, IntakeExit, Count
<1>. USE <1>1, <1>2 DEF NoOrder, IntakeInv, IntakeTypeOK, LoopOrder
<1>3. CASE Allocate
  <2>1. IntakeTypeOK'
    <3>1. next \in 1 .. Count /\ heap' \in [1 .. Count -> Heap]
      BY <1>3, SMTT(30) DEF Allocate, Heap, MoreOrders
    <3>. QED
      BY <3>1, <1>3, SMTT(30) DEF Allocate, MoreOrders, Heap
  <2>2. LoopOrder'
    BY <1>3 DEF Allocate, MoreOrders
  <2>3. CreatedCooks'
    BY <1>3 DEF Allocate, MoreOrders, CreatedCooks, Running
  <2>4. OrderOfItsOwn'
    BY <1>3 DEF Allocate, MoreOrders, OrderOfItsOwn, CreatedCooks, Running
  <2>. QED
    BY <2>1, <2>2, <2>3, <2>4
<1>4. CASE Fill
  <2>1. IntakeTypeOK'
    BY <1>4 DEF Fill, Heap
  <2>2. LoopOrder'
    BY <1>4 DEF Fill
  <2>3. CreatedCooks'
    BY <1>4 DEF Fill, CreatedCooks, Running
  <2>4. OrderOfItsOwn'
    BY <1>4 DEF Fill, OrderOfItsOwn, CreatedCooks, Running
  <2>. QED
    BY <2>1, <2>2, <2>3, <2>4
<1>5. CASE FillCrash
  <2>1. IntakeTypeOK'
    BY <1>5 DEF FillCrash, Heap
  <2>2. LoopOrder'
    BY <1>5 DEF FillCrash
  <2>3. CreatedCooks'
    BY <1>5 DEF FillCrash, CreatedCooks, Running
  <2>4. OrderOfItsOwn'
    BY <1>5 DEF FillCrash, OrderOfItsOwn, CreatedCooks, Running
  <2>. QED
    BY <2>1, <2>2, <2>3, <2>4
<1>6. CASE CreateCook
  <2>1. IntakeTypeOK'
    <3>1. next \in 1 .. Count
      BY <1>6 DEF CreateCook
    <3>2. cook' \in [1 .. Count -> {"none", "created", "cooking"}]
      BY <1>6, <3>1 DEF CreateCook
    <3>3. unmade' \subseteq 1 .. Count
      BY <1>6, <3>1 DEF CreateCook
    <3>. QED
      BY <3>2, <3>3, <1>6 DEF CreateCook, Heap
  <2>2. LoopOrder'
    BY <1>6 DEF CreateCook
  <2>3. CreatedCooks'
    BY <1>6, SMTT(30) DEF CreateCook, CreatedCooks, Running
  <2>4. OrderOfItsOwn'
    BY <1>6 DEF CreateCook, OrderOfItsOwn, CreatedCooks, Running
  <2>. QED
    BY <2>1, <2>2, <2>3, <2>4
<1>7. CASE WakeUp
  <2>1. IntakeTypeOK'
    BY <1>7 DEF WakeUp, Heap
  <2>2. LoopOrder'
    BY <1>7 DEF WakeUp
  <2>3. CreatedCooks'
    BY <1>7 DEF WakeUp, CreatedCooks, Running
  <2>4. OrderOfItsOwn'
    BY <1>7 DEF WakeUp, OrderOfItsOwn, CreatedCooks, Running
  <2>. QED
    BY <2>1, <2>2, <2>3, <2>4
<1>8. CASE IntakeExit
  <2>1. IntakeTypeOK'
    BY <1>8 DEF IntakeExit, MoreOrders, Heap
  <2>2. LoopOrder'
    BY <1>8 DEF IntakeExit, MoreOrders
  <2>3. CreatedCooks'
    BY <1>8 DEF IntakeExit, MoreOrders, CreatedCooks, Running
  <2>4. OrderOfItsOwn'
    BY <1>8 DEF IntakeExit, MoreOrders, OrderOfItsOwn, CreatedCooks, Running
  <2>. QED
    BY <2>1, <2>2, <2>3, <2>4
<1>. QED
  BY <1>3, <1>4, <1>5, <1>6, <1>7, <1>8 DEF LoopStep

\* A cook starts, or crashes.
LEMMA IntakeInvCook ==
  ASSUME IntakeInv, NEW c \in 1 .. Count, CookStarts(c) \/ CookCrashes(c)
  PROVE  IntakeInv'
<1>1. file \in Files /\ Count \in Nat
  BY CountIsNat DEF IntakeInv, IntakeTypeOK
<1>2. Count' = Count
  BY DEF CookStarts, CookCrashes, Count
<1>. USE <1>1, <1>2 DEF NoOrder, IntakeInv, IntakeTypeOK, LoopOrder
<1>3. CASE CookStarts(c)
  <2>1. IntakeTypeOK'
    <3>1. taken' \in [1 .. Count -> (0 .. Count) \X Heap]
      BY <1>3 DEF CookStarts, Heap
    <3>. QED
      BY <3>1, <1>3 DEF CookStarts, Heap
  <2>2. LoopOrder'
    BY <1>3 DEF CookStarts
  <2>3. CreatedCooks'
    BY <1>3 DEF CookStarts, CreatedCooks, Running
  <2>4. OrderOfItsOwn'
    BY <1>3 DEF CookStarts, OrderOfItsOwn, CreatedCooks, Running
  <2>. QED
    BY <2>1, <2>2, <2>3, <2>4
<1>4. CASE CookCrashes(c)
  <2>1. IntakeTypeOK'
    BY <1>4 DEF CookCrashes, Heap
  <2>2. LoopOrder'
    BY <1>4 DEF CookCrashes
  <2>3. CreatedCooks'
    BY <1>4 DEF CookCrashes, CreatedCooks, Running
  <2>4. OrderOfItsOwn'
    BY <1>4 DEF CookCrashes, OrderOfItsOwn, CreatedCooks, Running
  <2>. QED
    BY <2>1, <2>2, <2>3, <2>4
<1>. QED
  BY <1>3, <1>4

\* A second passes: if new threads are not late, none is waiting to start.
LEMMA IntakeInvSecond ==
  ASSUME IntakeInv, Second
  PROVE  IntakeInv'
<1>1. file \in Files /\ Count \in Nat
  BY CountIsNat DEF IntakeInv, IntakeTypeOK
<1>2. Count' = Count
  BY DEF Second, Count
<1>3. waited' \in [1 .. Count -> 0 .. MAX_LATENESS]
  <2>1. ASSUME NEW c \in 1 .. Count
        PROVE  waited[c] + (IF c \in Created THEN 1 ELSE 0) \in 0 .. MAX_LATENESS
    <3>1. waited[c] \in 0 .. MAX_LATENESS /\ lateness \in 0 .. MAX_LATENESS
      BY <1>1 DEF IntakeInv, IntakeTypeOK
    <3>2. c \in Created => waited[c] < lateness
      BY DEF Second
    <3>. QED
      BY <3>1, <3>2, IntakeAssumption
  <2>. QED
    BY <2>1 DEF Second
<1>4. lateness = 0 => Created = {}
  BY <1>1 DEF Second, Created, IntakeInv, IntakeTypeOK, CreatedCooks
<1>. QED
  BY <1>1, <1>2, <1>3, <1>4, SMTT(30) DEF Second, Created, IntakeInv, IntakeTypeOK, LoopOrder,
    CreatedCooks, OrderOfItsOwn,
    Running, NoOrder, Heap

\* A step of any thread, or none, keeps the invariant.
LEMMA IntakeInvNext == IntakeInv /\ [IntakeNext]_intakeVars => IntakeInv'
<1>. SUFFICES ASSUME IntakeInv, [IntakeNext]_intakeVars PROVE IntakeInv'
  OBVIOUS
<1>1. CASE IntakeNext
  BY <1>1, IntakeInvLoop, IntakeInvCook, IntakeInvSecond DEF IntakeNext
<1>2. CASE UNCHANGED intakeVars
  BY <1>2 DEF intakeVars, IntakeInv, IntakeTypeOK, LoopOrder, CreatedCooks, OrderOfItsOwn,
    Running, Count
<1>. QED
  BY <1>1, <1>2

\* What process_orders has handed out stays handed out, for every order file and lateness.
THEOREM IntakeInvariant == IntakeSpec => []IntakeInv
BY IntakeInvInit, IntakeInvNext, PTL DEF IntakeSpec

\* Type correctness of the intake.
THEOREM IntakeTypeCorrect == IntakeSpec => []IntakeTypeOK
<1>1. IntakeInv => IntakeTypeOK
  BY DEF IntakeInv
<1>. QED
  BY <1>1, IntakeInvariant, PTL

\* A cook that starts within the second cooks its own order, a late one never an earlier
\* order (order_manager.c:80-82).
THEOREM CooksCookTheirOwn == IntakeSpec => []OrderOfItsOwn
<1>1. IntakeInv => OrderOfItsOwn
  BY DEF IntakeInv
<1>. QED
  BY <1>1, IntakeInvariant, PTL

-----------------------------------------------------------------------------
(* The table of sockets.                                                   *)

\* Where a socket is: the accept loop works on one that is not entered yet, or that has no
\* thread; a thread that has not counted its socket out finds it counted.
InHand ==
  /\ entered \subseteq Sockets \union {"failed"}
  /\ \A s \in Sockets :
       /\ worker[s] \in {"reading", "check", "load", "store"} => s \in entered
       /\ s \in entered => worker[s] # "none"
  /\ server \in {"load", "count"} => client_socket \notin entered
  /\ server \in {"slot", "read"} => client_socket \in entered
  /\ server \in {"load", "count", "slot", "read"} /\ client_socket \in Sockets =>
       worker[client_socket] = "accepted"
  /\ "failed" \in entered =>
       server \notin {"accept", "load", "count"}
         /\ (server \in {"slot", "read"} => client_socket = "failed")

\* The index the accept loop has loaded is inside the array unless it has been full.
InArray ==
  /\ Cardinality(entered) > MAX_CLIENT => full
  /\ server = "slot" /\ ~lost => full \/ loaded[Main] < MAX_CLIENT

\* No connection has ended, and no update of the counter was lost.
Undisturbed == ~lost /\ \A s \in Sockets : worker[s] # "ended"

First(n) == {g_sock_clients[i] : i \in 0 .. n - 1}

\* Then the counted part of the table is what is entered; in between, the accept loop has
\* loaded the index of the cell it will write.
Written ==
  Undisturbed =>
    /\ server = "slot" =>
         /\ g_sock_client_count = loaded[Main] + 1
         /\ loaded[Main] <= MAX_CLIENT
         /\ First(loaded[Main]) = entered \ {client_socket}
    /\ server \notin {"slot", "returned", "crashed"} =>
         g_sock_client_count <= MAX_CLIENT /\ First(g_sock_client_count) = entered

\* The handler has closed the sockets up to its index.
Closing ==
  /\ closer = "none" => slot = 0 /\ shut = {}
  /\ closer # "none" /\ ~moved /\ Undisturbed =>
       /\ server \notin {"slot", "returned", "crashed"}
       /\ slot <= g_sock_client_count /\ shut = First(slot)
       /\ closer = "exited" => slot = g_sock_client_count

TableInv ==
  TableTypeOK /\ InHand /\ CountTrue /\ InArray /\ CrashesOverfull /\ Written /\ Closing

\* The counter's range holds one more than the sockets.
LEMMA EnteredAreFew ==
  ASSUME NEW E \in SUBSET (Sockets \union {"failed"})
  PROVE  IsFiniteSet(E) /\ Cardinality(E) \in Counts
<1>1. /\ IsFiniteSet(Sockets \union {"failed"})
      /\ Cardinality(Sockets \union {"failed"}) = Cardinality(Sockets) + 1
  BY FS_AddElement, TableAssumption
<1>2. IsFiniteSet(E) /\ Cardinality(E) <= Cardinality(Sockets) + 1
  BY <1>1, FS_Subset
<1>3. Cardinality(E) \in Nat
  BY <1>2, FS_CardinalityType
<1>4. Cardinality(Sockets) \in Nat
  BY TableAssumption, FS_CardinalityType
<1>. QED
  BY <1>2, <1>3, <1>4, TableAssumption DEF Counts

\* Nothing is entered yet.
LEMMA TableInvInit == TableInit => TableInv
<1>. SUFFICES ASSUME TableInit PROVE TableInv
  OBVIOUS
<1>1. TableTypeOK
  <2>1. 0 \in Counts
    BY TableAssumption DEF Counts
  <2>2. g_sock_clients \in [0 .. MAX_CLIENT - 1 -> Descriptors]
    BY DEF TableInit, Descriptors
  <2>3. loaded \in [Sockets \union {Main} -> Counts]
    BY <2>1 DEF TableInit
  <2>. QED
    BY <2>1, <2>2, <2>3 DEF TableInit, TableTypeOK
<1>2. InHand
  BY DEF TableInit, InHand
<1>3. Cardinality(entered) = 0
  BY FS_EmptySet DEF TableInit
<1>4. CountTrue /\ InArray /\ CrashesOverfull
  BY <1>3, TableAssumption DEF TableInit, CountTrue, InArray, CrashesOverfull
<1>5. Written
  BY TableAssumption DEF TableInit, Written, First
<1>6. Closing
  BY DEF TableInit, Closing
<1>. QED
  BY <1>1, <1>2, <1>4, <1>5, <1>6 DEF TableInv

\* Every action keeps the types: the arithmetic of the counter is modulo.
LEMMA TableTypeNext ==
  ASSUME TableTypeOK, InHand, TableNext
  PROVE  TableTypeOK'
<1>. USE TableAssumption DEF TableTypeOK, InHand, Counts, Descriptors, Main, handlerVars
<1>1. CASE AcceptClient
  BY <1>1 DEF AcceptClient
<1>2. CASE EnterLoad
  BY <1>2 DEF EnterLoad, LoadCount
<1>3. CASE EnterCount
  BY <1>3, SMTT(30) DEF EnterCount, StoreCount
<1>4. CASE EnterSocket
  BY <1>4 DEF EnterSocket
<1>5. CASE FirstRequest
  BY <1>5 DEF FirstRequest
<1>6. CASE FirstReadFails
  BY <1>6 DEF FirstReadFails
<1>7. ASSUME NEW s \in Sockets, ReadFails(s) PROVE TableTypeOK'
  BY <1>7 DEF ReadFails, WorkerTo
<1>8. ASSUME NEW s \in Sockets, CheckCount(s) PROVE TableTypeOK'
  BY <1>8 DEF CheckCount, WorkerTo
<1>9. ASSUME NEW s \in Sockets, LeaveLoad(s) PROVE TableTypeOK'
  BY <1>9 DEF LeaveLoad, LoadCount, WorkerTo
<1>10. ASSUME NEW s \in Sockets, LeaveCount(s) PROVE TableTypeOK'
  BY <1>10 DEF LeaveCount, StoreCount, WorkerTo
<1>11. CASE SigInt
  BY <1>11 DEF SigInt
<1>12. CASE CloseSocket
  BY <1>12 DEF CloseSocket, InTable
<1>13. CASE ExitServer
  BY <1>13 DEF ExitServer, InTable
<1>. QED
  BY <1>1, <1>2, <1>3, <1>4, <1>5, <1>6, <1>7, <1>8, <1>9, <1>10, <1>11, <1>12, <1>13
    DEF TableNext

\* A socket has at most one thread, which counts it out once.
LEMMA InHandNext ==
  ASSUME TableTypeOK, InHand, TableNext
  PROVE  InHand'
<1>. USE TableAssumption DEF TableTypeOK, InHand, handlerVars
<1>1. CASE AcceptClient
  BY <1>1 DEF AcceptClient
<1>2. CASE EnterLoad
  BY <1>2 DEF EnterLoad, LoadCount
<1>3. CASE EnterCount
  BY <1>3 DEF EnterCount, StoreCount
<1>4. CASE EnterSocket
  BY <1>4 DEF EnterSocket
<1>5. CASE FirstRequest
  BY <1>5 DEF FirstRequest
<1>6. CASE FirstReadFails
  BY <1>6 DEF FirstReadFails
<1>7. ASSUME NEW s \in Sockets, ReadFails(s) PROVE InHand'
  BY <1>7 DEF ReadFails, WorkerTo
<1>8. ASSUME NEW s \in Sockets, CheckCount(s) PROVE InHand'
  BY <1>8 DEF CheckCount, WorkerTo
<1>9. ASSUME NEW s \in Sockets, LeaveLoad(s) PROVE InHand'
  BY <1>9 DEF LeaveLoad, LoadCount, WorkerTo
<1>10. ASSUME NEW s \in Sockets, LeaveCount(s) PROVE InHand'
  BY <1>10 DEF LeaveCount, StoreCount, WorkerTo
<1>11. CASE SigInt
  BY <1>11 DEF SigInt
<1>12. CASE CloseSocket
  BY <1>12 DEF CloseSocket, InTable
<1>13. CASE ExitServer
  BY <1>13 DEF ExitServer, InTable
<1>. QED
  BY <1>1, <1>2, <1>3, <1>4, <1>5, <1>6, <1>7, <1>8, <1>9, <1>10, <1>11, <1>12, <1>13
    DEF TableNext

\* The counter stays the number of sockets entered: adding and removing one socket cannot
\* wrap, because there are fewer of them than COUNT_MODULUS.
LEMMA CountTrueNext ==
  ASSUME TableTypeOK, InHand, CountTrue, TableNext
  PROVE  CountTrue'
<1>1. IsFiniteSet(entered) /\ Cardinality(entered) \in Counts
  BY EnteredAreFew DEF InHand
<1>2. Counts = 0 .. COUNT_MODULUS - 1 /\ COUNT_MODULUS \in Nat
  BY TableAssumption DEF Counts
<1>3. CASE EnterCount
  <2>1. entered' = entered \union {client_socket} /\ client_socket \notin entered
    BY <1>3 DEF EnterCount, InHand
  <2>2. Cardinality(entered') = Cardinality(entered) + 1
    BY <1>1, <2>1, FS_AddElement
  <2>3. entered' \in SUBSET (Sockets \union {"failed"})
    BY <2>1 DEF InHand, TableTypeOK
  <2>4. Cardinality(entered') \in Counts
    BY <2>3, EnteredAreFew
  <2>5. ~lost' => g_sock_client_count' = (Cardinality(entered) + 1) % COUNT_MODULUS
    BY <1>3 DEF EnterCount, StoreCount, CountTrue
  <2>. QED
    BY <1>1, <1>2, <2>2, <2>4, <2>5 DEF CountTrue
<1>4. CASE FirstReadFails
  <2>1. entered' = entered \ {client_socket} /\ client_socket \in entered /\ lost' = lost
    BY <1>4 DEF FirstReadFails, InHand
  <2>2. Cardinality(entered') = Cardinality(entered) - 1
    BY <1>1, <2>1, FS_RemoveElement
  <2>3. Cardinality(entered) # 0
    BY <1>1, <2>1, FS_EmptySet
  <2>4. g_sock_client_count > 0 => g_sock_client_count' = g_sock_client_count - 1
    BY <1>4 DEF FirstReadFails
  <2>. QED
    BY <1>1, <1>2, <2>1, <2>2, <2>3, <2>4 DEF CountTrue
<1>5. ASSUME NEW s \in Sockets, LeaveCount(s) PROVE CountTrue'
  <2>1. entered' = entered \ {s} /\ s \in entered
    BY <1>5 DEF LeaveCount, WorkerTo, InHand
  <2>2. Cardinality(entered') = Cardinality(entered) - 1
    BY <1>1, <2>1, FS_RemoveElement
  <2>3. Cardinality(entered) # 0
    BY <1>1, <2>1, FS_EmptySet
  <2>4. ~lost' => g_sock_client_count' = (Cardinality(entered) - 1) % COUNT_MODULUS
    BY <1>5 DEF LeaveCount, StoreCount, CountTrue
  <2>. QED
    BY <1>1, <1>2, <2>2, <2>3, <2>4 DEF CountTrue
<1>. QED
  BY <1>3, <1>4, <1>5 DEF TableNext, CountTrue, AcceptClient, EnterLoad, EnterSocket,
    FirstRequest, ReadFails, CheckCount, LeaveLoad, SigInt, CloseSocket, ExitServer

\* The loaded index is less than the number of sockets entered since.
LEMMA InArrayNext ==
  ASSUME TableTypeOK, InHand, CountTrue, InArray, TableNext
  PROVE  InArray'
<1>1. IsFiniteSet(entered) /\ Cardinality(entered) \in Nat
  BY EnteredAreFew, TableAssumption DEF InHand, Counts
<1>2. CASE EnterCount
  <2>1. entered' = entered \union {client_socket} /\ client_socket \notin entered
    BY <1>2 DEF EnterCount, InHand
  <2>2. Cardinality(entered') = Cardinality(entered) + 1
    BY <1>1, <2>1, FS_AddElement
  <2>3. Cardinality(entered') > MAX_CLIENT => full'
    BY <1>2 DEF EnterCount
  <2>4. ~lost' => loaded'[Main] = Cardinality(entered)
    BY <1>2 DEF EnterCount, StoreCount, CountTrue
  <2>. QED
    BY <1>1, <2>2, <2>3, <2>4, TableAssumption DEF InArray
<1>3. CASE FirstReadFails
  <2>1. entered' = entered \ {client_socket} /\ client_socket \in entered
    BY <1>3 DEF FirstReadFails, InHand
  <2>2. Cardinality(entered') = Cardinality(entered) - 1
    BY <1>1, <2>1, FS_RemoveElement
  <2>. QED
    BY <1>1, <1>3, <2>2, TableAssumption DEF InArray, FirstReadFails
<1>4. ASSUME NEW s \in Sockets, LeaveCount(s) PROVE InArray'
  <2>1. entered' = entered \ {s} /\ s \in entered
    BY <1>4 DEF LeaveCount, WorkerTo, InHand
  <2>2. Cardinality(entered') = Cardinality(entered) - 1
    BY <1>1, <2>1, FS_RemoveElement
  <2>3. lost => lost'
    BY <1>4 DEF LeaveCount, StoreCount
  <2>4. UNCHANGED <<server, loaded, full>>
    BY <1>4 DEF LeaveCount
  <2>. QED
    BY <1>1, <2>2, <2>3, <2>4, TableAssumption DEF InArray
<1>5. ASSUME NEW s \in Sockets, LeaveLoad(s) PROVE InArray'
  <2>1. s # Main
    BY TableAssumption DEF Main
  <2>2. loaded'[Main] = loaded[Main]
    BY <1>5, <2>1 DEF LeaveLoad, LoadCount, TableTypeOK
  <2>. QED
    BY <1>5, <2>2 DEF LeaveLoad, InArray
<1>6. CASE EnterLoad \/ EnterSocket \/ CloseSocket
  BY <1>6 DEF EnterLoad, EnterSocket, CloseSocket, InArray
<1>. QED
  BY <1>2, <1>3, <1>4, <1>5, <1>6 DEF TableNext, InArray, AcceptClient, FirstRequest,
    ReadFails, CheckCount, SigInt, ExitServer

\* A store or a read behind the array needs more sockets than it has cells.
LEMMA CrashesOverfullNext ==
  ASSUME TableTypeOK, InHand, CountTrue, InArray, CrashesOverfull, TableNext
  PROVE  CrashesOverfull'
<1>1. CASE EnterSocket
  <2>1. lost' = lost /\ full' = full /\ server = "slot"
    BY <1>1 DEF EnterSocket
  <2>2. loaded[Main] \in Counts
    BY DEF TableTypeOK
  <2>3. server' = "crashed" => loaded[Main] \in MAX_CLIENT .. COUNT_MODULUS - 2
    BY <1>1 DEF EnterSocket
  <2>. QED
    BY <2>1, <2>2, <2>3, TableAssumption DEF CrashesOverfull, InArray, Counts
<1>2. CASE CloseSocket
  <2>1. lost' = lost /\ full' = full
    BY <1>2 DEF CloseSocket
  <2>2. server' = server \/ (server' = "crashed" /\ g_sock_client_count > MAX_CLIENT)
    BY <1>2, TableAssumption DEF CloseSocket, InTable, TableTypeOK, Counts
  <2>. QED
    BY <2>1, <2>2 DEF CrashesOverfull, CountTrue, InArray
<1>3. CASE EnterLoad \/ EnterCount \/ AcceptClient \/ FirstRequest \/ FirstReadFails
  BY <1>3 DEF EnterLoad, EnterCount, AcceptClient, FirstRequest, FirstReadFails, CrashesOverfull
<1>4. ASSUME NEW s \in Sockets, ReadFails(s) \/ CheckCount(s) \/ LeaveLoad(s) \/ LeaveCount(s)
      PROVE  CrashesOverfull'
  BY <1>4 DEF ReadFails, CheckCount, LeaveLoad, LeaveCount, StoreCount, CrashesOverfull
<1>5. CASE SigInt \/ ExitServer
  BY <1>5 DEF SigInt, ExitServer, CrashesOverfull
<1>. QED
  BY <1>1, <1>2, <1>3, <1>4, <1>5 DEF TableNext

\* Once a connection has ended or an update was lost, that stays so.
LEMMA DisturbedStays ==
  ASSUME TableTypeOK, InHand, TableNext
  PROVE  Undisturbed' => Undisturbed
<1>1. lost => lost'
  BY DEF TableNext, StoreCount, AcceptClient, EnterLoad, EnterCount, EnterSocket, FirstRequest,
    FirstReadFails, ReadFails, CheckCount, LeaveLoad, LeaveCount, SigInt, CloseSocket, ExitServer
<1>2. ASSUME NEW t \in Sockets, worker[t] = "ended" PROVE worker'[t] = "ended"
  <2>1. CASE AcceptClient
    <3>1. client_socket' # t
      BY <1>2, <2>1, TableAssumption DEF AcceptClient
    <3>. QED
      BY <1>2, <2>1, <3>1 DEF AcceptClient
  <2>2. CASE FirstRequest
    <3>1. client_socket # t
      BY <1>2, <2>2 DEF FirstRequest, InHand
    <3>. QED
      BY <1>2, <2>2, <3>1 DEF FirstRequest, TableTypeOK
  <2>3. ASSUME NEW s \in Sockets, ReadFails(s) \/ CheckCount(s) \/ LeaveLoad(s) \/ LeaveCount(s)
        PROVE  worker'[t] = "ended"
    BY <1>2, <2>3 DEF ReadFails, CheckCount, LeaveLoad, LeaveCount, WorkerTo, TableTypeOK
  <2>. QED
    BY <1>2, <2>1, <2>2, <2>3 DEF TableNext, EnterLoad, EnterCount, EnterSocket,
      FirstReadFails, SigInt, CloseSocket, ExitServer
<1>. QED
  BY <1>1, <1>2 DEF Undisturbed

\* One more cell of the table.
LEMMA FirstOneMore ==
  ASSUME NEW n \in Nat
  PROVE  First(n + 1) = First(n) \union {g_sock_clients[n]}
BY DEF First

\* The accept loop writes the cell behind the counted ones.
LEMMA WrittenNext ==
  ASSUME TableTypeOK, InHand, CountTrue, Written, TableNext
  PROVE  Written'
<1>1. Undisturbed' => Undisturbed
  BY DisturbedStays
<1>2. MAX_CLIENT \in Nat /\ COUNT_MODULUS \in Nat /\ COUNT_MODULUS > MAX_CLIENT + 1
  BY TableAssumption
<1>3. g_sock_client_count \in Nat /\ loaded[Main] \in Nat
  BY <1>2 DEF TableTypeOK, Counts
<1>4. CASE EnterCount
  <2>. SUFFICES ASSUME Undisturbed'
                PROVE  /\ g_sock_client_count' = loaded'[Main] + 1
                       /\ loaded'[Main] <= MAX_CLIENT
                       /\ First(loaded[Main])' = entered' \ {client_socket'}
    BY <1>4 DEF Written, EnterCount
  <2>1. g_sock_client_count <= MAX_CLIENT /\ First(g_sock_client_count) = entered
    BY <1>1, <1>4 DEF Written, EnterCount
  <2>2. loaded[Main] = g_sock_client_count
    BY <1>4 DEF EnterCount, StoreCount, Undisturbed
  <2>3. g_sock_client_count' = g_sock_client_count + 1
    BY <1>2, <1>3, <1>4, <2>1, <2>2 DEF EnterCount, StoreCount
  <2>4. entered' \ {client_socket'} = entered
    BY <1>4 DEF EnterCount, InHand
  <2>. QED
    BY <1>4, <2>1, <2>2, <2>3, <2>4 DEF EnterCount, First
<1>5. CASE EnterSocket
  <2>. DEFINE n == loaded[Main]
  <2>. SUFFICES ASSUME Undisturbed', server' # "crashed"
                PROVE  g_sock_client_count' <= MAX_CLIENT /\ First(g_sock_client_count)' = entered'
    BY <1>5 DEF Written, EnterSocket
  <2>1. g_sock_client_count = n + 1 /\ n <= MAX_CLIENT /\ First(n) = entered \ {client_socket}
    BY <1>1, <1>5 DEF Written, EnterSocket
  <2>2. n \in 0 .. MAX_CLIENT - 1
    BY <1>2, <1>3, <1>5, <2>1 DEF EnterSocket
  <2>3. /\ DOMAIN g_sock_clients = 0 .. MAX_CLIENT - 1
        /\ g_sock_clients' = [c \in DOMAIN g_sock_clients |->
                                IF c = n THEN client_socket ELSE g_sock_clients[c]]
    BY <1>5 DEF EnterSocket, TableTypeOK
  <2>4. /\ g_sock_clients'[n] = client_socket
        /\ \A i \in 0 .. n - 1 : g_sock_clients'[i] = g_sock_clients[i]
    BY <1>2, <2>2, <2>3
  <2>5. First(n)' = First(n)
    <3>1. n' = n
      BY <1>5 DEF EnterSocket
    <3>. QED
      BY <2>4, <3>1 DEF First
  <2>6. First(n + 1)' = First(n)' \union {g_sock_clients'[n]}
    <3>1. n' = n
      BY <1>5 DEF EnterSocket
    <3>. HIDE DEF n
    <3>. QED
      BY <2>2, <3>1 DEF First
  <2>7. client_socket \in entered
    BY <1>5 DEF EnterSocket, InHand
  <2>8. UNCHANGED <<g_sock_client_count, loaded, entered>>
    BY <1>5 DEF EnterSocket
  <2>9. First(g_sock_client_count)' = First(n + 1)'
    BY <2>1, <2>8 DEF First
  <2>10. First(n) \union {client_socket} = entered
    BY <2>1, <2>7
  <2>11. First(g_sock_client_count)' = entered
    BY <2>4, <2>5, <2>6, <2>9, <2>10
  <2>. QED
    BY <1>2, <2>1, <2>2, <2>8, <2>11
<1>6. CASE FirstReadFails
  BY <1>6 DEF FirstReadFails, Written
<1>7. ASSUME NEW s \in Sockets, LeaveCount(s) PROVE Written'
  <2>1. worker'[s] = "ended"
    BY <1>7 DEF LeaveCount, WorkerTo, TableTypeOK
  <2>. QED
    BY <2>1 DEF Written, Undisturbed
<1>8. ASSUME NEW s \in Sockets, LeaveLoad(s) PROVE Written'
  <2>1. loaded'[Main] = loaded[Main]
    BY <1>8, TableAssumption DEF LeaveLoad, LoadCount, TableTypeOK, Main
  <2>. QED
    BY <1>1, <1>8, <2>1 DEF LeaveLoad, Written, First
<1>9. CASE AcceptClient
  BY <1>1, <1>9 DEF AcceptClient, Written, First
<1>10. CASE EnterLoad
  BY <1>1, <1>10 DEF EnterLoad, Written, First
<1>11. CASE FirstRequest
  BY <1>1, <1>11 DEF FirstRequest, Written, First
<1>12. CASE CloseSocket
  BY <1>1, <1>12 DEF CloseSocket, Written, First
<1>13. ASSUME NEW s \in Sockets, ReadFails(s) \/ CheckCount(s) PROVE Written'
  BY <1>1, <1>13 DEF ReadFails, CheckCount, Written, First
<1>14. CASE SigInt \/ ExitServer
  BY <1>1, <1>14 DEF SigInt, ExitServer, Written, First
<1>. QED
  BY <1>4, <1>5, <1>6, <1>7, <1>8, <1>9, <1>10, <1>11, <1>12, <1>13, <1>14 DEF TableNext

\* The handler closes the counted part of the table from its beginning, or notices a change.
LEMMA ClosingNext ==
  ASSUME TableTypeOK, InHand, Written, Closing, TableNext
  PROVE  Closing'
<1>1. Undisturbed' => Undisturbed
  BY DisturbedStays
<1>2. g_sock_client_count \in Nat /\ slot \in Nat /\ MAX_CLIENT \in Nat
  BY TableAssumption DEF TableTypeOK, Counts
<1>3. CASE SigInt
  <2>1. First(0) = {}
    BY DEF First
  <2>2. UNCHANGED <<g_sock_clients, g_sock_client_count, server, slot, shut>> /\ closer' = "closing"
    BY <1>3 DEF SigInt
  <2>3. slot = 0 /\ shut = {} /\ server \notin {"returned", "crashed"}
    BY <1>3 DEF SigInt, Serving, Closing
  <2>4. ~moved' => server # "slot"
    BY <1>3 DEF SigInt
  <2>. QED
    BY <1>2, <2>1, <2>2, <2>3, <2>4 DEF Closing, First
<1>4. CASE CloseSocket
  <2>1. closer = "closing" /\ closer' = "closing" /\ moved' = moved /\ slot' = slot + 1
    BY <1>4 DEF CloseSocket
  <2>. SUFFICES ASSUME ~moved, Undisturbed'
                PROVE  /\ server' \notin {"slot", "returned", "crashed"}
                       /\ slot' <= g_sock_client_count' /\ shut' = First(slot)'
    BY <2>1 DEF Closing
  <2>2. server \notin {"slot", "returned", "crashed"} /\ shut = First(slot)
    BY <1>1, <2>1 DEF Closing
  <2>3. slot < g_sock_client_count /\ g_sock_client_count <= MAX_CLIENT
    BY <1>1, <1>4, <2>2 DEF CloseSocket, InTable, Written
  <2>4. server' = server /\ shut' = shut \union {g_sock_clients[slot]}
    BY <1>2, <1>4, <2>3 DEF CloseSocket
  <2>5. shut' = First(slot + 1)
    BY <1>2, <2>2, <2>4, FirstOneMore
  <2>6. UNCHANGED <<g_sock_clients, g_sock_client_count>>
    BY <1>4 DEF CloseSocket
  <2>7. First(slot)' = First(slot + 1)
    BY <2>1, <2>6 DEF First
  <2>. QED
    BY <1>2, <2>1, <2>2, <2>3, <2>4, <2>5, <2>6, <2>7
<1>5. CASE ExitServer
  <2>1. UNCHANGED <<g_sock_clients, g_sock_client_count, server, slot, shut, moved>>
    BY <1>5 DEF ExitServer
  <2>2. closer = "closing" /\ closer' = "exited" /\ ~(slot < g_sock_client_count)
    BY <1>5 DEF ExitServer, InTable
  <2>. QED
    BY <1>1, <1>2, <2>1, <2>2 DEF Closing, First
<1>6. CASE EnterCount \/ EnterSocket \/ FirstReadFails
  <2>1. closer # "none" => moved'
    BY <1>6 DEF EnterCount, StoreCount, EnterSocket, FirstReadFails
  <2>2. UNCHANGED handlerVars
    BY <1>6 DEF EnterCount, EnterSocket, FirstReadFails
  <2>. QED
    BY <2>1, <2>2 DEF Closing, handlerVars
<1>7. ASSUME NEW s \in Sockets, LeaveCount(s) PROVE Closing'
  <2>1. closer # "none" => moved'
    BY <1>7 DEF LeaveCount, StoreCount
  <2>. QED
    BY <1>7, <2>1 DEF LeaveCount, Closing, handlerVars
<1>8. ASSUME UNCHANGED <<g_sock_clients, g_sock_client_count, handlerVars, moved>>,
             server' = server \/ server' \notin {"slot", "returned", "crashed"}
      PROVE  Closing'
  BY <1>1, <1>8 DEF Closing, First, handlerVars
<1>9. CASE AcceptClient \/ EnterLoad \/ FirstRequest
  BY <1>8, <1>9 DEF AcceptClient, EnterLoad, FirstRequest
<1>10. ASSUME NEW s \in Sockets, ReadFails(s) \/ CheckCount(s) \/ LeaveLoad(s) PROVE Closing'
  BY <1>8, <1>10 DEF ReadFails, CheckCount, LeaveLoad
<1>. QED
  BY <1>3, <1>4, <1>5, <1>6, <1>7, <1>9, <1>10 DEF TableNext

\* A step of any thread, or none, keeps the invariant.
LEMMA TableInvNext == TableInv /\ [TableNext]_tableVars => TableInv'
<1>1. CASE TableNext
  BY <1>1, TableTypeNext, InHandNext, CountTrueNext, InArrayNext, CrashesOverfullNext,
    WrittenNext, ClosingNext DEF TableInv
<1>2. CASE UNCHANGED tableVars
  <2>. USE <1>2 DEF tableVars
  <2>1. TableTypeOK => TableTypeOK'
    BY DEF TableTypeOK
  <2>2. (InHand => InHand') /\ (CountTrue => CountTrue') /\ (InArray => InArray')
        /\ (CrashesOverfull => CrashesOverfull')
    BY DEF InHand, CountTrue, InArray, CrashesOverfull
  <2>3. (Written => Written') /\ (Closing => Closing')
    BY DEF Written, Closing, Undisturbed, First
  <2>. QED
    BY <2>1, <2>2, <2>3 DEF TableInv
<1>. QED
  BY <1>1, <1>2

\* The invariant of the table, for any number of sockets and cells.
THEOREM TableInvariant == TableSpec => []TableInv
BY TableInvInit, TableInvNext, PTL DEF TableSpec

\* Type correctness of the table.
THEOREM TableTypeCorrect == TableSpec => []TableTypeOK
<1>1. TableInv => TableTypeOK
  BY DEF TableInv
<1>. QED
  BY <1>1, TableInvariant, PTL

\* The counter (server.c:141 and server.c:194) is true until an update of it is lost.
THEOREM CountStaysTrue == TableSpec => []CountTrue
<1>1. TableInv => CountTrue
  BY DEF TableInv
<1>. QED
  BY <1>1, TableInvariant, PTL

\* Only a lost update or too many sockets lead behind the array.
THEOREM OnlyOverfullCrashes == TableSpec => []CrashesOverfull
<1>1. TableInv => CrashesOverfull
  BY DEF TableInv
<1>. QED
  BY <1>1, TableInvariant, PTL

\* Until a connection ends, the table lists the open sockets, and the handler of SIGINT
\* (server.c:71-77) closes these and no others.
THEOREM TableListsOpenSockets == TableSpec => []TableOfOpenSockets
<1>1. TableInv => TableHoldsThem
  BY DEF TableInv, TableHoldsThem, Written, Undisturbed, First, Listed, Serving
<1>2. TableInv => HandlerClosesThem
  BY DEF TableInv, HandlerClosesThem, Closing, Written, Undisturbed
<1>3. TableInv => TableOfOpenSockets
  BY <1>1, <1>2 DEF TableOfOpenSockets
<1>. QED
  BY <1>3, TableInvariant, PTL

-----------------------------------------------------------------------------
(* The fields of requests.                                                 *)

\* A request is in the buffer that no courier has been allocated for.
Fresh(t) == stage[t] = "check" /\ Validate(t)

\* Where a thread can be: it calls strtok three times, and not for a buffer it has
\* cleared or freed.
Stages ==
  \A t \in Parsers :
    /\ Parsing(t) => call[t] \in 1 .. 3
    /\ t \in blank => stage[t] \in {"read", "ended"}
    /\ t \in released => stage[t] = "ended"
    /\ Len(got[t]) < call[t]

\* The place is not the first field of a text.
Later(place) == place = Nowhere \/ place[2] > 1

\* The first field of a text is no place strtok remembers: only the thread that passes its
\* buffer looks there.
FirstFields ==
  /\ Later(last)
  /\ \A t \in Parsers :
       /\ Later(rest[t])
       /\ Later(pointer[t]) \/ pointer[t][1] = t
       /\ stage[t] = "scan" /\ call[t] = 1 => pointer[t] = <<t, 1>>

\* The first call has cut the text, and no other cuts it there.
FirstCut ==
  \A t \in Parsers : Parsing(t) /\ (stage[t] = "save" \/ call[t] > 1) => 1 \in cut[t]

CouriersMade ==
  \A t \in Parsers : couriers[t] = IF Fresh(t) THEN texts[t] - 1 ELSE texts[t]

\* A thread without company finds in the static variable what it left there.
Alone(t) ==
  /\ Fresh(t) \/ Parsing(t) => Others(t) = {}
  /\ Fresh(t) => cut[t] = {}
  /\ Parsing(t) => Len(got[t]) = call[t] - 1
  /\ stage[t] = "load" => cut[t] = 1 .. call[t] - 1 /\ (call[t] > 1 => last = <<t, call[t]>>)
  /\ stage[t] = "scan" => cut[t] = 1 .. call[t] - 1 /\ pointer[t] = <<t, call[t]>>
  /\ stage[t] = "save" =>
       /\ pointer[t] = <<t, call[t]>>
       /\ cut[t] = 1 .. (IF call[t] < 3 THEN call[t] ELSE 2)
       /\ call[t] < 3 => rest[t] = <<t, call[t] + 1>>

OneAfterTheOther == \A t \in Parsers \ overlapped : Alone(t)

FieldsInv ==
  /\ FieldsTypeOK /\ Stages /\ FirstFields /\ FirstCut /\ CouriersMade
  /\ OneAfterTheOther /\ FieldsOwn

\* A place is nowhere, or a field of a buffer.
LEMMA PlaceParts ==
  ASSUME NEW p \in BufferPlaces
  PROVE  p = Nowhere \/ (p # Nowhere /\ p[1] \in Parsers /\ p[2] \in 1 .. 3 /\ p = <<p[1], p[2]>>)
BY FieldsAssumption DEF BufferPlaces, Nowhere

LEMMA FieldIsPlace ==
  ASSUME NEW b \in Parsers, NEW n \in 1 .. 3
  PROVE  <<b, n>> \in BufferPlaces /\ <<b, n>> # Nowhere
BY FieldsAssumption DEF BufferPlaces, Nowhere

\* Each thread has its first request in the buffer.
LEMMA FieldsInvInit == FieldsInit => FieldsInv
<1>. SUFFICES ASSUME FieldsInit PROVE FieldsInv
  OBVIOUS
<1>1. Nowhere \in BufferPlaces
  BY DEF BufferPlaces
<1>2. FieldsTypeOK
  BY <1>1, FieldsAssumption DEF FieldsInit, FieldsTypeOK
<1>3. Stages
  <2>1. Len(<<>>) = 0 /\ blank = {} /\ released = {}
    BY DEF FieldsInit
  <2>2. \A t \in Parsers : stage[t] = "check" /\ got[t] = <<>> /\ call[t] = 1
    BY DEF FieldsInit
  <2>3. ASSUME NEW t \in Parsers PROVE Len(got[t]) < call[t]
    <3>1. Len(got[t]) = 0 /\ call[t] = 1
      BY <2>1, <2>2, Zenon
    <3>. QED
      BY <3>1
  <2>. QED
    BY <2>1, <2>2, <2>3, Zenon DEF Stages, Parsing
<1>4. FirstFields /\ FirstCut
  BY DEF FieldsInit, FirstFields, Later, FirstCut, Parsing
<1>5. CouriersMade
  <2>. SUFFICES ASSUME NEW t \in Parsers
                PROVE  couriers[t] = IF Fresh(t) THEN texts[t] - 1 ELSE texts[t]
    BY DEF CouriersMade
  <2>1. Fresh(t) /\ couriers[t] = 0 /\ texts[t] = 1
    BY DEF FieldsInit, Fresh, Validate
  <2>. QED
    BY <2>1
<1>6. OneAfterTheOther
  BY DEF FieldsInit, OneAfterTheOther, Alone, Fresh, Validate, Parsing, Others
<1>7. FieldsOwn
  BY DEF FieldsInit, FieldsOwn
<1>. QED
  BY <1>2, <1>3, <1>4, <1>5, <1>6, <1>7 DEF FieldsInv

FieldsStep(t) ==
  \/ Begin(t) \/ Clear(t) \/ Receive(t) \/ End(t)
  \/ Load(t) \/ Scan(t) \/ Save(t) \/ Break(t)

\* A thread gets one answer more for each call that succeeds.
LEMMA AnswersNext ==
  ASSUME FieldsTypeOK, Stages, NEW t \in Parsers, FieldsStep(t)
  PROVE  /\ call' \in [Parsers -> 1 .. 4] /\ got' \in [Parsers -> Seq(Fields)]
         /\ \A u \in Parsers : Len(got'[u]) < call'[u]
<1>1. /\ call \in [Parsers -> 1 .. 4] /\ got \in [Parsers -> Seq(Fields)]
      /\ \A u \in Parsers : Len(got[u]) < call[u] /\ Len(got[u]) \in Nat
  BY DEF FieldsTypeOK, Stages
<1>2. <<>> \in Seq(Fields) /\ Len(<<>>) = 0
  OBVIOUS
<1>3. CASE Begin(t)
  <2>1. call' = [call EXCEPT ![t] = 1] /\ got' = [got EXCEPT ![t] = <<>>]
    BY <1>3 DEF Begin
  <2>2. call' \in [Parsers -> 1 .. 4] /\ got' \in [Parsers -> Seq(Fields)]
    BY <1>1, <1>2, <2>1
  <2>3. Len(got'[t]) < call'[t]
    BY <1>1, <1>2, <2>1
  <2>4. \A u \in Parsers \ {t} : got'[u] = got[u] /\ call'[u] = call[u]
    BY <1>1, <2>1
  <2>. QED
    BY <1>1, <2>2, <2>3, <2>4
<1>4. CASE Receive(t)
  <2>1. call' = call /\ got' = [got EXCEPT ![t] = <<>>]
    BY <1>4 DEF Receive
  <2>2. call' \in [Parsers -> 1 .. 4] /\ got' \in [Parsers -> Seq(Fields)]
    BY <1>1, <1>2, <2>1
  <2>3. Len(got'[t]) < call'[t]
    <3>1. call[t] > 0 /\ got'[t] = <<>>
      BY <1>1, <2>1
    <3>. QED
      BY <1>2, <2>1, <3>1
  <2>4. \A u \in Parsers \ {t} : got'[u] = got[u] /\ call'[u] = call[u]
    BY <1>1, <2>1
  <2>. QED
    BY <1>1, <2>2, <2>3, <2>4
<1>5. CASE Save(t)
  <2>. DEFINE answer == <<pointer[t][1], texts[pointer[t][1]], pointer[t][2]>>
  <2>1. pointer[t] # Nowhere => answer \in Fields
    <3>1. pointer[t] \in BufferPlaces
      BY DEF FieldsTypeOK
    <3>2. pointer[t] # Nowhere => pointer[t][1] \in Parsers /\ pointer[t][2] \in 1 .. 3
      BY <3>1, PlaceParts
    <3>. QED
      BY <3>2 DEF FieldsTypeOK, Fields
  <2>2. call[t] \in 1 .. 3 /\ call' = [call EXCEPT ![t] = @ + 1]
    BY <1>5 DEF Save, To, Stages, Parsing
  <2>3. CASE pointer[t] = Nowhere
    BY <1>1, <1>5, <2>2, <2>3 DEF Save
  <2>4. CASE pointer[t] # Nowhere
    <3>1. got' = [got EXCEPT ![t] = Append(@, answer)]
      BY <1>5, <2>4 DEF Save
    <3>2. answer \in Fields
      BY <2>1, <2>4
    <3>. HIDE DEF answer
    <3>3. Append(got[t], answer) \in Seq(Fields) /\ Len(Append(got[t], answer)) = Len(got[t]) + 1
      BY <1>1, <3>2
    <3>. QED
      BY <1>1, <2>2, <3>1, <3>3
  <2>. QED
    BY <2>3, <2>4
<1>6. CASE UNCHANGED <<call, got>>
  BY <1>1, <1>6
<1>. QED
  BY <1>3, <1>4, <1>5, <1>6 DEF FieldsStep, Clear, End, Load, Scan, Break

\* Every step keeps the types.
LEMMA FieldsTypeNext ==
  ASSUME FieldsTypeOK, Stages, NEW t \in Parsers, FieldsStep(t)
  PROVE  FieldsTypeOK'
<1>. DEFINE StageType == stage \in [Parsers -> {"check", "load", "scan", "save", "read", "ended"}]
<1>1. /\ call' \in [Parsers -> 1 .. 4] /\ got' \in [Parsers -> Seq(Fields)]
      /\ \A u \in Parsers : Len(got'[u]) < call'[u]
  BY AnswersNext
<1>2. StageType'
  BY DEF FieldsStep, Begin, Clear, Receive, End, Load, Scan, Save, Break, To, FieldsTypeOK
<1>3. /\ texts' \in [Parsers -> 1 .. MAX_TEXTS] /\ couriers' \in [Parsers -> Nat]
  BY FieldsAssumption, SMTT(30) DEF FieldsStep, Begin, Clear, Receive, End, Load, Scan, Save, Break,
    FieldsTypeOK
<1>4. /\ blank' \subseteq Parsers /\ released' \subseteq Parsers /\ overlapped' \subseteq Parsers
      /\ broken' \in Parsers \union {"none"}
  BY DEF FieldsStep, Begin, Clear, Receive, End, Load, Scan, Save, Break, FieldsTypeOK
<1>5. /\ pointer' \in [Parsers -> BufferPlaces] /\ rest' \in [Parsers -> BufferPlaces]
      /\ last' \in BufferPlaces /\ cut' \in [Parsers -> SUBSET (1 .. 2)]
  <2>1. CASE Load(t)
    <3>1. <<t, 1>> \in BufferPlaces
      BY DEF BufferPlaces
    <3>. QED
      BY <2>1, <3>1 DEF Load, FieldsTypeOK
  <2>2. CASE Scan(t)
    <3>. DEFINE buffer == pointer[t][1]
                field == pointer[t][2]
                there == pointer[t] # Nowhere /\ buffer \notin blank
                more == there /\ field < 3 /\ field \notin cut[buffer]
    <3>1. pointer[t] \in BufferPlaces
      BY DEF FieldsTypeOK
    <3>2. pointer[t] # Nowhere => buffer \in Parsers /\ field \in 1 .. 3
      BY <3>1, PlaceParts
    <3>3. more => <<buffer, field + 1>> \in BufferPlaces /\ field \in 1 .. 2
      BY <3>2 DEF BufferPlaces
    <3>4. Nowhere \in BufferPlaces
      BY DEF BufferPlaces
    <3>5. /\ pointer' = [pointer EXCEPT ![t] = IF there THEN @ ELSE Nowhere]
          /\ rest' = [rest EXCEPT ![t] = IF more THEN <<buffer, field + 1>> ELSE Nowhere]
          /\ cut' = IF more THEN [cut EXCEPT ![buffer] = @ \union {field}] ELSE cut
          /\ last' = last
      BY <2>2 DEF Scan
    <3>. HIDE DEF buffer, field, there, more
    <3>. QED
      BY <3>3, <3>4, <3>5 DEF FieldsTypeOK
  <2>3. CASE Save(t)
    BY <2>3 DEF Save, FieldsTypeOK
  <2>. QED
    BY <2>1, <2>2, <2>3 DEF FieldsStep, Begin, Clear, Receive, End, Break, FieldsTypeOK
<1>. QED
  BY <1>1, <1>2, <1>3, <1>4, <1>5 DEF FieldsTypeOK

\* The others' stages, numbers of calls and answers stay as they are.
LEMMA OthersStay ==
  ASSUME FieldsTypeOK, NEW t \in Parsers, FieldsStep(t), NEW u \in Parsers \ {t}
  PROVE  /\ stage'[u] = stage[u] /\ call'[u] = call[u] /\ got'[u] = got[u]
         /\ pointer'[u] = pointer[u] /\ rest'[u] = rest[u] /\ texts'[u] = texts[u]
         /\ couriers'[u] = couriers[u] /\ (u \in blank' <=> u \in blank)
         /\ (u \in released' <=> u \in released)
<1>1. stage'[u] = stage[u] /\ call'[u] = call[u] /\ got'[u] = got[u]
  BY DEF FieldsStep, Begin, Clear, Receive, End, Load, Scan, Save, Break, To, FieldsTypeOK
<1>2. pointer'[u] = pointer[u] /\ rest'[u] = rest[u]
  BY DEF FieldsStep, Begin, Clear, Receive, End, Load, Scan, Save, Break, FieldsTypeOK
<1>3. texts'[u] = texts[u] /\ couriers'[u] = couriers[u]
  BY DEF FieldsStep, Begin, Clear, Receive, End, Load, Scan, Save, Break, FieldsTypeOK
<1>4. (u \in blank' <=> u \in blank) /\ (u \in released' <=> u \in released)
  BY DEF FieldsStep, Begin, Clear, Receive, End, Load, Scan, Save, Break
<1>. QED
  BY <1>1, <1>2, <1>3, <1>4

\* A call of strtok follows the last one or a request that was checked.
LEMMA StagesNext ==
  ASSUME FieldsTypeOK, Stages, NEW t \in Parsers, FieldsStep(t)
  PROVE  Stages'
<1>1. ASSUME NEW u \in Parsers \ {t}
      PROVE  /\ Parsing(u)' => call'[u] \in 1 .. 3
             /\ u \in blank' => stage'[u] \in {"read", "ended"}
             /\ u \in released' => stage'[u] = "ended"
  BY OthersStay DEF Stages, Parsing
<1>2. t \notin released /\ (t \in blank => stage[t] \in {"read", "ended"})
  BY DEF Stages, FieldsStep, Begin, Clear, Receive, End, Load, Scan, Save, Break, To
<1>3. stage[t] \in {"load", "scan", "save"} => call[t] \in 1 .. 3
  BY DEF Stages, Parsing
<1>4. call[t] \in 1 .. 4
  BY DEF FieldsTypeOK
<1>5. /\ Parsing(t)' => call'[t] \in 1 .. 3
      /\ t \in blank' => stage'[t] \in {"read", "ended"}
      /\ t \in released' => stage'[t] = "ended"
  <2>1. CASE Begin(t)
    BY <1>2, <2>1 DEF Begin, To, FieldsTypeOK
  <2>2. CASE Clear(t) \/ Receive(t) \/ End(t)
    BY <1>2, <2>2 DEF Clear, Receive, End, To, FieldsTypeOK, Parsing
  <2>3. CASE Load(t) \/ Scan(t)
    BY <1>2, <1>3, <2>3 DEF Load, Scan, To, FieldsTypeOK, Parsing
  <2>4. CASE Save(t)
    BY <1>2, <1>3, <2>4 DEF Save, To, FieldsTypeOK, Parsing, StrtokCalls
  <2>5. CASE Break(t)
    BY <1>2, <1>3, <2>5 DEF Break, FieldsTypeOK, Parsing
  <2>. QED
    BY <2>1, <2>2, <2>3, <2>4, <2>5 DEF FieldsStep
<1>. QED
  BY <1>1, <1>5, AnswersNext DEF Stages

\* Only an argument leads to the first field of a text.
LEMMA FirstFieldsNext ==
  ASSUME FieldsTypeOK, Stages, FirstFields, NEW t \in Parsers, FieldsStep(t)
  PROVE  FirstFields'
<1>1. Later(Nowhere)
  BY DEF Later
<1>2. ASSUME NEW u \in Parsers \ {t}
      PROVE  /\ Later(rest'[u]) /\ (Later(pointer'[u]) \/ pointer'[u][1] = u)
             /\ stage'[u] = "scan" /\ call'[u] = 1 => pointer'[u] = <<u, 1>>
  BY OthersStay DEF FirstFields
<1>3. /\ Later(rest[t]) /\ (Later(pointer[t]) \/ pointer[t][1] = t) /\ Later(last)
      /\ stage[t] = "scan" /\ call[t] = 1 => pointer[t] = <<t, 1>>
  BY DEF FirstFields
<1>4. /\ Later(last') /\ Later(rest'[t]) /\ (Later(pointer'[t]) \/ pointer'[t][1] = t)
      /\ stage'[t] = "scan" /\ call'[t] = 1 => pointer'[t] = <<t, 1>>
  <2>1. CASE Load(t)
    BY <1>3, <2>1 DEF Load, To, Argument, FieldsTypeOK
  <2>2. CASE Scan(t)
    <3>1. pointer[t] \in BufferPlaces
      BY DEF FieldsTypeOK
    <3>2. pointer[t] # Nowhere => pointer[t][2] \in 1 .. 3
      BY <3>1, PlaceParts
    <3>3. \/ rest'[t] = Nowhere
          \/ rest'[t] = <<pointer[t][1], pointer[t][2] + 1>> /\ pointer[t] # Nowhere
      BY <2>2 DEF Scan, FieldsTypeOK
    <3>4. Later(rest'[t])
      BY <3>2, <3>3 DEF Later
    <3>5. pointer'[t] = pointer[t] \/ pointer'[t] = Nowhere
      BY <2>2 DEF Scan, FieldsTypeOK
    <3>6. stage'[t] = "save" /\ last' = last
      BY <2>2 DEF Scan, To, FieldsTypeOK
    <3>. QED
      BY <1>1, <1>3, <3>4, <3>5, <3>6
  <2>3. CASE Save(t)
    <3>1. stage'[t] # "scan" /\ UNCHANGED <<pointer, rest>> /\ last' = rest[t]
      BY <2>3 DEF Save, To, FieldsTypeOK
    <3>. QED
      BY <1>3, <3>1
  <2>4. CASE Begin(t) \/ Clear(t) \/ Receive(t) \/ End(t)
    <3>1. stage'[t] # "scan" /\ UNCHANGED <<pointer, rest, last>>
      BY <2>4 DEF Begin, Clear, Receive, End, To, FieldsTypeOK
    <3>. QED
      BY <1>3, <3>1
  <2>5. CASE Break(t)
    BY <1>3, <2>5 DEF Break
  <2>. QED
    BY <2>1, <2>2, <2>3, <2>4, <2>5 DEF FieldsStep
<1>. QED
  BY <1>2, <1>4 DEF FirstFields

\* What Scan does, with its names.
LEMMA ScanCuts ==
  ASSUME FieldsTypeOK, Stages, FirstFields, NEW t \in Parsers, Scan(t)
  PROVE  /\ \A u \in Parsers : cut[u] \subseteq cut'[u]
         /\ \A u \in Parsers \ {t} : 1 \in cut'[u] => 1 \in cut[u]
         /\ \A n \in 1 .. 3 : pointer[t] = <<t, n>> =>
              /\ pointer'[t] = pointer[t]
              /\ cut'[t] = IF n < 3 THEN cut[t] \union {n} ELSE cut[t]
              /\ n < 3 /\ n \notin cut[t] => rest'[t] = <<t, n + 1>>
<1>. DEFINE buffer == pointer[t][1]
            field == pointer[t][2]
            there == pointer[t] # Nowhere /\ buffer \notin blank
            more == there /\ field < 3 /\ field \notin cut[buffer]
<1>1. pointer[t] \in BufferPlaces
  BY DEF FieldsTypeOK
<1>2. there => buffer \in Parsers /\ field \in 1 .. 3
  BY <1>1, PlaceParts
<1>3. /\ pointer' = [pointer EXCEPT ![t] = IF there THEN @ ELSE Nowhere]
      /\ rest' = [rest EXCEPT ![t] = IF more THEN <<buffer, field + 1>> ELSE Nowhere]
      /\ cut' = IF more THEN [cut EXCEPT ![buffer] = @ \union {field}] ELSE cut
  BY DEF Scan
<1>4. there => field > 1 \/ buffer = t
  BY DEF FirstFields, Later
<1>5. ASSUME NEW n \in 1 .. 3, pointer[t] = <<t, n>>
      PROVE  buffer = t /\ field = n /\ there
  <2>1. pointer[t] # Nowhere
    BY <1>5, FieldsAssumption DEF Nowhere
  <2>2. t \notin blank
    BY DEF Scan, To, Stages
  <2>. QED
    BY <1>5, <2>1, <2>2
<1>6. more => there /\ field < 3 /\ field \notin cut[buffer]
  OBVIOUS
<1>7. there /\ field < 3 /\ field \notin cut[buffer] => more
  OBVIOUS
<1>. HIDE DEF there, more
<1>8. \A u \in Parsers : cut[u] \subseteq cut'[u]
  BY <1>3 DEF FieldsTypeOK
<1>9. \A u \in Parsers \ {t} : 1 \in cut'[u] => 1 \in cut[u]
  BY <1>2, <1>3, <1>4, <1>6 DEF FieldsTypeOK
<1>10. ASSUME NEW n \in 1 .. 3, pointer[t] = <<t, n>>
       PROVE  /\ pointer'[t] = pointer[t]
              /\ cut'[t] = IF n < 3 THEN cut[t] \union {n} ELSE cut[t]
              /\ n < 3 /\ n \notin cut[t] => rest'[t] = <<t, n + 1>>
  <2>1. buffer = t /\ field = n /\ there
    BY <1>5, <1>10
  <2>2. more <=> n < 3 /\ n \notin cut[t]
    BY <1>6, <1>7, <2>1
  <2>. HIDE DEF buffer, field
  <2>. QED
    BY <1>3, <2>1, <2>2 DEF FieldsTypeOK
<1>. QED
  BY <1>8, <1>9, <1>10

\* No thread has its text cut at the first field by another.
LEMMA FirstCutNext ==
  ASSUME FieldsTypeOK, Stages, FirstFields, FirstCut, NEW t \in Parsers, FieldsStep(t)
  PROVE  /\ FirstCut'
         /\ \A u \in Parsers \ {t} : 1 \in cut'[u] <=> 1 \in cut[u]
<1>1. ASSUME NEW u \in Parsers \ {t} PROVE 1 \in cut'[u] <=> 1 \in cut[u]
  <2>1. CASE Scan(t)
    BY <2>1, ScanCuts
  <2>2. CASE ~Scan(t)
    BY <2>2 DEF FieldsStep, Begin, Clear, Receive, End, Load, Save, Break, FieldsTypeOK
  <2>. QED
    BY <2>1, <2>2
<1>2. ASSUME NEW u \in Parsers \ {t}, Parsing(u)', stage'[u] = "save" \/ call'[u] > 1
      PROVE  1 \in cut'[u]
  BY <1>1, <1>2, OthersStay DEF FirstCut, Parsing
<1>3. ASSUME Parsing(t)', stage'[t] = "save" \/ call'[t] > 1 PROVE 1 \in cut'[t]
  <2>1. Parsing(t) /\ (stage[t] = "save" \/ call[t] > 1) => 1 \in cut[t]
    BY DEF FirstCut
  <2>2. CASE Begin(t)
    BY <1>3, <2>2 DEF Begin, To, FieldsTypeOK
  <2>3. CASE Clear(t) \/ Receive(t) \/ End(t)
    BY <1>3, <2>3 DEF Clear, Receive, End, To, FieldsTypeOK, Parsing
  <2>4. CASE Load(t)
    BY <1>3, <2>1, <2>4 DEF Load, To, FieldsTypeOK, Parsing
  <2>5. CASE Scan(t)
    <3>1. stage[t] = "scan" /\ call[t] \in 1 .. 3
      BY <2>5 DEF Scan, To, Stages, Parsing
    <3>2. CASE call[t] > 1
      BY <2>1, <2>5, <3>1, <3>2, ScanCuts DEF Parsing
    <3>3. CASE call[t] = 1
      <4>1. pointer[t] = <<t, 1>>
        BY <3>1, <3>3 DEF FirstFields
      <4>2. 1 \in 1 .. 3 /\ 1 < 3
        OBVIOUS
      <4>3. cut'[t] = cut[t] \union {1}
        BY <2>5, <4>1, <4>2, ScanCuts
      <4>. QED
        BY <4>3
    <3>. QED
      BY <3>1, <3>2, <3>3
  <2>6. CASE Save(t)
    BY <1>3, <2>1, <2>6 DEF Save, To, FieldsTypeOK, Parsing
  <2>7. CASE Break(t)
    BY <1>3, <2>1, <2>7 DEF Break, Parsing
  <2>. QED
    BY <2>2, <2>3, <2>4, <2>5, <2>6, <2>7 DEF FieldsStep
<1>. QED
  BY <1>1, <1>2, <1>3 DEF FirstCut

\* A request is fresh until its thread begins with it, and then never again.
LEMMA FreshNext ==
  ASSUME FieldsTypeOK, Stages, FirstFields, FirstCut, NEW t \in Parsers, FieldsStep(t)
  PROVE  /\ \A u \in Parsers \ {t} : Fresh(u)' <=> Fresh(u)
         /\ Fresh(t) <=> Begin(t)
         /\ Fresh(t)' <=> Receive(t)
<1>1. ASSUME NEW u \in Parsers \ {t} PROVE Fresh(u)' <=> Fresh(u)
  BY FirstCutNext, OthersStay DEF Fresh, Validate
<1>2. Fresh(t) <=> Begin(t)
  BY DEF FieldsStep, Begin, Clear, Receive, End, Load, Scan, Save, Break, To, Fresh
<1>3. Receive(t) => Fresh(t)'
  BY DEF Receive, To, Fresh, Validate, FieldsTypeOK
<1>4. ASSUME Fresh(t)', ~Receive(t) PROVE FALSE
  <2>1. stage'[t] = "check" /\ 1 \notin cut'[t]
    BY <1>4 DEF Fresh, Validate
  <2>2. Save(t)
    BY <1>4, <2>1 DEF FieldsStep, Begin, Clear, End, Load, Scan, Break, To, FieldsTypeOK
  <2>3. stage[t] = "save" /\ cut' = cut
    BY <2>2 DEF Save, To
  <2>. QED
    BY <2>1, <2>3 DEF FirstCut, Parsing
<1>. QED
  BY <1>1, <1>2, <1>3, <1>4

\* Begin allocates the courier of the request Receive has brought.
LEMMA CouriersMadeNext ==
  ASSUME FieldsTypeOK, Stages, FirstFields, FirstCut, CouriersMade, NEW t \in Parsers, FieldsStep(t)
  PROVE  CouriersMade'
<1>1. ASSUME NEW u \in Parsers \ {t}
      PROVE  couriers'[u] = IF Fresh(u)' THEN texts'[u] - 1 ELSE texts'[u]
  BY FreshNext, OthersStay DEF CouriersMade
<1>2. /\ couriers[t] = IF Fresh(t) THEN texts[t] - 1 ELSE texts[t]
      /\ couriers[t] \in Nat /\ texts[t] \in Nat
  BY DEF CouriersMade, FieldsTypeOK
<1>3. couriers'[t] = IF Fresh(t)' THEN texts'[t] - 1 ELSE texts'[t]
  <2>1. CASE Begin(t)
    <3>1. ~Receive(t)
      BY <2>1 DEF Begin, Receive, To
    <3>2. couriers'[t] = couriers[t] + 1 /\ texts'[t] = texts[t]
      BY <2>1 DEF Begin, FieldsTypeOK
    <3>. QED
      BY <1>2, <2>1, <3>1, <3>2, FreshNext
  <2>2. CASE Receive(t)
    <3>1. ~Begin(t)
      BY <2>2 DEF Begin, Receive, To
    <3>2. couriers'[t] = couriers[t] /\ texts'[t] = texts[t] + 1
      BY <2>2 DEF Receive, FieldsTypeOK
    <3>. QED
      BY <1>2, <2>2, <3>1, <3>2, FreshNext
  <2>3. CASE ~Begin(t) /\ ~Receive(t)
    <3>1. UNCHANGED <<couriers, texts>>
      BY <2>3 DEF FieldsStep, Clear, End, Load, Scan, Save, Break
    <3>. QED
      BY <1>2, <2>3, <3>1, FreshNext
  <2>. QED
    BY <2>1, <2>2, <2>3
<1>. QED
  BY <1>1, <1>3 DEF CouriersMade

\* A thread whose request is at work is not disturbed unless a step overlaps it.
LEMMA AloneOther ==
  ASSUME FieldsTypeOK, Stages, FirstFields, FirstCut, OneAfterTheOther,
         NEW t \in Parsers, FieldsStep(t),
         NEW u \in Parsers \ {t}, u \notin overlapped'
  PROVE  u \notin overlapped /\ Alone(u)'
<1>1. u \notin overlapped
  BY DEF FieldsStep, Begin, Clear, Receive, End, Load, Scan, Save, Break
<1>2. Alone(u)
  BY <1>1 DEF OneAfterTheOther
<1>3. /\ stage'[u] = stage[u] /\ call'[u] = call[u] /\ got'[u] = got[u]
      /\ pointer'[u] = pointer[u] /\ rest'[u] = rest[u]
  BY OthersStay
<1>4. (Fresh(u)' <=> Fresh(u)) /\ (Parsing(u)' <=> Parsing(u))
  BY <1>3, FreshNext DEF Parsing
<1>5. CASE ~Fresh(u) /\ ~Parsing(u)
  BY <1>1, <1>3, <1>4, <1>5 DEF Alone, Parsing
<1>6. CASE Fresh(u) \/ Parsing(u)
  <2>1. ~Parsing(t)
    BY <1>2, <1>6 DEF Alone, Others
  <2>2. ~Begin(t)
    BY <1>6 DEF Begin, Fresh
  <2>3. Clear(t) \/ Receive(t) \/ End(t)
    BY <2>1, <2>2 DEF FieldsStep, Load, Scan, Save, Break, To, Parsing
  <2>4. ~Parsing(t)'
    BY <2>3 DEF Clear, Receive, End, To, Parsing, FieldsTypeOK
  <2>5. cut'[u] = cut[u] /\ last' = last
    BY <2>3 DEF Clear, Receive, End, FieldsTypeOK
  <2>6. Others(u)' = Others(u)
    <3>1. \A v \in Parsers : Parsing(v)' <=> Parsing(v)
      BY <2>1, <2>4, OthersStay DEF Parsing
    <3>. QED
      BY <3>1 DEF Others
  <2>. QED
    BY <1>1, <1>2, <1>3, <1>4, <2>5, <2>6 DEF Alone
<1>. QED
  BY <1>1, <1>5, <1>6

\* The steps of the thread itself.
LEMMA AloneSelf ==
  ASSUME FieldsTypeOK, Stages, FirstFields, FirstCut, OneAfterTheOther,
         NEW t \in Parsers, FieldsStep(t),
         t \notin overlapped'
  PROVE  Alone(t)'
<1>1. Others(t)' = Others(t)
  BY OthersStay DEF Others, Parsing
<1>2. ~Receive(t) => t \notin overlapped /\ Alone(t)
  <2>1. ~Receive(t) => t \notin overlapped
    BY DEF FieldsStep, Begin, Clear, End, Load, Scan, Save, Break
  <2>. QED
    BY <2>1 DEF OneAfterTheOther
<1>3. (Fresh(t) <=> Begin(t)) /\ (Fresh(t)' <=> Receive(t))
  BY FreshNext
<1>4. CASE Begin(t)
  <2>1. Others(t) = {}
    BY <1>4 DEF Begin
  <2>2. stage'[t] = "load" /\ call'[t] = 1 /\ Len(got'[t]) = 0 /\ cut' = cut
    BY <1>4 DEF Begin, To, FieldsTypeOK
  <2>3. cut[t] = {} /\ ~Receive(t)
    <3>1. ~Receive(t)
      BY <1>4 DEF Begin, Receive, To
    <3>. QED
      BY <1>2, <1>3, <1>4, <3>1 DEF Alone
  <2>4. cut'[t] = 1 .. call'[t] - 1
    BY <2>2, <2>3
  <2>. QED
    BY <1>1, <1>3, <2>1, <2>2, <2>3, <2>4 DEF Alone
<1>5. CASE Receive(t)
  <2>1. Others(t) = {} /\ cut'[t] = {} /\ stage'[t] = "check"
    BY <1>5 DEF Receive, To, FieldsTypeOK
  <2>. QED
    BY <1>1, <2>1 DEF Alone, Parsing
<1>6. CASE Clear(t) \/ End(t)
  <2>1. stage'[t] \in {"read", "ended"}
    BY <1>6 DEF Clear, End, To, FieldsTypeOK
  <2>. QED
    BY <2>1 DEF Alone, Parsing, Fresh
<1>7. CASE Load(t)
  <2>1. ~Receive(t) /\ stage[t] = "load" /\ stage'[t] = "scan"
    BY <1>7 DEF Load, Receive, To, FieldsTypeOK
  <2>2. pointer'[t] = IF call[t] = 1 THEN <<t, 1>> ELSE last
    BY <1>7 DEF Load, Argument, FieldsTypeOK
  <2>3. UNCHANGED <<call, cut, got>> /\ call[t] \in 1 .. 3
    BY <1>7, <2>1 DEF Load, Stages, Parsing
  <2>4. /\ Others(t) = {} /\ Len(got[t]) = call[t] - 1
        /\ cut[t] = 1 .. call[t] - 1 /\ (call[t] > 1 => last = <<t, call[t]>>)
    BY <1>2, <2>1 DEF Alone, Parsing
  <2>5. pointer'[t] = <<t, call'[t]>>
    BY <2>2, <2>3, <2>4
  <2>. QED
    BY <1>1, <1>3, <2>1, <2>3, <2>4, <2>5 DEF Alone, Parsing
<1>8. CASE Scan(t)
  <2>1. ~Receive(t) /\ stage[t] = "scan" /\ stage'[t] = "save"
    BY <1>8 DEF Scan, Receive, To, FieldsTypeOK
  <2>2. UNCHANGED <<call, got>> /\ call[t] \in 1 .. 3
    BY <1>8, <2>1 DEF Scan, Stages, Parsing
  <2>3. /\ Others(t) = {} /\ Len(got[t]) = call[t] - 1
        /\ cut[t] = 1 .. call[t] - 1 /\ pointer[t] = <<t, call[t]>>
    BY <1>2, <2>1 DEF Alone, Parsing
  <2>4. /\ pointer'[t] = <<t, call[t]>>
        /\ cut'[t] = IF call[t] < 3 THEN cut[t] \union {call[t]} ELSE cut[t]
        /\ call[t] < 3 => rest'[t] = <<t, call[t] + 1>>
    <3>1. \A n \in 1 .. 3 : pointer[t] = <<t, n>> =>
             /\ pointer'[t] = pointer[t]
             /\ cut'[t] = IF n < 3 THEN cut[t] \union {n} ELSE cut[t]
             /\ n < 3 /\ n \notin cut[t] => rest'[t] = <<t, n + 1>>
      BY <1>8, ScanCuts
    <3>2. call[t] \notin cut[t]
      BY <2>2, <2>3
    <3>. QED
      BY <2>2, <2>3, <3>1, <3>2
  <2>5. cut'[t] = 1 .. (IF call[t] < 3 THEN call[t] ELSE 2)
    <3>1. CASE call[t] = 3
      BY <2>3, <2>4, <3>1
    <3>2. CASE call[t] \in 1 .. 2
      <4>1. 1 .. call[t] = (1 .. call[t] - 1) \union {call[t]}
        BY <3>2
      <4>2. call[t] < 3
        BY <3>2
      <4>3. cut'[t] = 1 .. call[t]
        BY <2>3, <2>4, <4>1, <4>2, Zenon
      <4>. QED
        BY <4>2, <4>3
    <3>. QED
      BY <2>2, <3>1, <3>2
  <2>. QED
    BY <1>1, <1>3, <2>1, <2>2, <2>3, <2>4, <2>5 DEF Alone, Parsing
<1>9. CASE Save(t)
  <2>1. ~Receive(t) /\ stage[t] = "save" /\ stage'[t] = IF call[t] < 3 THEN "load" ELSE "check"
    BY <1>9 DEF Save, Receive, To, FieldsTypeOK, StrtokCalls
  <2>2. cut' = cut /\ last' = rest[t] /\ call'[t] = call[t] + 1 /\ call[t] \in 1 .. 3
    BY <1>9, <2>1 DEF Save, Stages, Parsing, FieldsTypeOK
  <2>3. /\ Others(t) = {} /\ Len(got[t]) = call[t] - 1 /\ pointer[t] = <<t, call[t]>>
        /\ cut[t] = 1 .. (IF call[t] < 3 THEN call[t] ELSE 2)
        /\ call[t] < 3 => rest[t] = <<t, call[t] + 1>>
    BY <1>2, <2>1 DEF Alone, Parsing
  <2>4. Len(got'[t]) = call[t]
    <3>. DEFINE answer == <<pointer[t][1], texts[pointer[t][1]], pointer[t][2]>>
    <3>1. pointer[t] # Nowhere
      BY <2>3, FieldsAssumption DEF Nowhere
    <3>2. got'[t] = Append(got[t], answer)
      BY <1>9, <3>1 DEF Save, FieldsTypeOK
    <3>3. got[t] \in Seq(Fields)
      BY DEF FieldsTypeOK
    <3>. HIDE DEF answer
    <3>4. Len(got'[t]) = Len(got[t]) + 1
      BY <3>2, <3>3
    <3>. QED
      BY <2>2, <2>3, <3>4
  <2>5. cut'[t] = 1 .. (IF call[t] < 3 THEN call[t] ELSE 2)
    BY <2>2, <2>3
  <2>. QED
    BY <1>1, <1>3, <2>1, <2>2, <2>3, <2>4, <2>5 DEF Alone, Parsing
<1>10. CASE Break(t)
  <2>1. UNCHANGED <<stage, call, pointer, rest, last, cut, got>> /\ ~Receive(t) /\ ~Begin(t)
    BY <1>10 DEF Break, Receive, Begin, To
  <2>. QED
    BY <1>1, <1>2, <1>3, <2>1 DEF Alone, Parsing
<1>. QED
  BY <1>4, <1>5, <1>6, <1>7, <1>8, <1>9, <1>10 DEF FieldsStep

\* What strtok returns to an undisturbed thread is the field it is due.
LEMMA FieldsOwnNext ==
  ASSUME FieldsTypeOK, Stages, FirstFields, FirstCut, OneAfterTheOther, FieldsOwn,
         NEW t \in Parsers, FieldsStep(t)
  PROVE  FieldsOwn'
<1>1. broken = "none"
  BY DEF FieldsStep, Begin, Clear, Receive, End, Load, Scan, Save, Break, To
<1>2. ASSUME NEW u \in Parsers \ {t}, u \notin overlapped', NEW n \in DOMAIN got'[u]
      PROVE  got'[u][n] = <<u, texts'[u], n>>
  BY <1>2, AloneOther, OthersStay DEF FieldsOwn
<1>3. (Save(t) \/ Break(t)) /\ t \notin overlapped =>
        /\ Len(got[t]) = call[t] - 1 /\ call[t] \in 1 .. 3
        /\ stage[t] = "save" => pointer[t] = <<t, call[t]>>
        /\ stage[t] \in {"scan", "save"} /\ pointer[t] = <<t, call[t]>>
  BY DEF Save, Break, To, OneAfterTheOther, Alone, Parsing, Stages
<1>4. ASSUME t \notin overlapped', NEW n \in DOMAIN got'[t]
      PROVE  got'[t][n] = <<t, texts'[t], n>>
  <2>1. CASE Begin(t) \/ Receive(t)
    <3>1. got'[t] = <<>>
      BY <2>1 DEF Begin, Receive, FieldsTypeOK
    <3>. QED
      BY <1>4, <3>1
  <2>2. CASE Save(t)
    <3>. DEFINE answer == <<pointer[t][1], texts[pointer[t][1]], pointer[t][2]>>
    <3>1. t \notin overlapped /\ texts' = texts
      BY <1>4, <2>2 DEF Save
    <3>2. pointer[t] = <<t, call[t]>> /\ pointer[t] # Nowhere
      BY <1>3, <2>2, <3>1, FieldsAssumption DEF Nowhere
    <3>3. answer = <<t, texts[t], Len(got[t]) + 1>>
      BY <1>3, <2>2, <3>1, <3>2
    <3>4. got'[t] = Append(got[t], answer)
      BY <2>2, <3>2 DEF Save, FieldsTypeOK
    <3>5. got[t] \in Seq(Fields)
      BY DEF FieldsTypeOK
    <3>6. \A m \in DOMAIN got[t] : got[t][m] = <<t, texts[t], m>>
      BY <3>1 DEF FieldsOwn
    <3>. HIDE DEF answer
    <3>7. n \in 1 .. Len(got[t]) + 1 /\ DOMAIN got[t] = 1 .. Len(got[t])
      BY <1>4, <3>4, <3>5
    <3>8. got'[t][n] = IF n <= Len(got[t]) THEN got[t][n] ELSE answer
      BY <3>4, <3>5, <3>7
    <3>. QED
      BY <3>1, <3>3, <3>5, <3>6, <3>7, <3>8
  <2>3. CASE ~Begin(t) /\ ~Receive(t) /\ ~Save(t)
    <3>1. UNCHANGED <<got, texts>> /\ t \notin overlapped
      BY <1>4, <2>3 DEF FieldsStep, Clear, End, Load, Scan, Break
    <3>. QED
      BY <1>4, <3>1 DEF FieldsOwn
  <2>. QED
    BY <2>1, <2>2, <2>3
<1>5. ASSUME broken' # "none" PROVE broken' \in overlapped'
  <2>1. broken' = t /\ overlapped' = overlapped /\ ((Save(t) /\ pointer[t] = Nowhere) \/ Break(t))
    BY <1>1, <1>5 DEF FieldsStep, Begin, Clear, Receive, End, Load, Scan, Save, Break
  <2>2. CASE t \notin overlapped
    <3>1. pointer[t] = <<t, call[t]>> /\ stage[t] \in {"scan", "save"}
      BY <1>3, <2>1, <2>2
    <3>2. pointer[t] # Nowhere /\ pointer[t][1] = t
      BY <3>1, FieldsAssumption DEF Nowhere
    <3>3. t \in released
      BY <2>1, <3>2 DEF Break
    <3>. QED
      BY <3>1, <3>3 DEF Stages
  <2>. QED
    BY <2>1, <2>2
<1>. QED
  BY <1>2, <1>4, <1>5 DEF FieldsOwn

\* A step of any thread, or none, keeps the invariant.
LEMMA FieldsInvNext == FieldsInv /\ [FieldsNext]_fieldsVars => FieldsInv'
<1>1. ASSUME FieldsInv, NEW t \in Parsers, FieldsStep(t) PROVE FieldsInv'
  <2>1. OneAfterTheOther'
    BY <1>1, AloneOther, AloneSelf DEF FieldsInv, OneAfterTheOther
  <2>. QED
    BY <1>1, <2>1, FieldsTypeNext, StagesNext, FirstFieldsNext, FirstCutNext, CouriersMadeNext,
      FieldsOwnNext DEF FieldsInv
<1>2. FieldsNext => \E t \in Parsers : FieldsStep(t)
  BY DEF FieldsNext, FieldsStep
<1>3. CASE UNCHANGED fieldsVars
  <2>. USE <1>3 DEF fieldsVars
  <2>1. (FieldsTypeOK => FieldsTypeOK') /\ (Stages => Stages') /\ (FirstFields => FirstFields')
    BY DEF FieldsTypeOK, Stages, FirstFields, Parsing, Later
  <2>2. (FirstCut => FirstCut') /\ (CouriersMade => CouriersMade') /\ (FieldsOwn => FieldsOwn')
    BY DEF FirstCut, CouriersMade, FieldsOwn, Parsing, Fresh, Validate
  <2>3. OneAfterTheOther => OneAfterTheOther'
    BY DEF OneAfterTheOther, Alone, Fresh, Validate, Parsing, Others
  <2>. QED
    BY <2>1, <2>2, <2>3 DEF FieldsInv
<1>. QED
  BY <1>1, <1>2, <1>3

\* The invariant of the requests' fields, for any number of threads and requests.
THEOREM FieldsInvariant == FieldsSpec => []FieldsInv
BY FieldsInvInit, FieldsInvNext, PTL DEF FieldsSpec

\* Type correctness of the fields of requests.
THEOREM FieldsTypeCorrect == FieldsSpec => []FieldsTypeOK
<1>1. FieldsInv => FieldsTypeOK
  BY DEF FieldsInv
<1>. QED
  BY <1>1, FieldsInvariant, PTL

\* strtok's static variable (courier_manager.c:128-131) mixes up no texts of threads that
\* are not inside it at the same time, for any number of threads and requests.
THEOREM FieldsStayOwn == FieldsSpec => []FieldsOwn
<1>1. FieldsInv => FieldsOwn
  BY DEF FieldsInv
<1>. QED
  BY <1>1, FieldsInvariant, PTL

\* One courier for each request, however the calls interleave.
THEOREM OneCourierEach == FieldsSpec => []OneCourierPerRequest
<1>1. ASSUME FieldsInv PROVE OneCourierPerRequest
  <2>. SUFFICES ASSUME NEW t \in Parsers
                PROVE  couriers[t] <= texts[t] /\ (t \in blank => couriers[t] = texts[t])
    BY DEF OneCourierPerRequest
  <2>1. couriers[t] = (IF Fresh(t) THEN texts[t] - 1 ELSE texts[t]) /\ texts[t] \in Nat
    BY <1>1 DEF FieldsInv, CouriersMade, FieldsTypeOK
  <2>2. t \in blank => ~Fresh(t)
    BY DEF Fresh, Validate
  <2>. QED
    BY <2>1, <2>2
<1>. QED
  BY <1>1, FieldsInvariant, PTL

-----------------------------------------------------------------------------
(* All parts.                                                              *)

PartsInv == ReadyInv /\ QueueInv /\ TimeInv /\ IntakeInv /\ TableInv /\ FieldsInv

\* A step of one part leaves the invariants of the others alone.
LEMMA PartsInvNext == PartsInv /\ [PartsNext]_partVars => PartsInv'
<1>. SUFFICES ASSUME PartsInv, [PartsNext]_partVars PROVE PartsInv'
  OBVIOUS
<1>1. [ReadyNext]_readyVars /\ [TimeNext]_timeVars /\ [IntakeNext]_intakeVars
  BY DEF PartsNext, partVars, InOrders, InIntake
<1>2. [QueueOps]_queueVars /\ [TableNext]_tableVars /\ [FieldsNext]_fieldsVars
  BY DEF PartsNext, partVars, InOrders, InIntake, QueueNext
<1>. QED
  BY <1>1, <1>2, ReadyInvNext, QueueInvNext, TimeInvNext, IntakeInvNext, TableInvNext,
    FieldsInvNext DEF PartsInv

\* All parts keep their invariants next to each other.
THEOREM PartsInvariant == PartsSpec => []PartsInv
<1>1. PartsInit => PartsInv
  BY ReadyInvInit, QueueInvInit, TimeInvInit, IntakeInvInit, TableInvInit, FieldsInvInit
    DEF PartsInit, PartsInv
<1>. QED
  BY <1>1, PartsInvNext, PTL DEF PartsSpec

\* Type correctness of the parts together.
THEOREM PartsTypeCorrect == PartsSpec => []PartsTypeOK
<1>1. PartsInv => PartsTypeOK
  BY DEF PartsInv, PartsTypeOK, ReadyInv, QueueInv, TimeInv, IntakeInv, TableInv, FieldsInv
<1>. QED
  BY <1>1, PartsInvariant, PTL
=============================================================================
