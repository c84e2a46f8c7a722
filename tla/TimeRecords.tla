------------------------------ MODULE TimeRecords ------------------------------
(***************************************************************************)
(* time_manager.c: two arrays of waiting times with a counter each.        *)
(* deliver_order calls add_time_records and then print_time_records, from  *)
(* whatever thread delivers, and the handler of SIGINT prints as well.     *)
(* There is no mutex: a thread loads a counter, stores it incremented and  *)
(* then stores the slot it has loaded, as the build of the repository does *)
(* for s_..._waiting_times[s_..._waiting_times_count++].                   *)
(*                                                                         *)
(* A waiting time is not modelled, only which slots have been written.     *)
(* The arrays have no size here: that the program checks none is what      *)
(* RecordsInArray is about.                                                *)
(***************************************************************************)
EXTENDS Integers, FiniteSets

CONSTANTS Deliveries,  \* the calls of deliver_order
          Interrupts,  \* the calls of SIGINT_handler
          Caller       \* the thread that makes a delivery

ASSUME TimeAssumption ==
  /\ IsFiniteSet(Deliveries)
  /\ Deliveries \intersect Interrupts = {}

Calls == Deliveries \union Interrupts

\* s_courier_waiting_times and s_order_waiting_times.
Lists == {"courier", "order"}

VARIABLES counts,  \* s_courier_waiting_times_count and s_order_waiting_times_count
          stored,  \* the slots of each array that have been written
          doing,   \* the statement a call executes next, and the array it is about
          index    \* the slot it has loaded, or the index of its loop

timeVars == <<counts, stored, doing, index>>

TimeInit ==
  /\ counts = [l \in Lists |-> 0]
  /\ stored = [l \in Lists |-> {}]
  /\ doing = [d \in Calls |-> IF d \in Deliveries THEN <<"load", "courier">>
                                                  ELSE <<"sum", "courier">>]
  /\ index = [d \in Calls |-> 0]

Goto(d, here, there) == doing[d] = here /\ doing' = [doing EXCEPT ![d] = there]

\* A thread delivers one order after the other.
CallerFree(d) ==
  \A e \in Deliveries \ {d} :
    Caller[e] = Caller[d] => doing[e] \in {<<"load", "courier">>, <<"done", "order">>}

\* add_time_records: the counter is read ...
LoadTime(d, l) ==
  /\ Goto(d, <<"load", l>>, <<"count", l>>)
  /\ l = "courier" => CallerFree(d)
  /\ index' = [index EXCEPT ![d] = counts[l]]
  /\ UNCHANGED <<counts, stored>>

\* Faulty variant: the counter is incremented in place, behind the back of a thread
\* that has loaded the same slot.
CountTimeFresh(d, l) ==
  /\ Goto(d, <<"count", l>>, <<"slot", l>>)
  /\ counts' = [counts EXCEPT ![l] = counts[l] + 1]
  /\ UNCHANGED <<stored, index>>

\* Faulty variant: every call counts twice.
CountTimeTwice(d, l) ==
  /\ Goto(d, <<"count", l>>, <<"slot", l>>)
  /\ counts' = [counts EXCEPT ![l] = index[d] + 2]
  /\ UNCHANGED <<stored, index>>

\* ... and written, incremented, whatever it is by now ...
CountTime(d, l) ==
  /\ Goto(d, <<"count", l>>, <<"slot", l>>)
  /\ counts' = [counts EXCEPT ![l] = index[d] + 1]
  /\ UNCHANGED <<stored, index>>

\* ... and then the slot.  print_time_records follows.
StoreTime(d, l) ==
  /\ Goto(d, <<"slot", l>>, IF l = "courier" THEN <<"load", "order">> ELSE <<"sum", "courier">>)
  /\ stored' = [stored EXCEPT ![l] = stored[l] \union {index[d]}]
  /\ index' = [index EXCEPT ![d] = 0]
  /\ UNCHANGED counts

\* print_time_records: slot index[d] is added to the sum.
SumTime(d, l) ==
  /\ Goto(d, <<"sum", l>>, <<"sum", l>>)
  /\ index[d] < counts[l]
  /\ index' = [index EXCEPT ![d] = index[d] + 1]
  /\ UNCHANGED <<counts, stored>>

SumEnd(d, l) ==
  /\ Goto(d, <<"sum", l>>, IF l = "courier" THEN <<"sum", "order">> ELSE <<"check", "courier">>)
  /\ index[d] >= counts[l]
  /\ index' = [index EXCEPT ![d] = 0]
  /\ UNCHANGED <<counts, stored>>

\* print_time_records: both counters are compared with 0 ...
CheckTime(d, l) ==
  /\ Goto(d, <<"check", l>>, IF l = "courier" THEN <<"check", "order">> ELSE <<"divide", "courier">>)
  /\ counts[l] > 0
  /\ UNCHANGED <<counts, stored, index>>

CheckNone(d, l) ==
  /\ Goto(d, <<"check", l>>, <<"done", "order">>)
  /\ counts[l] = 0
  /\ UNCHANGED <<counts, stored, index>>

\* ... and read once more for each division.
DivideTime(d, l) ==
  /\ Goto(d, <<"divide", l>>, IF l = "courier" THEN <<"divide", "order">> ELSE <<"done", "order">>)
  /\ UNCHANGED <<counts, stored, index>>

TimeStep(d, l) ==
  \/ LoadTime(d, l) \/ CountTime(d, l) \/ StoreTime(d, l)
  \/ SumTime(d, l) \/ SumEnd(d, l)
  \/ CheckTime(d, l) \/ CheckNone(d, l) \/ DivideTime(d, l)

TimeNext == \E d \in Calls, l \in Lists : TimeStep(d, l)

TimeSpec == TimeInit /\ [][TimeNext]_timeVars

-----------------------------------------------------------------------------
Total == Cardinality(Deliveries)

TimeTypeOK ==
  /\ counts \in [Lists -> 0 .. Total]
  /\ stored \in [Lists -> SUBSET (0 .. Total)]
  /\ doing \in [Calls -> ({"load", "count", "slot", "sum", "check", "divide"} \X Lists)
                           \union {<<"done", "order">>}]
  /\ index \in [Calls -> 0 .. Total]

\* However the unsynchronised increments overlap, every slot below a counter has
\* been written, or the thread that is about to write it has already loaded it: once
\* the deliveries are over, no average includes a slot that nobody wrote.
Recorded(l, i) ==
  \/ i \in stored[l]
  \/ \E d \in Deliveries : doing[d] = <<"slot", l>> /\ index[d] = i

CountedRecorded == \A l \in Lists : \A i \in 0 .. counts[l] - 1 : Recorded(l, i)

\* A lost update lowers a counter but never raises it: no thread loads a slot behind as
\* many slots as there are deliveries.  So 1000 deliveries do not overrun the arrays of
\* time_manager.c:7 and 10, though nothing checks their size.
RecordsInArray ==
  \A d \in Deliveries, l \in Lists :
    doing[d] \in {<<"count", l>>, <<"slot", l>>} => index[d] < Total

\* The counters are read again after their check, for the divisions at lines 34 and
\* 35, and by then another thread may have written an older value: it is never 0.
AveragesDefined ==
  \A d \in Calls, l \in Lists : doing[d] = <<"divide", l>> => counts[l] > 0

\* What a thread does with a counter that others write without a mutex stays in range at
\* both ends: it stores no slot behind the array and divides by no counter that is 0.
CountersInRange == RecordsInArray /\ AveragesDefined
=============================================================================
