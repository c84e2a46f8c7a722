------------------------------ MODULE OrderIntake ------------------------------
(***************************************************************************)
(* order_manager.c: process_orders reads the order file and creates a cook *)
(* thread for each order, one second apart.  What it hands to a cook is    *)
(* the address of its local variable order, which the next turn of the     *)
(* loop overwrites and which is gone once the thread has ended: nothing    *)
(* but sleep(1) gives the cook the time to read it.                        *)
(*                                                                         *)
(* Time is counted in seconds, from one call of sleep to its return.       *)
(* lateness is how many of them a new thread may be kept from its first    *)
(* statement, and a number the scheduler chooses.  An order is named by    *)
(* its place in the file, as is the cook created for it.                   *)
(***************************************************************************)
EXTENDS Integers, Sequences

CONSTANTS Files,         \* the order files, each a sequence of "whole" and "partial" entries
          MAX_LATENESS   \* bound of lateness

ASSUME IntakeAssumption ==
  /\ \A f \in Files : f \in Seq({"whole", "partial"})
  /\ MAX_LATENESS \in Nat

\* malloc has returned no memory.
NoOrder == 0

VARIABLES
  file,      \* the entries of the array the file parses to
  lateness,
  loop,      \* the statement process_orders executes next
  next,      \* its i, counted from 1
  order,     \* its local variable of that name
  heap,      \* the order_t objects: not allocated, without their fields, or complete
  asleep,    \* the seconds sleep(1) still takes
  cook,      \* where each cook thread is
  waited,    \* the seconds a created cook has been kept from its first statement
  taken,     \* the order a cook has read, and what was in it by then
  unmade     \* the orders pthread_create failed for

intakeVars == <<file, lateness, loop, next, order, heap, asleep, cook, waited, taken, unmade>>

Count == Len(file)

\* A file that is missing, or holds no array, has no entries: json_array_get_count
\* of NULL is 0.
IntakeInit ==
  /\ file \in Files
  /\ lateness \in 0 .. MAX_LATENESS
  /\ loop = "test"
  /\ next = 1
  /\ order = NoOrder
  /\ heap = [k \in 1 .. Count |-> "none"]
  /\ asleep = 0
  /\ cook = [k \in 1 .. Count |-> "none"]
  /\ waited = [k \in 1 .. Count |-> 0]
  /\ taken = [k \in 1 .. Count |-> <<NoOrder, "none">>]
  /\ unmade = {}

Running == loop # "crashed"

\* i < json_arr_count
MoreOrders == next <= Count

\* order = malloc(sizeof(order_t))
Allocate ==
  /\ loop = "test" /\ MoreOrders
  /\ \/ order' = next /\ heap' = [heap EXCEPT ![next] = "raw"]
     \/ order' = NoOrder /\ UNCHANGED heap
  /\ loop' = "fill"
  /\ UNCHANGED <<file, lateness, next, asleep, cook, waited, taken, unmade>>

\* strncpy of the two strings of the entry, and its prepTime.
Fill ==
  /\ loop = "fill" /\ order # NoOrder /\ file[next] = "whole"
  /\ heap' = [heap EXCEPT ![order] = "complete"]
  /\ loop' = "create"
  /\ UNCHANGED <<file, lateness, next, order, asleep, cook, waited, taken, unmade>>

\* An entry that is no object, or whose id or name is no string, makes strncpy read from
\* NULL; without memory it writes there.
FillCrash ==
  /\ loop = "fill" /\ (order = NoOrder \/ file[next] = "partial")
  /\ loop' = "crashed"
  /\ UNCHANGED <<file, lateness, next, order, heap, asleep, cook, waited, taken, unmade>>

\* Faulty variant: without sleep(1).
CreateUnslept ==
  /\ loop = "create"
  /\ loop' = "sleep"
  /\ \/ cook' = [cook EXCEPT ![next] = "created"] /\ UNCHANGED unmade
     \/ unmade' = unmade \union {next} /\ UNCHANGED cook
  /\ UNCHANGED <<file, lateness, next, order, heap, asleep, waited, taken>>

\* pthread_create(..., prepare, &order), whose failure nobody notices, and sleep(1).
CreateCook ==
  /\ loop = "create"
  /\ loop' = "sleep"
  /\ \/ cook' = [cook EXCEPT ![next] = "created"] /\ UNCHANGED unmade
     \/ unmade' = unmade \union {next} /\ UNCHANGED cook
  /\ asleep' = 1
  /\ UNCHANGED <<file, lateness, next, order, heap, waited, taken>>

WakeUp ==
  /\ loop = "sleep" /\ asleep = 0
  /\ loop' = "test"
  /\ next' = next + 1
  /\ UNCHANGED <<file, lateness, order, heap, asleep, cook, waited, taken, unmade>>

\* pthread_exit: the variable order is on a stack that may be given back.
IntakeExit ==
  /\ loop = "test" /\ ~MoreOrders
  /\ loop' = "exited"
  /\ UNCHANGED <<file, lateness, next, order, heap, asleep, cook, waited, taken, unmade>>

-----------------------------------------------------------------------------
\* Faulty variant: the address is read after prep_time seconds only, as other code does
\* that keeps p until it needs the order.
CookStartsAsleep(c) ==
  /\ Running
  /\ cook[c] = "created" /\ waited[c] > 0 /\ order # NoOrder
  /\ taken' = [taken EXCEPT ![c] = <<order, heap[order]>>]
  /\ cook' = [cook EXCEPT ![c] = "cooking"]
  /\ UNCHANGED <<file, lateness, loop, next, order, heap, asleep, waited, unmade>>

\* prepare: order = *(order_t**)p, and order->prep_time.
CookStarts(c) ==
  /\ Running
  /\ cook[c] = "created" /\ order # NoOrder
  /\ taken' = [taken EXCEPT ![c] = <<order, heap[order]>>]
  /\ cook' = [cook EXCEPT ![c] = "cooking"]
  /\ UNCHANGED <<file, lateness, loop, next, order, heap, asleep, waited, unmade>>

\* The same on a stack that is gone, or with an order that is NULL.
CookCrashes(c) ==
  /\ Running
  /\ cook[c] = "created" /\ (loop = "exited" \/ order = NoOrder)
  /\ loop' = "crashed"
  /\ UNCHANGED <<file, lateness, next, order, heap, asleep, cook, waited, taken, unmade>>

Created == {c \in 1 .. Count : cook[c] = "created"}

\* A second passes: no thread is kept longer than lateness.
Second ==
  /\ Running
  /\ asleep > 0 \/ Created # {}
  /\ \A c \in Created : waited[c] < lateness
  /\ asleep' = IF asleep > 0 THEN asleep - 1 ELSE 0
  /\ waited' = [c \in 1 .. Count |-> waited[c] + (IF c \in Created THEN 1 ELSE 0)]
  /\ UNCHANGED <<file, lateness, loop, next, order, heap, cook, taken, unmade>>

LoopStep ==
  Allocate \/ Fill \/ FillCrash \/ CreateCook \/ WakeUp \/ IntakeExit

IntakeNext ==
  \/ LoopStep
  \/ \E c \in 1 .. Count : CookStarts(c) \/ CookCrashes(c)
  \/ Second

IntakeSpec == IntakeInit /\ [][IntakeNext]_intakeVars

-----------------------------------------------------------------------------
Heap == {"none", "raw", "complete"}

IntakeTypeOK ==
  /\ file \in Files
  /\ lateness \in 0 .. MAX_LATENESS
  /\ loop \in {"test", "fill", "create", "sleep", "exited", "crashed"}
  /\ next \in 1 .. Count + 1
  /\ order \in 0 .. Count
  /\ heap \in [1 .. Count -> Heap]
  /\ asleep \in 0 .. 1
  /\ cook \in [1 .. Count -> {"none", "created", "cooking"}]
  /\ waited \in [1 .. Count -> 0 .. MAX_LATENESS]
  /\ taken \in [1 .. Count -> (0 .. Count) \X Heap]
  /\ unmade \subseteq 1 .. Count

\* Threads that get to their first statement within the second process_orders sleeps
\* (order_manager.c:82) cook the order they were created for, and find it complete; a
\* thread that does not may cook a later one, which then has two cooks, but never an
\* earlier one again.
OrderOfItsOwn ==
  \A c \in 1 .. Count : cook[c] = "cooking" =>
    IF lateness = 0 THEN taken[c] = <<c, "complete">> ELSE taken[c][1] >= c

Cooked(k) == \E c \in 1 .. Count : taken[c] = <<k, "complete">>

\* If new threads start within that second, each order of the file gets its cook, unless
\* pthread_create fails for it or something crashes.  Fairness: process_orders and every
\* cook are threads the system schedules, and sleep returns.
OrdersCooked ==
  <>(\/ ~Running \/ lateness > 0
     \/ \A k \in 1 .. Count \ unmade : Cooked(k))

FairIntakeSpec ==
  /\ IntakeSpec
  /\ WF_intakeVars(LoopStep)
  /\ WF_intakeVars(Second)
  /\ WF_intakeVars(\E c \in 1 .. Count : CookStarts(c))
=============================================================================
