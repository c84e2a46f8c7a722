----------------------------- MODULE MCServerParts -----------------------------
(***************************************************************************)
(* TLC instance of the parts of order_process_server that stand alone: the *)
(* list of orders, the circular queue of couriers, the waiting times, the  *)
(* order intake, the table of sockets and the fields of requests.  Each    *)
(* behaviour is one of a single part, under every schedule of the part's   *)
(* callers, and leaves the others in their initial state.                  *)
(*                                                                         *)
(* The list has fewer slots than there are orders and the queue fewer      *)
(* cells than couriers, so that both are full and the list is overrun.     *)
(* Both use the same threads; of these, one pops orders and two use the    *)
(* queue.  No symmetry, the run checks refinements and liveness.           *)
(***************************************************************************)
EXTENDS ReadyOrders, RandomCourierQueue, TimeRecords, OrderIntake, ClientTable, RequestFields

CONSTANTS o1, o2, o3, o4, k1, c1, c2, c3, c4, d1, d2, d3, e1, e2

VARIABLE part  \* the part that moves

partVars == <<part, readyVars, queueVars, timeVars, intakeVars, tableVars, fieldsVars>>

MCCaller == [d \in Deliveries |-> IF d = d2 THEN e2 ELSE e1]

\* An order file that is missing, one that is read to its end, and one with an entry
\* that is no order.
MCFiles == {<<>>, <<"whole", "whole", "whole">>, <<"whole", "partial", "whole">>}

PartsInit ==
  /\ part \in {"orders", "queue", "times", "intake", "table", "fields"}
  /\ ReadyInit /\ QueueInit /\ TimeInit /\ IntakeInit /\ TableInit /\ FieldsInit
  /\ part # "intake" => file = <<>> /\ lateness = 0

InOrders(A) ==
  part = "orders" /\ A /\ UNCHANGED <<part, queueVars, timeVars, intakeVars, tableVars, fieldsVars>>

InIntake(A) ==
  part = "intake" /\ A /\ UNCHANGED <<part, readyVars, queueVars, timeVars, tableVars, fieldsVars>>

PartsNext ==
  \/ InOrders(ReadyNext)
  \/ /\ part = "queue"
     /\ QueueNext
     /\ \A t \in Threads \ {o1, k1} : at'[t] = "idle"
     /\ UNCHANGED <<part, readyVars, timeVars, intakeVars, tableVars, fieldsVars>>
  \/ /\ part = "times"
     /\ TimeNext
     /\ UNCHANGED <<part, readyVars, queueVars, intakeVars, tableVars, fieldsVars>>
  \/ InIntake(IntakeNext)
  \/ /\ part = "table"
     /\ TableNext
     /\ UNCHANGED <<part, readyVars, queueVars, timeVars, intakeVars, fieldsVars>>
  \/ /\ part = "fields"
     /\ FieldsNext
     /\ UNCHANGED <<part, readyVars, queueVars, timeVars, intakeVars, tableVars>>

\* The fairness of FairReadySpec and FairIntakeSpec.
PartsSpec ==
  /\ PartsInit /\ [][PartsNext]_partVars
  /\ \A o \in Orders : WF_partVars(InOrders(AddOrderStore(o)))
  /\ WF_partVars(InIntake(LoopStep))
  /\ WF_partVars(InIntake(Second))
  /\ WF_partVars(InIntake(\E c \in 1 .. Count : CookStarts(c)))

-----------------------------------------------------------------------------
\* Types, of each part: the variables hold what the code can store in them.
PartsTypeOK ==
  ReadyTypeOK /\ QueueTypeOK /\ TimeTypeOK /\ IntakeTypeOK /\ TableTypeOK /\ FieldsTypeOK

\* Until a connection has ended, the table holds the open connections that were counted,
\* and the handler of SIGINT (server.c:71) closes these and no other descriptor.
TableOfOpenSockets == TableHoldsThem /\ HandlerClosesThem
=============================================================================
