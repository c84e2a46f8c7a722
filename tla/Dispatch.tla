------------------------------- MODULE Dispatch -------------------------------
(***************************************************************************)
(* What order_process_server promises to the people it serves with         *)
(* couriers for any order: a prepared order is handed to a courier that    *)
(* has arrived, and no order and no courier is served twice.  The first    *)
(* client to disconnect destroys the mutex of the queue of couriers;       *)
(* nothing is promised from then on.                                       *)
(***************************************************************************)
EXTENDS FiniteSets

CONSTANTS Orders, Couriers

VARIABLES prepared,  \* the orders whose preparation time is over
          arrived,   \* the couriers whose travelling time is over
          served,    \* the pairs <<courier, order>> handed over
          promised   \* nobody has disconnected

dispatchVars == <<prepared, arrived, served, promised>>

DispatchInit ==
  /\ prepared = {}
  /\ arrived = {}
  /\ served = {}
  /\ promised = TRUE

Prepare(o) ==
  /\ promised
  /\ prepared' = prepared \union {o}
  /\ UNCHANGED <<arrived, served, promised>>

Arrive(c) ==
  /\ promised
  /\ c \notin arrived
  /\ arrived' = arrived \union {c}
  /\ UNCHANGED <<prepared, served, promised>>

Serve(c, o) ==
  /\ promised
  /\ c \in arrived
  /\ o \in prepared
  /\ \A s \in served : s[1] # c /\ s[2] # o
  /\ served' = served \union {<<c, o>>}
  /\ UNCHANGED <<prepared, arrived, promised>>

Abandon ==
  /\ promised
  /\ promised' = FALSE
  /\ UNCHANGED <<prepared, arrived, served>>

\* Whatever happens, once nothing is promised.
Unpromised == ~promised /\ promised' = FALSE

DispatchNext ==
  \/ \E o \in Orders : Prepare(o)
  \/ \E c \in Couriers : Arrive(c)
  \/ \E c \in Couriers, o \in Orders : Serve(c, o)
  \/ Abandon
  \/ Unpromised

DispatchSpec == DispatchInit /\ [][DispatchNext]_dispatchVars
=============================================================================
