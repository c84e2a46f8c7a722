----------------------------- MODULE MCConnections -----------------------------
(***************************************************************************)
(* Connections for TLC: two clients, one of which writes two requests;     *)
(* each asks for couriers or for something else.                           *)
(***************************************************************************)
EXTENDS Connections

CONSTANTS k1, k2

TwoClients == {k1, k2}
TwoOne == [k \in TwoClients |-> IF k = k1 THEN 2 ELSE 1]
=============================================================================
