--------------------------- MODULE MCOrderProcessing ---------------------------
(***************************************************************************)
(* TLC instances of OrderProcessing: small kitchens with couriers for any  *)
(* order (r1, r2) and couriers for a named one (x1 wants o1, x2 wants o2,  *)
(* or o1 as well where that is the only order).                            *)
(***************************************************************************)
EXTENDS OrderProcessing

CONSTANTS o1, o2, x1, x2, r1, r2

MCTarget == [c \in Couriers |-> CASE c = x1 -> o1
                                    [] c = x2 -> IF o2 \in Orders THEN o2 ELSE o1
                                    [] OTHER -> NULL]
=============================================================================
