----------------------------- MODULE MCJsonObject -----------------------------
(***************************************************************************)
(* TLC instance of JsonObject: four names of one byte in tables of 2, 4    *)
(* and 8 cells, which have room for 1, 2 and 5 members.  "b" and "B" have  *)
(* the same hash, "j" has another one with the same home (the last cell of *)
(* every table), and "c" is at home in the first cell, where the probes of *)
(* the others go on.                                                       *)
(***************************************************************************)
EXTENDS JsonObject

MCNames == {<<98>>, <<66>>, <<106>>, <<99>>}
=============================================================================
