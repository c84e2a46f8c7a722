------------------------------- MODULE JsonNull -------------------------------
(***************************************************************************)
(* parson.c: the pointer that a call returns when it fails, and that a     *)
(* caller may pass where the code looks for it.                            *)
(***************************************************************************)
CONSTANT NULL
=============================================================================
