----------------------------- MODULE MCChildWait -----------------------------
(***************************************************************************)
(* ChildWait with two pids and three children, so that a pid is reused.    *)
(* No run uses symmetry: one of the properties is a liveness property.     *)
(***************************************************************************)
EXTENDS ChildWait
=============================================================================
