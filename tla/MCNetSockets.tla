---------------------------- MODULE MCNetSockets ----------------------------
(***************************************************************************)
(* NetSockets on a small instance: two processes and three sockets (a      *)
(* listener and the two ends of a connection), one byte in flight.         *)
(***************************************************************************)
EXTENDS NetSockets, TLC

MCLengthArgs == {-1, 0, 1}
Symmetry == Permutations(Procs) \cup Permutations(Sockets)
=============================================================================
