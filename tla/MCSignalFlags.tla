---------------------------- MODULE MCSignalFlags ----------------------------
(***************************************************************************)
(* SignalFlags with signals 1..5: 1 and 2 are ordinary (2 is harmless, as  *)
(* SIGCHLD is), 3 cannot be caught (as SIGKILL), 4 has the last flag and 5 *)
(* is a kernel signal beyond the flags (as 64 is).                         *)
(***************************************************************************)
EXTENDS SignalFlags

MCSignalArgs == -1..6
=============================================================================
