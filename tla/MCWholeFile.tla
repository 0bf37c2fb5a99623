----------------------------- MODULE MCWholeFile -----------------------------
(***************************************************************************)
(* WholeFile with two processes and a disk that is full after three bytes. *)
(***************************************************************************)
EXTENDS WholeFile, TLC

(* Contents that are empty, that fit on the disk twice, and that do not.  *)
MCLengths == 0..2

MCInitially == {<<>>} \cup {<<p>> : p \in Procs}

Symmetry == Permutations(Procs)
=============================================================================
