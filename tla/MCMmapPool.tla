----------------------------- MODULE MCMmapPool -----------------------------
(***************************************************************************)
(* MmapPool on a small instance: two clients, two slots, three address     *)
(* ranges (one more than slots, so that the pool can be full while the     *)
(* kernel can still map), words of two bytes in an 8-value int64.          *)
(***************************************************************************)
EXTENDS MmapPool, TLC

MCLengthArgs == {-1, 0, 1, 2}
MCOffsetArgs == {-1, 0, 1, 7}
MCSizeArgs == {-1, 2, 7}
MCStringLengths == {2, 7}
MCStrayHandles == {-1, 10}

Symmetry == Permutations(Clients) \cup Permutations(Regions)
=============================================================================
