---------------------------- MODULE MCMemBlocks ----------------------------
(***************************************************************************)
(* MemBlocks with two blocks of at most three bytes and two letters: a     *)
(* string can fill a block, or its letters, or leave stale bytes behind    *)
(* its final zero.                                                         *)
(***************************************************************************)
EXTENDS MemBlocks, TLC

Symmetry == Permutations(Blocks) \cup Permutations(Letters)
=============================================================================
