------------------------------ MODULE MCIoPools ------------------------------
(***************************************************************************)
(* IoPools with two clients, two buffers of one or two bytes, and two      *)
(* directories; one block and one stream more than slots.                  *)
(***************************************************************************)
EXTENDS IoPools, TLC

MCCapacityArgs == {-1, 1}
MCCountArgs == {-1, 1, 3}
MCStrayHandles == {-1, 2}

Symmetry == Permutations(Clients) \cup Permutations(Blocks)
            \cup Permutations(Streams) \cup Permutations(Bytes)
=============================================================================
