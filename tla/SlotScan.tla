------------------------------ MODULE SlotScan ------------------------------
(***************************************************************************)
(* The allocation idiom every fixed pool of aria-libc uses: scan the slots *)
(* from index 0 and take the first one that passes the test.               *)
(***************************************************************************)
EXTENDS Integers

(* The index at which a scan for a member of the non-empty set S stops.    *)
FirstOf(S) == CHOOSE i \in S : \A j \in S : i <= j
=============================================================================
