---------------------------- MODULE HandleTable ----------------------------
(***************************************************************************)
(* What every handle pool of aria-libc promises (the mmap pool, the read   *)
(* buffers, the directory, glob and regex pools): a handle stands for one  *)
(* resource from the call that returned it to the call that released it,   *)
(* no two handles stand for the same resource, and a resource that is      *)
(* still held behind no handle is one whose release failed.                *)
(*                                                                         *)
(* The module is the abstract specification: the detailed pools implement  *)
(* it under a refinement mapping.                                          *)
(***************************************************************************)
CONSTANTS
  Handles,    (* the integers a pool may hand out                          *)
  Resources,  (* what a handle can stand for: mappings, DIR pointers, ...  *)
  NoResource  (* the value of a handle that stands for nothing             *)

VARIABLES
  bound,      (* the resource each handle stands for                       *)
  live,       (* the resources obtained and not given back                 *)
  lost        (* the live resources whose release failed                   *)

tableVars == <<bound, live, lost>>

Bound == {bound[h] : h \in Handles} \ {NoResource}

Init ==
  /\ bound = [h \in Handles |-> NoResource]
  /\ live = {}
  /\ lost = {}

(* A fresh resource goes behind a handle that stands for nothing.          *)
Open(h, r) ==
  /\ bound[h] = NoResource
  /\ r \notin live
  /\ bound' = [bound EXCEPT ![h] = r]
  /\ live' = live \cup {r}
  /\ UNCHANGED lost

(* The handle's resource is given back and the handle stands for nothing.  *)
Close(h) ==
  /\ bound[h] # NoResource
  /\ live' = live \ {bound[h]}
  /\ bound' = [bound EXCEPT ![h] = NoResource]
  /\ UNCHANGED lost

(* The release failed: the handle is gone all the same.                    *)
CloseFails(h) ==
  /\ bound[h] # NoResource
  /\ lost' = lost \cup {bound[h]}
  /\ bound' = [bound EXCEPT ![h] = NoResource]
  /\ UNCHANGED live

(* A resource is obtained, no handle is left for it, its release fails.    *)
OpenLoses(r) ==
  /\ r \notin live
  /\ \A h \in Handles : bound[h] # NoResource
  /\ live' = live \cup {r}
  /\ lost' = lost \cup {r}
  /\ UNCHANGED bound

Next ==
  \/ \E h \in Handles, r \in Resources : Open(h, r)
  \/ \E h \in Handles : Close(h) \/ CloseFails(h)
  \/ \E r \in Resources : OpenLoses(r)

Spec == Init /\ [][Next]_tableVars

-----------------------------------------------------------------------------

TableTypeOK ==
  /\ bound \in [Handles -> Resources \cup {NoResource}]
  /\ live \subseteq Resources
  /\ lost \subseteq Resources

(* Two handles of one pool never stand for the same resource, so releasing *)
(* one cannot pull the resource from under the other.                      *)
OneHandlePerResource ==
  \A g, h \in Handles :
    bound[g] = bound[h] /\ bound[g] # NoResource => g = h

(* Every live resource is behind a handle or was lost by a failed release, *)
(* never both: nothing else leaks.                                         *)
EveryResourceAccounted ==
  /\ live = Bound \cup lost
  /\ Bound \cap lost = {}
=============================================================================
