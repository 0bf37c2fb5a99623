------------------------------- MODULE IoPools -------------------------------
(***************************************************************************)
(* The two pools of src/shim/aria_libc_io.c: the read buffers (lines       *)
(* 119-228), through which Aria code reads and writes bytes it cannot      *)
(* address, and the directory streams (lines 328-384). Several clients,    *)
(* parts of one single-threaded program, share the pools; one action is    *)
(* one call.                                                               *)
(*                                                                         *)
(* What a descriptor delivers is any bytes; malloc delivers a block that   *)
(* holds junk. The other calls of the file are one system call each and    *)
(* touch nothing here but last_errno. The entries of a directory are left  *)
(* to the C library.                                                       *)
(***************************************************************************)
EXTENDS Integers, Sequences, SlotScan

(* A definition whose name has the form Action_Slip is a wrong version of  *)
(* the Action below it; the properties are checked to notice each one.     *)

CONSTANTS
  Clients,      (* the parts of the program that use the pools             *)
  MaxBuffers,   (* MAX_BUFFERS                                             *)
  MaxDirs,      (* MAX_DIRS                                                *)
  Blocks,       (* the heap blocks malloc can return                       *)
  MaxSize,      (* the size of the largest block there is memory for       *)
  DefaultBuf,   (* DEFAULT_BUF                                             *)
  Streams,      (* the DIR pointers opendir can return                     *)
  Bytes,        (* what descriptors deliver                                *)
  CapacityArgs, (* the capacities clients ask for                          *)
  CountArgs,    (* the byte counts clients pass                            *)
  StrayHandles, (* handle arguments that no call returned                  *)
  NULL, Junk

BufferSlots == 0..(MaxBuffers - 1)
DirSlots == 0..(MaxDirs - 1)

ASSUME IoAssumption ==
  /\ MaxBuffers \in Nat \ {0}
  /\ MaxDirs \in Nat \ {0}
  /\ MaxSize \in Nat
  /\ DefaultBuf \in Nat \ {0}
  /\ CapacityArgs \subseteq Int
  /\ CountArgs \subseteq Int
  /\ StrayHandles \subseteq Int \ (BufferSlots \cup DirSlots)
  /\ NULL \notin Blocks \cup Streams
  /\ Junk \notin Bytes

VARIABLES
  buffers,     (* the slots of the buffer pool                             *)
  dir_handles, (* the slots of the directory pool                          *)
  last_errno,  (* the shim's sticky error, "none" after a success          *)
  allocated,   (* heap: the blocks malloc has returned and free has not    *)
               (* been given                                               *)
  size,        (* heap: the size each block was asked for with             *)
  heap,        (* heap: what each block holds                              *)
  open,        (* C library: the directory streams that are open           *)
  held,        (* clients: the buffers each one believes it owns           *)
  heldDirs,    (* clients: the directories each one believes it owns       *)
  delivered,   (* history: what the last read of its owner through each    *)
               (* buffer has delivered                                     *)
  stray,       (* history: an access has left its block                    *)
  foreign      (* history: bytes were handed out that the owner's last     *)
               (* read did not deliver                                     *)

heapVars == <<allocated, size, heap>>
clientVars == <<held, heldDirs, delivered>>
historyVars == <<stray, foreign>>
vars == <<buffers, dir_handles, last_errno, heapVars, open, clientVars,
          historyVars>>

FreeBuffer == [data |-> NULL, capacity |-> 0, used |-> 0, active |-> FALSE]

Init ==
  /\ buffers = [i \in BufferSlots |-> FreeBuffer]
  /\ dir_handles = [i \in DirSlots |-> NULL]
  /\ last_errno = "none"
  /\ allocated = {}
  /\ size = [b \in Blocks |-> 0]
  /\ heap = [b \in Blocks |-> [k \in 1..MaxSize |-> Junk]]
  /\ open = {}
  /\ held = [c \in Clients |-> {}]
  /\ heldDirs = [c \in Clients |-> {}]
  /\ delivered = [i \in BufferSlots |-> <<>>]
  /\ stray = FALSE
  /\ foreign = FALSE

Least(m, n) == IF m <= n THEN m ELSE n

IsPrefixOf(s, t) == Len(s) <= Len(t) /\ s = SubSeq(t, 1, Len(s))

-----------------------------------------------------------------------------

(* A call that touches nothing but last_errno: one that finds its          *)
(* arguments wrong or fails, and one that succeeds and changes no pool.    *)
OnlyErrno(errno) ==
  /\ last_errno' = errno
  /\ UNCHANGED <<buffers, dir_handles, heapVars, open, clientVars,
                 historyVars>>

(* open, close, write_string and seek; then the stat calls, mkdir, rmdir,  *)
(* unlink and rename (stat_exists does not touch even last_errno).         *)
DescriptorCall == \E errno \in {"none", "EINVAL", "kernel"} : OnlyErrno(errno)
PathCall == \E errno \in {"none", "kernel"} : OnlyErrno(errno)

-----------------------------------------------------------------------------
(* The buffer pool.                                                        *)

Active(h) == h \in BufferSlots /\ buffers[h].active

BadBuffer(h) == ~Active(h) /\ OnlyErrno("EINVAL")

FreeBuffers_ActiveIgnored == BufferSlots
FreeBuffers == {i \in BufferSlots : ~buffers[i].active}

Capacity_AsAsked(arg) == arg
Capacity(arg) == IF arg <= 0 THEN DefaultBuf ELSE arg

(* malloc of n bytes returns block b.                                      *)
Mallocs(b, n) ==
  /\ b \in Blocks \ allocated
  /\ n <= MaxSize
  /\ allocated' = allocated \cup {b}
  /\ size' = [size EXCEPT ![b] = n]

(* buf_create: a block for the first slot that is not active ...           *)
BufCreate(c, arg) ==
  LET i == FirstOf(FreeBuffers)
      capacity == Capacity(arg)
  IN
  /\ FreeBuffers # {}
  /\ \E b \in Blocks :
       /\ Mallocs(b, capacity)
       /\ buffers' = [buffers EXCEPT ![i] =
            [data |-> b, capacity |-> capacity, used |-> 0, active |-> TRUE]]
  /\ held' = [held EXCEPT ![c] = @ \cup {i}]
  /\ delivered' = [delivered EXCEPT ![i] = <<>>]
  /\ last_errno' = "none"
  /\ UNCHANGED <<dir_handles, heap, open, heldDirs, historyVars>>

(* ... unless there is no memory, or no slot.                              *)
BufCreateFails == OnlyErrno("ENOMEM")

BufRelease_StaysActive(c, h) ==
  /\ Active(h)
  /\ allocated' = allocated \ {buffers[h].data}
  /\ size' = [size EXCEPT ![buffers[h].data] = 0]
  /\ heap' = [heap EXCEPT ![buffers[h].data] = [k \in 1..MaxSize |-> Junk]]
  /\ buffers' = [buffers EXCEPT ![h].used = 0]
  /\ held' = [held EXCEPT ![c] = @ \ {h}]
  /\ delivered' = [delivered EXCEPT ![h] = <<>>]
  /\ last_errno' = "none"
  /\ UNCHANGED <<dir_handles, open, heldDirs, historyVars>>

(* buf_release                                                             *)
BufRelease(c, h) ==
  /\ Active(h)
  /\ allocated' = allocated \ {buffers[h].data}
  /\ size' = [size EXCEPT ![buffers[h].data] = 0]
  /\ heap' = [heap EXCEPT ![buffers[h].data] = [k \in 1..MaxSize |-> Junk]]
  /\ buffers' = [buffers EXCEPT ![h] = FreeBuffer]
  /\ held' = [held EXCEPT ![c] = @ \ {h}]
  /\ delivered' = [delivered EXCEPT ![h] = <<>>]
  /\ last_errno' = "none"
  /\ UNCHANGED <<dir_handles, open, heldDirs, historyVars>>

ReadCount_ClampForgotten(h, count) == count

(* The count read asks the kernel for.                                     *)
ReadCount(h, count) == Least(count, buffers[h].capacity)

(* read: the kernel stores what the descriptor delivers in the buffer.     *)
Read(h, count) ==
  LET b == buffers[h].data IN
  /\ Active(h)
  /\ \E n \in 0..ReadCount(h, count) : \E s \in [1..n -> Bytes] :
       /\ heap' = [heap EXCEPT ![b] =
            [k \in 1..MaxSize |-> IF k <= n THEN s[k] ELSE heap[b][k]]]
       /\ buffers' = [buffers EXCEPT ![h].used = n]
       /\ delivered' = [delivered EXCEPT ![h] = s]
       /\ stray' = (stray \/ n > size[b])
  /\ last_errno' = "none"
  /\ UNCHANGED <<dir_handles, allocated, size, open, held, heldDirs, foreign>>

ReadFails_UsedKept(h) ==
  /\ Active(h)
  /\ delivered' = [delivered EXCEPT ![h] = <<>>]
  /\ last_errno' = "kernel"
  /\ UNCHANGED <<buffers, dir_handles, heapVars, open, held, heldDirs,
                 historyVars>>

(* A read that fails, as every one of a negative count does (as a size_t   *)
(* it is more than the kernel reads).                                      *)
ReadFails(h) ==
  /\ Active(h)
  /\ buffers' = [buffers EXCEPT ![h].used = 0]
  /\ delivered' = [delivered EXCEPT ![h] = <<>>]
  /\ last_errno' = "kernel"
  /\ UNCHANGED <<dir_handles, heapVars, open, held, heldDirs, historyVars>>

(* The first n bytes of the buffer are handed out.                         *)
HandsOut(h, n) ==
  LET b == buffers[h].data
      s == [k \in 1..n |-> heap[b][k]]
  IN
  /\ Active(h)
  /\ n <= MaxSize
  /\ stray' = (stray \/ n > size[b])
  /\ foreign' = (foreign \/ ~IsPrefixOf(s, delivered[h]))
  /\ last_errno' = "none"
  /\ UNCHANGED <<buffers, dir_handles, heapVars, open, clientVars>>

(* write_bytes: at most what was read, of which the kernel takes a part;   *)
(* a negative count is refused by the kernel.                              *)
WriteBytes(h, count) ==
  \/ count >= 0 /\ HandsOut(h, Least(count, buffers[h].used))
  \/ Active(h) /\ OnlyErrno("kernel")

(* buf_to_string; buf_size only tells how much that is.                    *)
BufToString(h) ==
  \/ HandsOut(h, buffers[h].used)
  \/ Active(h) /\ OnlyErrno("ENOMEM")

-----------------------------------------------------------------------------
(* The directory pool.                                                     *)

IsOpen(h) == h \in DirSlots /\ dir_handles[h] # NULL

BadDir(h) == ~IsOpen(h) /\ OnlyErrno("EINVAL")

FreeDirs == {i \in DirSlots : dir_handles[i] = NULL}

(* opendir: the stream goes into the first empty slot ...                  *)
Opendir(c) ==
  LET i == FirstOf(FreeDirs) IN
  /\ FreeDirs # {}
  /\ \E d \in Streams \ open :
       /\ open' = open \cup {d}
       /\ dir_handles' = [dir_handles EXCEPT ![i] = d]
  /\ heldDirs' = [heldDirs EXCEPT ![c] = @ \cup {i}]
  /\ last_errno' = "none"
  /\ UNCHANGED <<buffers, heapVars, held, delivered, historyVars>>

(* ... unless the kernel refuses, or there is no slot.                     *)
OpendirFails ==
  \/ FreeDirs # {} /\ OnlyErrno("kernel")
  \/ FreeDirs = {} /\ OnlyErrno("ENOMEM")

(* readdir_next: the next name, or "" at the end and after an error, with  *)
(* last_errno 0 in each case.                                              *)
ReaddirNext(h) == IsOpen(h) /\ OnlyErrno("none")

Closedir_SlotKept(c, h) ==
  /\ IsOpen(h)
  /\ open' = open \ {dir_handles[h]}
  /\ heldDirs' = [heldDirs EXCEPT ![c] = @ \ {h}]
  /\ last_errno' = "none"
  /\ UNCHANGED <<buffers, dir_handles, heapVars, held, delivered, historyVars>>

(* closedir closes the stream even when it reports an error.               *)
Closedir(c, h) ==
  /\ IsOpen(h)
  /\ open' = open \ {dir_handles[h]}
  /\ dir_handles' = [dir_handles EXCEPT ![h] = NULL]
  /\ heldDirs' = [heldDirs EXCEPT ![c] = @ \ {h}]
  /\ last_errno' = "none"
  /\ UNCHANGED <<buffers, heapVars, held, delivered, historyVars>>

-----------------------------------------------------------------------------

BufferCall(c, h) ==
  \/ BufRelease(c, h)
  \/ \E count \in CountArgs : Read(h, count) \/ WriteBytes(h, count)
  \/ ReadFails(h)
  \/ BufToString(h)
  \/ BadBuffer(h)

DirCall(c, h) == ReaddirNext(h) \/ Closedir(c, h) \/ BadDir(h)

Next ==
  \/ \E c \in Clients :
       \/ \E arg \in CapacityArgs : BufCreate(c, arg)
       \/ \E h \in held[c] \cup StrayHandles : BufferCall(c, h)
       \/ Opendir(c)
       \/ \E h \in heldDirs[c] \cup StrayHandles : DirCall(c, h)
  \/ BufCreateFails
  \/ OpendirFails
  \/ DescriptorCall
  \/ PathCall

Spec == Init /\ [][Next]_vars

-----------------------------------------------------------------------------
(* Properties.                                                             *)

BufferType == [data : Blocks \cup {NULL}, capacity : Nat, used : Nat,
               active : BOOLEAN]

(* Every variable has its type; in particular the handles clients hold are *)
(* slots, and no buffer claims to hold more than its capacity.             *)
TypeOK ==
  /\ buffers \in [BufferSlots -> BufferType]
  /\ \A i \in BufferSlots : buffers[i].used <= buffers[i].capacity
  /\ dir_handles \in [DirSlots -> Streams \cup {NULL}]
  /\ last_errno \in {"none", "EINVAL", "ENOMEM", "kernel"}
  /\ allocated \subseteq Blocks
  /\ size \in [Blocks -> Nat]
  /\ heap \in [Blocks -> [1..MaxSize -> Bytes \cup {Junk}]]
  /\ open \subseteq Streams
  /\ held \in [Clients -> SUBSET BufferSlots]
  /\ heldDirs \in [Clients -> SUBSET DirSlots]
  /\ delivered \in [BufferSlots -> Seq(Bytes)]
  /\ stray \in BOOLEAN
  /\ foreign \in BOOLEAN

(* No read or write through a buffer leaves the block malloc gave for it,  *)
(* whatever count it is called with (lines 203 and 220).                   *)
BuffersAreNotOverrun == ~stray

(* What write_bytes and buf_to_string hand out is what the owner's last    *)
(* read through the buffer delivered, or its beginning: never what malloc  *)
(* left in the block, what another client had read into the slot or what   *)
(* an earlier read left there, a read that failed included (lines 206-209).*)
OnlyTheLastReadGoesOut == ~foreign

(* A handle belongs to the client that has it and to no other, however     *)
(* slots are reused, and it works.                                         *)
HandlesAreOwn ==
  \A c \in Clients :
    /\ \A h \in held[c] :
         Active(h) /\ \A d \in Clients : h \in held[d] => d = c
    /\ \A h \in heldDirs[c] :
         IsOpen(h) /\ \A d \in Clients : h \in heldDirs[d] => d = c

(* The buffer pool behaves as a handle table over heap blocks: no block is *)
(* shared, freed twice or leaked.                                          *)
BufferTable == INSTANCE HandleTable WITH
  Handles <- BufferSlots,
  Resources <- Blocks,
  NoResource <- NULL,
  bound <- [i \in BufferSlots |->
             IF buffers[i].active THEN buffers[i].data ELSE NULL],
  live <- allocated,
  lost <- {}

BuffersImplementTable == BufferTable!Spec

(* The directory pool behaves as a handle table over open streams.         *)
DirTable == INSTANCE HandleTable WITH
  Handles <- DirSlots,
  Resources <- Streams,
  NoResource <- NULL,
  bound <- dir_handles,
  live <- open,
  lost <- {}

DirsImplementTable == DirTable!Spec

(* Slots and heap agree: an active slot names an allocated block of its    *)
(* capacity, alone, and holds its last read; the others are clear.         *)
SlotsMatchHeap ==
  /\ \A i \in BufferSlots :
       LET e == buffers[i] IN
       IF e.active
       THEN /\ e.data \in allocated
            /\ e.capacity = size[e.data]
            /\ e.capacity <= MaxSize
            /\ delivered[i] = [k \in 1..e.used |-> heap[e.data][k]]
       ELSE e = FreeBuffer
  /\ \A i, j \in BufferSlots :
       /\ buffers[i].active
       /\ buffers[j].active
       /\ buffers[i].data = buffers[j].data
       => i = j
  /\ \A b \in allocated :
       \E i \in BufferSlots : buffers[i].active /\ buffers[i].data = b

(* Slots and open streams agree.                                           *)
SlotsMatchStreams ==
  /\ \A i \in DirSlots : dir_handles[i] # NULL => dir_handles[i] \in open
  /\ \A i, j \in DirSlots :
       dir_handles[i] # NULL /\ dir_handles[i] = dir_handles[j] => i = j
  /\ \A d \in open : \E i \in DirSlots : dir_handles[i] = d

(* What every step preserves.                                              *)
IInv ==
  /\ TypeOK
  /\ SlotsMatchHeap
  /\ SlotsMatchStreams
  /\ HandlesAreOwn
  /\ BuffersAreNotOverrun
  /\ OnlyTheLastReadGoesOut
=============================================================================
