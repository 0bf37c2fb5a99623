------------------------------ MODULE MmapPool ------------------------------
(***************************************************************************)
(* The handle-based memory mappings of src/shim/aria_libc_posix.c, lines   *)
(* 325-464: a fixed array of slots, each naming one kernel mapping, behind *)
(* integer handles that Aria code passes back in.                          *)
(*                                                                         *)
(* One Aria program makes the calls, one at a time; its parts ("clients")  *)
(* share the pool. A client uses the handles it was given and the stray    *)
(* numbers it may hold (the -1 of a failed call, an index past the pool),  *)
(* and forgets a handle when it has called munmap on it, whatever munmap   *)
(* returned.                                                               *)
(*                                                                         *)
(* A byte of a mapping holds Zero or the client that wrote it: which of    *)
(* the 256 values it wrote makes no difference to the properties. Fork,    *)
(* and mappings another process changes, are not modelled here.            *)
(***************************************************************************)
EXTENDS Integers, SlotScan

(* A definition whose name has the form Action_Slip is a wrong version of  *)
(* the Action below it; the properties are checked to notice each one.     *)

CONSTANTS
  Clients,       (* the parts of the program that use the pool             *)
  PoolSize,      (* MMAP_POOL_SIZE                                         *)
  Regions,       (* the address ranges the kernel can map                  *)
  MaxLength,     (* the longest mapping the kernel grants, in bytes        *)
  WordBytes,     (* sizeof(int64_t)                                        *)
  Half,          (* 2^63: int64_t is -Half..Half-1, size_t 0..2*Half-1     *)
  IntHalf,       (* 2^31: int is -IntHalf..IntHalf-1                       *)
  LengthArgs,    (* the length arguments clients pass                      *)
  OffsetArgs,    (* the offset arguments clients pass                      *)
  SizeArgs,      (* lengths clients ask to_string for                      *)
  StringLengths, (* strlen of the data clients give from_string            *)
  StrayHandles,  (* handle arguments that no call returned                 *)
  NULL, Zero

Slots == 0..(PoolSize - 1)
Int64 == (-Half)..(Half - 1)
(* On the machines the library is built for a writable page is readable.  *)
Protections == {"none", "read", "write"}
Errnos == {"none", "EINVAL", "ENOMEM", "kernel"}

(* The (int) cast on a handle: a value of int's range is kept, another     *)
(* loses its high bits.                                                    *)
ToInt(x) ==
  IF -IntHalf <= x /\ x < IntHalf
  THEN x
  ELSE ((x + IntHalf) % (2 * IntHalf)) - IntHalf

ASSUME PoolAssumption ==
  /\ PoolSize \in Nat \ {0}
  /\ IntHalf \in Nat
  /\ PoolSize <= IntHalf
  /\ NULL \notin Regions \cup Clients
  /\ Zero \notin Clients

(* Mappings are shorter than half the address space by at least a word:    *)
(* the kernel's limit is 2^47 bytes.                                       *)
ASSUME WidthAssumption ==
  /\ WordBytes \in Nat \ {0}
  /\ MaxLength \in Nat \ {0}
  /\ Half \in Nat
  /\ MaxLength < Half
  /\ WordBytes < Half

ASSUME ArgumentAssumption ==
  /\ LengthArgs \subseteq Int64
  /\ OffsetArgs \subseteq Int64
  /\ SizeArgs \subseteq Int64
  /\ StringLengths \subseteq 0..(Half - 1)
  /\ StrayHandles \subseteq Int
  /\ \A x \in StrayHandles : ToInt(x) \notin Slots

VARIABLES
  mmap_pool,     (* the slots                                              *)
  last_errno,    (* the shim's sticky error number                         *)
  mapped,        (* kernel: the regions mapped into the process            *)
  size,          (* kernel: the length each region was mapped with         *)
  prot,          (* kernel: the protection of each region                  *)
  bytes,         (* kernel: what the bytes of each region hold             *)
  alive,         (* FALSE once a protection fault has killed the process   *)
  held,          (* clients: the handles each one believes it owns         *)
  owner,         (* history: the client each region was mapped for         *)
  leaked,        (* history: the regions whose munmap failed               *)
  stray          (* history: an access has left its mapping                *)

kernelVars == <<mapped, size, prot, bytes>>
historyVars == <<owner, leaked>>
vars == <<mmap_pool, last_errno, mapped, size, prot, bytes, alive, held,
          owner, leaked, stray>>

FreeEntry == [addr |-> NULL, length |-> 0, in_use |-> FALSE]

Contents == [0..(MaxLength - 1) -> Clients \cup {Zero}]
NoBytes == [k \in 0..(MaxLength - 1) |-> Zero]

Init ==
  /\ mmap_pool = [i \in Slots |-> FreeEntry]
  /\ last_errno = "none"
  /\ mapped = {}
  /\ size = [r \in Regions |-> 0]
  /\ prot = [r \in Regions |-> "none"]
  /\ bytes = [r \in Regions |-> NoBytes]
  /\ alive = TRUE
  /\ held = [c \in Clients |-> {}]
  /\ owner = [r \in Regions |-> NULL]
  /\ leaked = {}
  /\ stray = FALSE

-----------------------------------------------------------------------------
(* C arithmetic.                                                           *)

(* (size_t)x for an int64_t x.                                             *)
SizeT(x) == IF x < 0 THEN x + 2 * Half ELSE x

(* The int64_t sum of two non-negative int64_t values. C leaves an         *)
(* overflowing sum undefined: the build adds two registers, which wraps,   *)
(* and the size_t the sum is cast to is the same had it not overflowed.    *)
Sum64(x, y) == IF x + y >= Half THEN x + y - 2 * Half ELSE x + y

(* The wrapped size_t sum of two size_t values.                            *)
SumSize(x, y) == IF x + y >= 2 * Half THEN x + y - 2 * Half ELSE x + y

(* The bounds tests of the accessors, for a mapping of length len.         *)
ByteFits(o, len) == o >= 0 /\ SizeT(o) < len
WordFits_SignForgotten(o, len) == SizeT(Sum64(o, WordBytes)) <= len
WordFits(o, len) == o >= 0 /\ SizeT(Sum64(o, WordBytes)) <= len
TextFits(o, n, len) == o >= 0 /\ n >= 0 /\ SizeT(Sum64(o, n)) <= len
DataFits(o, n, len) == o >= 0 /\ SumSize(SizeT(o), n) <= len

-----------------------------------------------------------------------------
(* The pool.                                                               *)

(* mmap_pool_get: the slot a handle argument selects, if any.              *)
Selects(h) == ToInt(h) \in Slots /\ mmap_pool[ToInt(h)].in_use

Entry(h) == mmap_pool[ToInt(h)]

(* mmap_pool_alloc: the first slot that is not in use.                     *)
FreeSlots_LoopTooLong ==
  {i \in 0..PoolSize : i = PoolSize \/ ~mmap_pool[i].in_use}
FreeSlots_InUseIgnored == Slots
FreeSlots == {i \in Slots : ~mmap_pool[i].in_use}
FirstFree == FirstOf(FreeSlots)

Arguments(c) == held[c] \cup StrayHandles

(* A call that finds its arguments wrong.                                  *)
Rejected ==
  /\ last_errno' = "EINVAL"
  /\ UNCHANGED <<mmap_pool, kernelVars, alive, held, historyVars, stray>>

(* A system call the kernel refuses: its errno, and nothing else.          *)
KernelRefuses ==
  /\ last_errno' = "kernel"
  /\ UNCHANGED <<mmap_pool, kernelVars, alive, held, historyVars, stray>>

(* The kernel maps region r for client c: zeroed, not mapped before.       *)
KernelMaps(c, r, length, p) ==
  /\ r \in Regions \ mapped
  /\ SizeT(length) \in 1..MaxLength
  /\ mapped' = mapped \cup {r}
  /\ size' = [size EXCEPT ![r] = SizeT(length)]
  /\ prot' = [prot EXCEPT ![r] = p]
  /\ bytes' = [bytes EXCEPT ![r] = NoBytes]
  /\ owner' = [owner EXCEPT ![r] = c]

(* The kernel unmaps region r, which can then be mapped anew.              *)
KernelUnmaps(r) ==
  /\ mapped' = mapped \ {r}
  /\ size' = [size EXCEPT ![r] = 0]
  /\ prot' = [prot EXCEPT ![r] = "none"]
  /\ bytes' = [bytes EXCEPT ![r] = NoBytes]
  /\ owner' = [owner EXCEPT ![r] = NULL]

MmapTakesSlot_LengthRounded(c, length, p) ==
  /\ FreeSlots # {}
  /\ \E r \in Regions :
       /\ KernelMaps(c, r, length, p)
       /\ mmap_pool' = [mmap_pool EXCEPT ![FirstFree] =
            [addr |-> r, length |-> MaxLength, in_use |-> TRUE]]
  /\ held' = [held EXCEPT ![c] = @ \cup {FirstFree}]
  /\ UNCHANGED <<last_errno, alive, leaked, stray>>

(* mmap: the mapping goes into the first free slot ...                     *)
MmapTakesSlot(c, length, p) ==
  /\ FreeSlots # {}
  /\ \E r \in Regions :
       /\ KernelMaps(c, r, length, p)
       /\ mmap_pool' = [mmap_pool EXCEPT ![FirstFree] =
            [addr |-> r, length |-> SizeT(length), in_use |-> TRUE]]
  /\ held' = [held EXCEPT ![c] = @ \cup {FirstFree}]
  /\ UNCHANGED <<last_errno, alive, leaked, stray>>

MmapFindsPoolFull_MappingKept(c, length, p) ==
  /\ FreeSlots = {}
  /\ \E r \in Regions : KernelMaps(c, r, length, p)
  /\ last_errno' = "ENOMEM"
  /\ UNCHANGED <<mmap_pool, alive, held, leaked, stray>>

(* ... or, when no slot is free, is unmapped again, and whether that       *)
(* succeeds is not looked at.                                              *)
MmapFindsPoolFull(c, length, p) ==
  /\ FreeSlots = {}
  /\ \E r \in Regions :
       \/ /\ r \notin mapped
          /\ SizeT(length) \in 1..MaxLength
          /\ UNCHANGED <<kernelVars, historyVars>>
       \/ /\ KernelMaps(c, r, length, p)
          /\ leaked' = leaked \cup {r}
  /\ last_errno' = "ENOMEM"
  /\ UNCHANGED <<mmap_pool, alive, held, stray>>

Mmap(c, length, p) ==
  \/ KernelRefuses
  \/ MmapTakesSlot(c, length, p)
  \/ MmapFindsPoolFull(c, length, p)

Munmap_SlotKeptOnError(c, h) ==
  LET r == Entry(h).addr IN
  /\ Selects(h)
  /\ held' = [held EXCEPT ![c] = @ \ {h}]
  /\ \/ /\ KernelUnmaps(r)
        /\ mmap_pool' = [mmap_pool EXCEPT ![ToInt(h)] = FreeEntry]
        /\ UNCHANGED <<last_errno, leaked>>
     \/ /\ last_errno' = "kernel"
        /\ leaked' = leaked \cup {r}
        /\ UNCHANGED <<mmap_pool, kernelVars, owner>>
  /\ UNCHANGED <<alive, stray>>

(* munmap: the slot is cleared whatever the kernel answered.               *)
Munmap(c, h) ==
  LET r == Entry(h).addr IN
  /\ Selects(h)
  /\ mmap_pool' = [mmap_pool EXCEPT ![ToInt(h)] = FreeEntry]
  /\ held' = [held EXCEPT ![c] = @ \ {h}]
  /\ \/ KernelUnmaps(r) /\ UNCHANGED <<last_errno, leaked>>
     \/ /\ last_errno' = "kernel"
        /\ leaked' = leaked \cup {r}
        /\ UNCHANGED <<kernelVars, owner>>
  /\ UNCHANGED <<alive, stray>>

Mprotect(h, p) ==
  /\ Selects(h)
  /\ prot' = [prot EXCEPT ![Entry(h).addr] = p]
  /\ UNCHANGED <<mmap_pool, last_errno, mapped, size, bytes, alive, held,
                 historyVars, stray>>

(* mprotect and msync the kernel refuses; an msync it grants changes       *)
(* nothing a model of the pool can see.                                    *)
MprotectOrMsyncFails(h) == Selects(h) /\ KernelRefuses

-----------------------------------------------------------------------------
(* Access through a handle: n bytes at offset o, once the bounds test has  *)
(* let them pass.                                                          *)

LeavesMapping(r, o, n) ==
  n > 0 /\ ~(r \in mapped /\ 0 <= o /\ o + n <= size[r])

(* The page protection forbids the access: SIGSEGV.                        *)
Faults ==
  /\ alive' = FALSE
  /\ UNCHANGED <<mmap_pool, last_errno, kernelVars, held, historyVars, stray>>

Load(h, o, n) ==
  LET r == Entry(h).addr IN
  IF n > 0 /\ prot[r] = "none"
  THEN Faults
  ELSE /\ stray' = (stray \/ LeavesMapping(r, o, n))
       /\ UNCHANGED <<mmap_pool, last_errno, kernelVars, alive, held,
                      historyVars>>

Store(c, h, o, n) ==
  LET r == Entry(h).addr IN
  IF n > 0 /\ prot[r] # "write"
  THEN Faults
  ELSE /\ stray' = (stray \/ LeavesMapping(r, o, n))
       /\ bytes' = [bytes EXCEPT ![r] =
            [k \in 0..(MaxLength - 1) |->
               IF k \in o..(o + n - 1) THEN c ELSE bytes[r][k]]]
       /\ UNCHANGED <<mmap_pool, last_errno, mapped, size, prot, alive, held,
                      historyVars>>

MmapReadByte(h, o) ==
  Selects(h) /\ ByteFits(o, Entry(h).length) /\ Load(h, o, 1)

MmapWriteByte(c, h, o) ==
  Selects(h) /\ ByteFits(o, Entry(h).length) /\ Store(c, h, o, 1)

MmapReadInt64(h, o) ==
  Selects(h) /\ WordFits(o, Entry(h).length) /\ Load(h, o, WordBytes)

MmapWriteInt64(c, h, o) ==
  Selects(h) /\ WordFits(o, Entry(h).length) /\ Store(c, h, o, WordBytes)

(* A request to_string refuses, or finds no memory for, changes nothing.   *)
MmapToString(h, o, n) ==
  Selects(h) /\ TextFits(o, n, Entry(h).length) /\ Load(h, o, n)

MmapFromString(c, h, o, n) ==
  Selects(h) /\ DataFits(o, n, Entry(h).length) /\ Store(c, h, o, n)

(* The calls that answer EINVAL: a handle of no slot in use, an offset     *)
(* outside the mapping.                                                    *)
BadHandle(h) == ~Selects(h) /\ Rejected

BadOffset(h, o) ==
  /\ Selects(h)
  /\ \/ ~ByteFits(o, Entry(h).length)
     \/ ~WordFits(o, Entry(h).length)
     \/ \E n \in StringLengths : ~DataFits(o, n, Entry(h).length)
  /\ Rejected

-----------------------------------------------------------------------------

Access(c, h) ==
  \E o \in OffsetArgs :
    \/ MmapReadByte(h, o)
    \/ MmapWriteByte(c, h, o)
    \/ MmapReadInt64(h, o)
    \/ MmapWriteInt64(c, h, o)
    \/ \E n \in SizeArgs : MmapToString(h, o, n)
    \/ \E n \in StringLengths : MmapFromString(c, h, o, n)
    \/ BadOffset(h, o)

Next ==
  /\ alive
  /\ \E c \in Clients :
       \/ \E length \in LengthArgs, p \in Protections : Mmap(c, length, p)
       \/ \E h \in Arguments(c) :
            \/ Munmap(c, h)
            \/ \E p \in Protections : Mprotect(h, p)
            \/ MprotectOrMsyncFails(h)
            \/ BadHandle(h)
            \/ Access(c, h)

Spec == Init /\ [][Next]_vars

-----------------------------------------------------------------------------
(* Properties.                                                             *)

EntryType == [addr : Regions \cup {NULL}, length : 0..MaxLength,
              in_use : BOOLEAN]

(* Every variable has its type; in particular a handle a client holds is   *)
(* an index of the pool, never the -1 of a failed allocation.              *)
TypeOK ==
  /\ mmap_pool \in [Slots -> EntryType]
  /\ last_errno \in Errnos
  /\ mapped \subseteq Regions
  /\ size \in [Regions -> 0..MaxLength]
  /\ prot \in [Regions -> Protections]
  /\ bytes \in [Regions -> Contents]
  /\ alive \in BOOLEAN
  /\ held \in [Clients -> SUBSET Slots]
  /\ owner \in [Regions -> Clients \cup {NULL}]
  /\ leaked \subseteq Regions
  /\ stray \in BOOLEAN

(* A handle is its client's own as long as the client holds it: slot reuse *)
(* after munmap (lines 335-379) never leaves two clients with one handle,  *)
(* and the slot names a live mapping, of the recorded length, that was     *)
(* made for that client.                                                   *)
HandlesAreOwn ==
  \A c \in Clients : \A h \in held[c] :
    LET e == mmap_pool[h] IN
    /\ e.in_use
    /\ e.addr \in mapped
    /\ e.length = size[e.addr]
    /\ owner[e.addr] = c
    /\ \A d \in Clients : h \in held[d] => d = c

(* No accessor (lines 407-464) touches a byte outside the mapping behind   *)
(* its handle, whatever int64 offset and length it is called with,         *)
(* including the ones whose sum overflows.                                 *)
AccessStaysInside == ~stray

(* A mapping only ever holds the bytes of the client it belongs to: no     *)
(* store through one client's handle shows up in another client's mapping, *)
(* however often slots and address ranges are reused.                      *)
BytesAreTheOwners ==
  \A r \in mapped, k \in 0..(MaxLength - 1) :
    bytes[r][k] \in {Zero, owner[r]}

(* The pool behaves as a handle table: one mapping per handle, and every   *)
(* mapping of the process behind a handle or lost in a failed munmap.      *)
Table == INSTANCE HandleTable WITH
  Handles <- Slots,
  Resources <- Regions,
  NoResource <- NULL,
  bound <- [i \in Slots |->
             IF mmap_pool[i].in_use THEN mmap_pool[i].addr ELSE NULL],
  live <- mapped,
  lost <- leaked

ImplementsHandleTable == Table!Spec

(* Every mapping the process has is behind a handle in use or was lost in  *)
(* a munmap the kernel refused: no path of mmap or munmap leaks one.       *)
EveryMappingAccounted == Table!EveryResourceAccounted

(* The slots and the kernel agree: a slot in use names a live mapping that *)
(* no other slot names and no failed munmap has lost, with its length; a   *)
(* slot not in use is clear; nothing else is mapped.                       *)
PoolMatchesKernel ==
  /\ \A i \in Slots :
       IF mmap_pool[i].in_use
       THEN /\ mmap_pool[i].addr \in mapped \ leaked
            /\ mmap_pool[i].length = size[mmap_pool[i].addr]
       ELSE mmap_pool[i] = FreeEntry
  /\ \A i, j \in Slots :
       /\ mmap_pool[i].in_use
       /\ mmap_pool[j].in_use
       /\ mmap_pool[i].addr = mmap_pool[j].addr
       => i = j
  /\ leaked \subseteq mapped
  /\ \A r \in mapped \ leaked :
       \E i \in Slots : mmap_pool[i].in_use /\ mmap_pool[i].addr = r

(* What every step preserves.                                              *)
IInv ==
  /\ TypeOK
  /\ PoolMatchesKernel
  /\ HandlesAreOwn
  /\ AccessStaysInside
  /\ BytesAreTheOwners
=============================================================================
