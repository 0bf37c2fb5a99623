-------------------------- MODULE MmapPool_proofs ---------------------------
(***************************************************************************)
(* The theorems about MmapPool: its type invariant, the ownership of       *)
(* handles and bytes, the bounds tests, and that it implements HandleTable.*)
(***************************************************************************)
EXTENDS MmapPool, TLAPS, WellFoundedInduction

(* A scan of a non-empty set of slots stops at the least of them.          *)
LEMMA FirstOfIsLeast ==
  ASSUME NEW S, S \subseteq Nat, S # {}
  PROVE  FirstOf(S) \in S /\ \A j \in S : FirstOf(S) <= j
<1>1. PICK i \in S : \A j \in S : <<j, i>> \notin OpToRel(<, Nat)
  BY NatLessThanWellFounded, WFMin
<1>2. ASSUME NEW j \in S PROVE i <= j
  BY <1>1, <<j, i>> \in Nat \X Nat DEF OpToRel
<1>3. QED
  BY <1>2 DEF FirstOf

(* Scanning for a free slot finds one when there is one (lines 336-344).   *)
LEMMA FirstFreeIsFree ==
  ASSUME FreeSlots # {}
  PROVE  FirstFree \in Slots /\ ~mmap_pool[FirstFree].in_use
<1>1. FreeSlots \subseteq Nat
  BY PoolAssumption DEF FreeSlots, Slots
<1>2. FirstFree \in FreeSlots
  BY <1>1, FirstOfIsLeast DEF FirstFree
<1>3. QED
  BY <1>2 DEF FreeSlots

(* The bounds tests are sound: an access that passes one lies inside the   *)
(* mapping, for every int64 argument, overflowing sums included.           *)
LEMMA ByteFitsSound ==
  ASSUME NEW o \in Int64, NEW len \in 0..MaxLength, ByteFits(o, len)
  PROVE  0 <= o /\ o + 1 <= len
BY WidthAssumption DEF Int64, ByteFits, SizeT

(* The same for the eight bytes of read_int64 and write_int64.             *)
LEMMA WordFitsSound ==
  ASSUME NEW o \in Int64, NEW len \in 0..MaxLength, WordFits(o, len)
  PROVE  0 <= o /\ o + WordBytes <= len
BY WidthAssumption DEF Int64, WordFits, SizeT, Sum64

(* The same for the length to_string is asked for.                         *)
LEMMA TextFitsSound ==
  ASSUME NEW o \in Int64, NEW n \in Int64, NEW len \in 0..MaxLength,
         TextFits(o, n, len)
  PROVE  0 <= o /\ 0 <= n /\ o + n <= len
BY WidthAssumption DEF Int64, TextFits, SizeT, Sum64

(* The same for the string from_string copies in.                          *)
LEMMA DataFitsSound ==
  ASSUME NEW o \in Int64, NEW n \in 0..(Half - 1), NEW len \in 0..MaxLength,
         DataFits(o, n, len)
  PROVE  0 <= o /\ o + n <= len
BY WidthAssumption DEF Int64, DataFits, SizeT, SumSize

(* The mapping's n bytes from offset o on, read or written through handle  *)
(* h: what every accessor does once its bounds test has passed.            *)
GoodAccess(c, h) ==
  /\ Selects(h)
  /\ \E o, n \in Nat :
       /\ o + n <= Entry(h).length
       /\ Load(h, o, n) \/ Store(c, h, o, n)

(* The length recorded in a slot in use is one a mapping can have.         *)
LEMMA EntryLength ==
  ASSUME TypeOK, NEW h, Selects(h)
  PROVE  Entry(h).length \in 0..MaxLength
BY DEF TypeOK, Selects, Entry, EntryType

(* Every accessor call is refused or is one load or store of a number of   *)
(* bytes that passed the bounds test.                                      *)
LEMMA AccessCases ==
  ASSUME TypeOK, NEW c \in Clients, NEW h, Access(c, h)
  PROVE  Rejected \/ GoodAccess(c, h)
<1> USE ArgumentAssumption, WidthAssumption
<1>1. PICK o \in OffsetArgs :
        \/ MmapReadByte(h, o)
        \/ MmapWriteByte(c, h, o)
        \/ MmapReadInt64(h, o)
        \/ MmapWriteInt64(c, h, o)
        \/ \E n \in SizeArgs : MmapToString(h, o, n)
        \/ \E n \in StringLengths : MmapFromString(c, h, o, n)
        \/ BadOffset(h, o)
  BY DEF Access
<1>2. o \in Int64 /\ (0 <= o => o \in Nat)
  BY DEF Int64
<1>3. CASE MmapReadByte(h, o) \/ MmapWriteByte(c, h, o)
  <2>1. Selects(h) /\ o + 1 <= Entry(h).length /\ o \in Nat
    BY <1>2, <1>3, EntryLength, ByteFitsSound DEF MmapReadByte, MmapWriteByte
  <2>2. Load(h, o, 1) \/ Store(c, h, o, 1)
    BY <1>3 DEF MmapReadByte, MmapWriteByte
  <2>3. QED
    BY <2>1, <2>2 DEF GoodAccess
<1>4. CASE MmapReadInt64(h, o) \/ MmapWriteInt64(c, h, o)
  <2>1. Selects(h) /\ o + WordBytes <= Entry(h).length /\ o \in Nat
    BY <1>2, <1>4, EntryLength, WordFitsSound DEF MmapReadInt64, MmapWriteInt64
  <2>2. Load(h, o, WordBytes) \/ Store(c, h, o, WordBytes)
    BY <1>4 DEF MmapReadInt64, MmapWriteInt64
  <2>3. QED
    BY <2>1, <2>2 DEF GoodAccess
<1>5. ASSUME NEW n \in SizeArgs, MmapToString(h, o, n)
      PROVE  GoodAccess(c, h)
  <2>1. n \in Int64
    OBVIOUS
  <2>2. Selects(h) /\ o + n <= Entry(h).length /\ o \in Nat /\ n \in Nat
    BY <1>2, <1>5, <2>1, EntryLength, TextFitsSound DEF MmapToString, Int64
  <2>3. Load(h, o, n)
    BY <1>5 DEF MmapToString
  <2>4. QED
    BY <2>2, <2>3 DEF GoodAccess
<1>6. ASSUME NEW n \in StringLengths, MmapFromString(c, h, o, n)
      PROVE  GoodAccess(c, h)
  <2>1. n \in 0..(Half - 1) /\ n \in Nat
    OBVIOUS
  <2>2. Selects(h) /\ o + n <= Entry(h).length /\ o \in Nat
    BY <1>2, <1>6, <2>1, EntryLength, DataFitsSound DEF MmapFromString
  <2>3. Store(c, h, o, n)
    BY <1>6 DEF MmapFromString
  <2>4. QED
    BY <2>1, <2>2, <2>3 DEF GoodAccess
<1>7. CASE BadOffset(h, o)
  BY <1>7 DEF BadOffset
<1>8. QED
  BY <1>1, <1>3, <1>4, <1>5, <1>6, <1>7

(* Every step is one of these.                                             *)
LEMMA NextCases ==
  ASSUME TypeOK, [Next]_vars
  PROVE  \/ \E c \in Clients, length \in LengthArgs, p \in Protections :
              MmapTakesSlot(c, length, p) \/ MmapFindsPoolFull(c, length, p)
         \/ \E c \in Clients : \E h \in Arguments(c) :
              \/ Munmap(c, h)
              \/ \E p \in Protections : Mprotect(h, p)
              \/ GoodAccess(c, h)
         \/ KernelRefuses
         \/ Rejected
         \/ UNCHANGED vars
<1>1. CASE UNCHANGED vars
  BY <1>1
<1>2. CASE Next
  BY <1>2, AccessCases DEF Next, Mmap, MprotectOrMsyncFails, BadHandle
<1>3. QED
  BY <1>1, <1>2

-----------------------------------------------------------------------------

(* What munmap leaves in a slot, and mmap in a mapping, has its type.      *)
LEMMA ClearedTypes ==
  FreeEntry \in EntryType /\ NoBytes \in Contents
BY WidthAssumption DEF FreeEntry, EntryType, NoBytes, Contents

(* The types hold when the program starts.                                 *)
LEMMA InitTypeOK == Init => TypeOK
<1> SUFFICES ASSUME Init
             PROVE  TypeOK
  OBVIOUS
<1>1. mmap_pool \in [Slots -> EntryType] /\ bytes \in [Regions -> Contents]
  BY ClearedTypes DEF Init
<1>2. size \in [Regions -> 0..MaxLength]
  BY WidthAssumption DEF Init
<1>3. /\ prot \in [Regions -> Protections]
      /\ held \in [Clients -> SUBSET Slots]
      /\ owner \in [Regions -> Clients \cup {NULL}]
  BY DEF Init, Protections
<1>4. QED
  BY <1>1, <1>2, <1>3 DEF Init, TypeOK, Errnos

(* A slot in use names a mapped region, so a failed munmap loses a region. *)
LEMMA EntryRegion ==
  ASSUME TypeOK, PoolMatchesKernel, NEW h, Selects(h)
  PROVE  /\ ToInt(h) \in Slots
         /\ Entry(h).addr \in mapped \ leaked
         /\ Entry(h).addr \in Regions
         /\ Entry(h).length = size[Entry(h).addr]
BY DEF TypeOK, PoolMatchesKernel, Selects, Entry

(* The types are kept by every call.                                       *)
LEMMA NextTypeOK ==
  ASSUME TypeOK, PoolMatchesKernel, [Next]_vars
  PROVE  TypeOK'
<1> USE PoolAssumption, WidthAssumption, ClearedTypes
    DEF TypeOK, Errnos, Protections, kernelVars, historyVars
<1>1. ASSUME NEW c \in Clients, NEW length \in LengthArgs,
             NEW p \in Protections, MmapTakesSlot(c, length, p)
      PROVE  TypeOK'
  <2>1. FirstFree \in Slots
    BY <1>1, FirstFreeIsFree DEF MmapTakesSlot
  <2>2. PICK r \in Regions :
          /\ KernelMaps(c, r, length, p)
          /\ mmap_pool' = [mmap_pool EXCEPT ![FirstFree] =
               [addr |-> r, length |-> SizeT(length), in_use |-> TRUE]]
    BY <1>1 DEF MmapTakesSlot
  <2>3. SizeT(length) \in 0..MaxLength
    BY <2>2 DEF KernelMaps
  <2>4. mmap_pool' \in [Slots -> EntryType]
    BY <2>1, <2>2, <2>3 DEF EntryType
  <2>5. QED
    BY <1>1, <2>1, <2>2, <2>3, <2>4 DEF MmapTakesSlot, KernelMaps
<1>2. ASSUME NEW c \in Clients, NEW length \in LengthArgs,
             NEW p \in Protections, MmapFindsPoolFull(c, length, p)
      PROVE  TypeOK'
  <2>1. CASE UNCHANGED <<kernelVars, historyVars>>
    BY <1>2, <2>1 DEF MmapFindsPoolFull
  <2>2. CASE \E r \in Regions :
               KernelMaps(c, r, length, p) /\ leaked' = leaked \cup {r}
    <3>1. PICK r \in Regions : KernelMaps(c, r, length, p)
                              /\ leaked' = leaked \cup {r}
      BY <2>2
    <3>2. SizeT(length) \in 0..MaxLength
      BY <3>1 DEF KernelMaps
    <3>3. QED
      BY <1>2, <3>1, <3>2 DEF MmapFindsPoolFull, KernelMaps
  <2>3. QED
    BY <1>2, <2>1, <2>2 DEF MmapFindsPoolFull
<1>3. ASSUME NEW c \in Clients, NEW h \in Arguments(c), Munmap(c, h)
      PROVE  TypeOK'
  <2>1. mmap_pool' \in [Slots -> EntryType] /\ held' \in [Clients -> SUBSET Slots]
    BY <1>3 DEF Munmap
  <2>2. PICK r \in Regions : r = Entry(h).addr
    BY <1>3, EntryRegion DEF Munmap
  <2>3. CASE KernelUnmaps(r) /\ UNCHANGED <<last_errno, leaked>>
    <3>1. mapped' \subseteq Regions /\ size' \in [Regions -> 0..MaxLength]
      BY <2>3 DEF KernelUnmaps
    <3>2. QED
      BY <1>3, <2>1, <2>3, <3>1 DEF Munmap, KernelUnmaps
  <2>4. CASE /\ last_errno' = "kernel"
             /\ leaked' = leaked \cup {r}
             /\ UNCHANGED <<kernelVars, owner>>
    BY <1>3, <2>1, <2>4 DEF Munmap
  <2>5. QED
    BY <1>3, <2>2, <2>3, <2>4 DEF Munmap
<1>4. ASSUME NEW c \in Clients, NEW h \in Arguments(c),
             NEW p \in Protections, Mprotect(h, p)
      PROVE  TypeOK'
  BY <1>4 DEF Mprotect
<1>5. ASSUME NEW c \in Clients, NEW h \in Arguments(c), GoodAccess(c, h)
      PROVE  TypeOK'
  <2>1. PICK o, n \in Nat : Load(h, o, n) \/ Store(c, h, o, n)
    BY <1>5 DEF GoodAccess
  <2>2. CASE Faults
    BY <2>2 DEF Faults
  <2>3. CASE Load(h, o, n) /\ ~Faults
    BY <2>3 DEF Load, LeavesMapping
  <2>4. CASE Store(c, h, o, n) /\ ~Faults
    <3> DEFINE r == Entry(h).addr
               new == [k \in 0..(MaxLength - 1) |->
                         IF k \in o..(o + n - 1) THEN c ELSE bytes[r][k]]
    <3>1. r \in Regions => new \in Contents
      BY DEF Contents
    <3>2. bytes' = [bytes EXCEPT ![r] = new]
      BY <2>4 DEF Store
    <3>3. bytes' \in [Regions -> Contents]
      <4> HIDE DEF r, new
      <4>1. QED
        BY <3>1, <3>2
    <3>4. QED
      BY <2>4, <3>3 DEF Store, LeavesMapping
  <2>5. QED
    BY <2>1, <2>2, <2>3, <2>4
<1>6. CASE KernelRefuses
  BY <1>6 DEF KernelRefuses
<1>7. CASE Rejected
  BY <1>7 DEF Rejected
<1>8. CASE UNCHANGED vars
  BY <1>8 DEF vars
<1>9. QED
  BY <1>1, <1>2, <1>3, <1>4, <1>5, <1>6, <1>7, <1>8, NextCases

(* A handle argument that selects a slot is one the client holds: stray    *)
(* numbers select nothing.                                                 *)
LEMMA SelectedIsHeld ==
  ASSUME TypeOK, HandlesAreOwn, NEW c \in Clients, NEW h \in Arguments(c),
         Selects(h)
  PROVE  /\ h \in held[c]
         /\ h \in Slots
         /\ ToInt(h) = h
         /\ owner[Entry(h).addr] = c
<1>1. h \in held[c]
  BY ArgumentAssumption DEF Arguments, Selects
<1>2. h \in Slots
  BY <1>1 DEF TypeOK
<1>3. ToInt(h) = h
  BY <1>2, PoolAssumption DEF Slots, ToInt
<1>4. QED
  BY <1>1, <1>2, <1>3 DEF HandlesAreOwn, Entry

(* The inductive invariant holds when the program starts.                  *)
LEMMA InitIInv == Init => IInv
<1> SUFFICES ASSUME Init
             PROVE  IInv
  OBVIOUS
<1>1. PoolMatchesKernel
  BY DEF Init, PoolMatchesKernel, FreeEntry
<1>2. HandlesAreOwn /\ AccessStaysInside /\ BytesAreTheOwners
  BY DEF Init, HandlesAreOwn, AccessStaysInside, BytesAreTheOwners
<1>3. QED
  BY <1>1, <1>2, InitTypeOK DEF IInv

(* The slots and the kernel's mappings stay in step: one step per call     *)
(* that changes either.                                                    *)
LEMMA NextPoolMatchesKernel ==
  ASSUME TypeOK, PoolMatchesKernel, [Next]_vars
  PROVE  PoolMatchesKernel'
<1> USE DEF kernelVars, historyVars
<1>1. ASSUME NEW c \in Clients, NEW length \in LengthArgs,
             NEW p \in Protections, MmapTakesSlot(c, length, p)
      PROVE  PoolMatchesKernel'
  <2> DEFINE f == FirstFree
  <2>1. f \in Slots /\ ~mmap_pool[f].in_use
    BY <1>1, FirstFreeIsFree DEF MmapTakesSlot
  <2>2. PICK r \in Regions :
          /\ KernelMaps(c, r, length, p)
          /\ mmap_pool' = [mmap_pool EXCEPT ![f] =
               [addr |-> r, length |-> SizeT(length), in_use |-> TRUE]]
    BY <1>1 DEF MmapTakesSlot
  <2> HIDE DEF f
  <2>3. /\ mmap_pool'[f] = [addr |-> r, length |-> SizeT(length), in_use |-> TRUE]
        /\ \A i \in Slots \ {f} : mmap_pool'[i] = mmap_pool[i]
        /\ r \notin mapped
        /\ mapped' = mapped \cup {r}
        /\ size'[r] = SizeT(length)
        /\ \A q \in Regions \ {r} : size'[q] = size[q]
        /\ leaked' = leaked
    BY <1>1, <2>1, <2>2 DEF MmapTakesSlot, KernelMaps, TypeOK
  <2>4. QED
    BY <2>1, <2>3 DEF PoolMatchesKernel, TypeOK
<1>2. ASSUME NEW c \in Clients, NEW length \in LengthArgs,
             NEW p \in Protections, MmapFindsPoolFull(c, length, p)
      PROVE  PoolMatchesKernel'
  <2>1. CASE UNCHANGED <<kernelVars, historyVars>>
    BY <1>2, <2>1 DEF MmapFindsPoolFull, PoolMatchesKernel
  <2>2. CASE \E r \in Regions :
               KernelMaps(c, r, length, p) /\ leaked' = leaked \cup {r}
    <3>1. PICK r \in Regions :
            KernelMaps(c, r, length, p) /\ leaked' = leaked \cup {r}
      BY <2>2
    <3>2. /\ r \notin mapped
          /\ mapped' = mapped \cup {r}
          /\ \A q \in Regions \ {r} : size'[q] = size[q]
          /\ mmap_pool' = mmap_pool
      BY <1>2, <3>1 DEF MmapFindsPoolFull, KernelMaps, TypeOK
    <3>3. QED
      BY <3>1, <3>2 DEF PoolMatchesKernel, TypeOK
  <2>3. QED
    BY <1>2, <2>1, <2>2 DEF MmapFindsPoolFull
<1>3. ASSUME NEW c \in Clients, NEW h \in Arguments(c), Munmap(c, h)
      PROVE  PoolMatchesKernel'
  <2> DEFINE g == ToInt(h)
             r == Entry(h).addr
  <2>1. /\ g \in Slots
        /\ mmap_pool[g].in_use
        /\ mmap_pool[g].addr = r
        /\ r \in mapped \ leaked
        /\ r \in Regions
    BY <1>3, EntryRegion DEF Munmap, Selects, Entry
  <2>2. /\ mmap_pool'[g] = FreeEntry
        /\ \A i \in Slots \ {g} : mmap_pool'[i] = mmap_pool[i]
    BY <1>3, <2>1 DEF Munmap, TypeOK
  <2>3. \/ KernelUnmaps(r) /\ leaked' = leaked
        \/ UNCHANGED kernelVars /\ leaked' = leaked \cup {r}
    BY <1>3 DEF Munmap
  <2> HIDE DEF g, r
  <2>4. /\ ~mmap_pool'[g].in_use
        /\ \A i \in Slots : mmap_pool'[i].in_use =>
             /\ i # g
             /\ mmap_pool'[i] = mmap_pool[i]
             /\ mmap_pool[i].addr \in (mapped \ leaked) \ {r}
             /\ mmap_pool[i].addr \in Regions
             /\ mmap_pool[i].length = size[mmap_pool[i].addr]
    BY <2>1, <2>2 DEF PoolMatchesKernel, FreeEntry, TypeOK
  <2>5. mapped' \ leaked' = (mapped \ leaked) \ {r} /\ leaked' \subseteq mapped'
    BY <2>1, <2>3 DEF KernelUnmaps, PoolMatchesKernel
  <2>6. \A q \in Regions \ {r} : size'[q] = size[q]
    BY <2>1, <2>3 DEF KernelUnmaps, TypeOK
  <2>7. \A i \in Slots :
          IF mmap_pool'[i].in_use
          THEN /\ mmap_pool'[i].addr \in mapped' \ leaked'
               /\ mmap_pool'[i].length = size'[mmap_pool'[i].addr]
          ELSE mmap_pool'[i] = FreeEntry
    BY <2>2, <2>4, <2>5, <2>6 DEF PoolMatchesKernel
  <2>8. \A i, j \in Slots :
          /\ mmap_pool'[i].in_use
          /\ mmap_pool'[j].in_use
          /\ mmap_pool'[i].addr = mmap_pool'[j].addr
          => i = j
    BY <2>4 DEF PoolMatchesKernel
  <2>9. \A q \in mapped' \ leaked' :
          \E i \in Slots : mmap_pool'[i].in_use /\ mmap_pool'[i].addr = q
    <3>1. SUFFICES ASSUME NEW q \in (mapped \ leaked) \ {r}
                   PROVE  \E i \in Slots : mmap_pool'[i].in_use
                                           /\ mmap_pool'[i].addr = q
      BY <2>5
    <3>2. PICK i \in Slots : mmap_pool[i].in_use /\ mmap_pool[i].addr = q
      BY DEF PoolMatchesKernel
    <3>3. QED
      BY <2>1, <2>2, <3>2
  <2>10. QED
    BY <2>5, <2>7, <2>8, <2>9 DEF PoolMatchesKernel
<1>4. CASE UNCHANGED <<mmap_pool, mapped, size, leaked>>
  BY <1>4 DEF PoolMatchesKernel
<1>5. ASSUME NEW c \in Clients, NEW h \in Arguments(c), GoodAccess(c, h)
      PROVE  UNCHANGED <<mmap_pool, mapped, size, leaked>>
  BY <1>5 DEF GoodAccess, Load, Store, Faults
<1>6. QED
  BY <1>1, <1>2, <1>3, <1>4, <1>5, NextCases
     DEF Mprotect, KernelRefuses, Rejected, vars

(* Handles stay their clients' own: the slot mmap hands out was nobody's,  *)
(* and munmap clears the slot of no handle that is still held.             *)
LEMMA NextHandlesAreOwn ==
  ASSUME TypeOK, PoolMatchesKernel, HandlesAreOwn, [Next]_vars
  PROVE  HandlesAreOwn'
<1> USE DEF kernelVars, historyVars
<1>1. ASSUME NEW c \in Clients, NEW length \in LengthArgs,
             NEW p \in Protections, MmapTakesSlot(c, length, p)
      PROVE  HandlesAreOwn'
  <2> DEFINE f == FirstFree
  <2>1. f \in Slots /\ ~mmap_pool[f].in_use
    BY <1>1, FirstFreeIsFree DEF MmapTakesSlot
  <2>2. PICK r \in Regions :
          /\ KernelMaps(c, r, length, p)
          /\ mmap_pool' = [mmap_pool EXCEPT ![f] =
               [addr |-> r, length |-> SizeT(length), in_use |-> TRUE]]
    BY <1>1 DEF MmapTakesSlot
  <2>3. held' = [held EXCEPT ![c] = @ \cup {f}]
    BY <1>1 DEF MmapTakesSlot
  <2> HIDE DEF f
  <2>4. /\ mmap_pool'[f] = [addr |-> r, length |-> SizeT(length), in_use |-> TRUE]
        /\ \A i \in Slots \ {f} : mmap_pool'[i] = mmap_pool[i]
        /\ r \notin mapped
        /\ mapped' = mapped \cup {r}
        /\ size'[r] = SizeT(length)
        /\ owner'[r] = c
        /\ \A q \in Regions \ {r} : size'[q] = size[q] /\ owner'[q] = owner[q]
        /\ \A d \in Clients \ {c} : held'[d] = held[d]
        /\ held'[c] = held[c] \cup {f}
    BY <2>1, <2>2, <2>3 DEF KernelMaps, TypeOK
  <2>5. \A d \in Clients : f \notin held[d]
    BY <2>1 DEF HandlesAreOwn
  <2>6. ASSUME NEW d \in Clients, NEW h \in held'[d]
        PROVE  LET e == mmap_pool'[h] IN
               /\ e.in_use
               /\ e.addr \in mapped'
               /\ e.length = size'[e.addr]
               /\ owner'[e.addr] = d
               /\ \A b \in Clients : h \in held'[b] => b = d
    <3>1. CASE h = f
      BY <2>4, <2>5, <3>1
    <3>2. CASE h # f
      <4>1. h \in held[d] /\ h \in Slots
        BY <2>4, <3>2 DEF TypeOK
      <4>2. mmap_pool[h].addr \in mapped /\ mmap_pool[h].addr \in Regions \ {r}
        BY <2>4, <4>1 DEF HandlesAreOwn, TypeOK
      <4>3. \A b \in Clients : h \in held'[b] => b = d
        BY <2>4, <3>2, <4>1 DEF HandlesAreOwn
      <4>4. QED
        BY <2>4, <3>2, <4>1, <4>2, <4>3 DEF HandlesAreOwn
    <3>3. QED
      BY <3>1, <3>2
  <2>7. QED
    BY <2>6 DEF HandlesAreOwn
<1>2. ASSUME NEW c \in Clients, NEW length \in LengthArgs,
             NEW p \in Protections, MmapFindsPoolFull(c, length, p)
      PROVE  HandlesAreOwn'
  <2>1. CASE UNCHANGED <<kernelVars, historyVars>>
    BY <1>2, <2>1 DEF MmapFindsPoolFull, HandlesAreOwn
  <2>2. CASE \E r \in Regions :
               KernelMaps(c, r, length, p) /\ leaked' = leaked \cup {r}
    <3>1. PICK r \in Regions : KernelMaps(c, r, length, p)
      BY <2>2
    <3>2. /\ r \notin mapped
          /\ mapped' = mapped \cup {r}
          /\ \A q \in Regions \ {r} : size'[q] = size[q] /\ owner'[q] = owner[q]
          /\ UNCHANGED <<mmap_pool, held>>
      BY <1>2, <3>1 DEF MmapFindsPoolFull, KernelMaps, TypeOK
    <3>3. QED
      BY <3>2 DEF HandlesAreOwn, TypeOK
  <2>3. QED
    BY <1>2, <2>1, <2>2 DEF MmapFindsPoolFull
<1>3. ASSUME NEW c \in Clients, NEW h \in Arguments(c), Munmap(c, h)
      PROVE  HandlesAreOwn'
  <2>1. h \in held[c] /\ h \in Slots /\ ToInt(h) = h
    BY <1>3, SelectedIsHeld DEF Munmap
  <2> DEFINE r == mmap_pool[h].addr
  <2>2. r \in mapped \ leaked /\ r \in Regions /\ mmap_pool[h].in_use
    BY <1>3, <2>1, EntryRegion DEF Munmap, Entry, Selects
  <2>3. /\ \A i \in Slots \ {h} : mmap_pool'[i] = mmap_pool[i]
        /\ \A d \in Clients \ {c} : held'[d] = held[d]
        /\ held'[c] = held[c] \ {h}
        /\ KernelUnmaps(r) \/ UNCHANGED <<kernelVars, owner>>
    BY <1>3, <2>1 DEF Munmap, Entry, TypeOK
  <2> HIDE DEF r
  <2>4. /\ mapped \ {r} \subseteq mapped'
        /\ \A q \in Regions \ {r} : size'[q] = size[q] /\ owner'[q] = owner[q]
    BY <2>3 DEF KernelUnmaps, TypeOK
  <2>5. ASSUME NEW d \in Clients, NEW g \in held'[d]
        PROVE  LET e == mmap_pool'[g] IN
               /\ e.in_use
               /\ e.addr \in mapped'
               /\ e.length = size'[e.addr]
               /\ owner'[e.addr] = d
               /\ \A b \in Clients : g \in held'[b] => b = d
    <3>1. g \in held[d] /\ g # h /\ g \in Slots
      BY <2>1, <2>3 DEF HandlesAreOwn, TypeOK
    <3>2. mmap_pool[g].in_use /\ mmap_pool[g].addr \in mapped
      BY <3>1 DEF HandlesAreOwn
    <3>3. mmap_pool[g].addr # r
      BY <2>1, <2>2, <3>1, <3>2 DEF PoolMatchesKernel, r
    <3>4. mmap_pool[g].addr \in Regions \ {r}
      BY <3>2, <3>3 DEF TypeOK
    <3>5. \A b \in Clients : held'[b] \subseteq held[b]
      BY <2>3
    <3>6. QED
      BY <2>3, <2>4, <3>1, <3>2, <3>3, <3>4, <3>5 DEF HandlesAreOwn
  <2>6. QED
    BY <2>5 DEF HandlesAreOwn
<1>4. CASE UNCHANGED <<mmap_pool, mapped, size, held, owner>>
  BY <1>4 DEF HandlesAreOwn
<1>5. ASSUME NEW c \in Clients, NEW h \in Arguments(c), GoodAccess(c, h)
      PROVE  UNCHANGED <<mmap_pool, mapped, size, held, owner>>
  BY <1>5 DEF GoodAccess, Load, Store, Faults
<1>6. QED
  BY <1>1, <1>2, <1>3, <1>4, <1>5, NextCases
     DEF Mprotect, KernelRefuses, Rejected, vars

(* No access leaves its mapping: the slot's length is the mapping's.       *)
LEMMA NextAccessStaysInside ==
  ASSUME TypeOK, PoolMatchesKernel, AccessStaysInside, [Next]_vars
  PROVE  AccessStaysInside'
<1>1. ASSUME NEW c \in Clients, NEW h \in Arguments(c), GoodAccess(c, h)
      PROVE  AccessStaysInside'
  <2>1. PICK o, n \in Nat :
          /\ o + n <= Entry(h).length
          /\ Load(h, o, n) \/ Store(c, h, o, n)
    BY <1>1 DEF GoodAccess
  <2>2. ~LeavesMapping(Entry(h).addr, o, n)
    BY <1>1, <2>1, EntryRegion DEF GoodAccess, LeavesMapping, TypeOK
  <2>3. QED
    BY <2>1, <2>2 DEF Load, Store, Faults, AccessStaysInside
<1>2. CASE UNCHANGED stray
  BY <1>2 DEF AccessStaysInside
<1>3. QED
  BY <1>1, <1>2, NextCases
     DEF MmapTakesSlot, MmapFindsPoolFull, Munmap, Mprotect, KernelRefuses,
         Rejected, vars

(* A store goes to a mapping of the client that makes it, and a mapping is *)
(* zeroed when it is made.                                                 *)
LEMMA NextBytesAreTheOwners ==
  ASSUME TypeOK, PoolMatchesKernel, HandlesAreOwn, BytesAreTheOwners,
         [Next]_vars
  PROVE  BytesAreTheOwners'
<1> USE DEF kernelVars, historyVars
<1>1. ASSUME NEW c \in Clients, NEW r \in Regions, NEW length, NEW p,
             KernelMaps(c, r, length, p)
      PROVE  BytesAreTheOwners'
  BY <1>1 DEF KernelMaps, NoBytes, BytesAreTheOwners, TypeOK
<1>2. ASSUME NEW c \in Clients, NEW h \in Arguments(c), Munmap(c, h)
      PROVE  BytesAreTheOwners'
  <2>1. PICK r \in Regions : r = Entry(h).addr
    BY <1>2, EntryRegion DEF Munmap
  <2>2. KernelUnmaps(r) \/ UNCHANGED <<kernelVars, owner>>
    BY <1>2, <2>1 DEF Munmap
  <2>3. QED
    BY <2>2 DEF KernelUnmaps, BytesAreTheOwners, TypeOK
<1>3. ASSUME NEW c \in Clients, NEW h \in Arguments(c), GoodAccess(c, h)
      PROVE  BytesAreTheOwners'
  <2>1. PICK o, n \in Nat : Load(h, o, n) \/ Store(c, h, o, n)
    BY <1>3 DEF GoodAccess
  <2>2. CASE UNCHANGED <<mapped, bytes, owner>>
    BY <2>2 DEF BytesAreTheOwners
  <2>3. CASE Store(c, h, o, n) /\ ~Faults
    <3> DEFINE r == Entry(h).addr
               new == [k \in 0..(MaxLength - 1) |->
                         IF k \in o..(o + n - 1) THEN c ELSE bytes[r][k]]
    <3>1. owner[r] = c /\ r \in mapped /\ r \in Regions
      BY <1>3, SelectedIsHeld, EntryRegion DEF GoodAccess
    <3>2. \A k \in 0..(MaxLength - 1) : new[k] \in {Zero, owner[r]}
      BY <3>1 DEF BytesAreTheOwners
    <3>3. bytes' = [bytes EXCEPT ![r] = new] /\ UNCHANGED <<mapped, owner>>
      BY <2>3 DEF Store
    <3>4. QED
      <4> HIDE DEF r, new
      <4>1. QED
        BY <3>1, <3>2, <3>3 DEF BytesAreTheOwners, TypeOK
  <2>4. QED
    BY <2>1, <2>2, <2>3 DEF Load, Store, Faults
<1>4. CASE UNCHANGED <<mapped, bytes, owner>>
  BY <1>4 DEF BytesAreTheOwners
<1>5. QED
  BY <1>1, <1>2, <1>3, <1>4, NextCases
     DEF MmapTakesSlot, MmapFindsPoolFull, Mprotect, KernelRefuses, Rejected,
         vars

-----------------------------------------------------------------------------
(* The inductive invariant, and what follows from it.                      *)

THEOREM InductiveInvariant == Spec => []IInv
<1>1. IInv /\ [Next]_vars => IInv'
  BY NextTypeOK, NextPoolMatchesKernel, NextHandlesAreOwn,
     NextAccessStaysInside, NextBytesAreTheOwners DEF IInv
<1>2. QED
  BY <1>1, InitIInv, PTL DEF Spec

(* Every variable keeps its type: in particular no client is ever handed   *)
(* a handle that is not an index of the pool.                              *)
THEOREM TypeCorrect == Spec => []TypeOK
BY InductiveInvariant, PTL DEF IInv

(* For any number of clients, slots and mappings, a handle belongs to one  *)
(* client from mmap to munmap and names the mapping made for it.           *)
THEOREM HandlesStayOwn == Spec => []HandlesAreOwn
BY InductiveInvariant, PTL DEF IInv

(* For any width of int64 and any mapping shorter than half of it, no      *)
(* accessor touches a byte outside the mapping behind its handle.          *)
THEOREM AccessesStayInside == Spec => []AccessStaysInside
BY InductiveInvariant, PTL DEF IInv

(* No client's bytes ever appear in another client's mapping.              *)
THEOREM BytesStayTheOwners == Spec => []BytesAreTheOwners
BY InductiveInvariant, PTL DEF IInv

(* The refinement mapping at a slot: the region of a slot in use.          *)
BoundTo(i) == IF mmap_pool[i].in_use THEN mmap_pool[i].addr ELSE NULL

(* Every mapping is behind a handle or was lost in a munmap that failed.   *)
THEOREM MappingsAccounted == Spec => []EveryMappingAccounted
<1>1. IInv => EveryMappingAccounted
  <2> SUFFICES ASSUME IInv
               PROVE  EveryMappingAccounted
    OBVIOUS
  <2> DEFINE B == {BoundTo(i) : i \in Slots} \ {NULL}
  <2>1. TypeOK /\ PoolMatchesKernel
    BY DEF IInv
  <2>2. \A i \in Slots : BoundTo(i) \in (mapped \ leaked) \cup {NULL}
    BY <2>1 DEF BoundTo, PoolMatchesKernel
  <2>3. \A r \in mapped \ leaked : r \in B
    BY <2>1, PoolAssumption DEF BoundTo, PoolMatchesKernel, TypeOK
  <2>4. mapped = B \cup leaked /\ B \cap leaked = {}
    BY <2>1, <2>2, <2>3 DEF PoolMatchesKernel
  <2>5. Table!Bound = B
    BY DEF Table!Bound, BoundTo
  <2>6. QED
    BY <2>4, <2>5 DEF EveryMappingAccounted, Table!EveryResourceAccounted
<1>2. QED
  BY <1>1, InductiveInvariant, PTL

(* A step of the pool is a step of the handle table, or changes nothing    *)
(* the table shows.                                                        *)
LEMMA NextRefinesTable ==
  ASSUME TypeOK, PoolMatchesKernel, [Next]_vars
  PROVE  [Table!Next]_(Table!tableVars)
<1> DEFINE bnd == [i \in Slots |->
                    IF mmap_pool[i].in_use THEN mmap_pool[i].addr ELSE NULL]
<1> USE DEF kernelVars, historyVars
<1>1. ASSUME NEW c \in Clients, NEW length \in LengthArgs,
             NEW p \in Protections, MmapTakesSlot(c, length, p)
      PROVE  Table!Next
  <2> DEFINE f == FirstFree
  <2>1. f \in Slots /\ ~mmap_pool[f].in_use
    BY <1>1, FirstFreeIsFree DEF MmapTakesSlot
  <2>2. PICK r \in Regions :
          /\ KernelMaps(c, r, length, p)
          /\ mmap_pool' = [mmap_pool EXCEPT ![f] =
               [addr |-> r, length |-> SizeT(length), in_use |-> TRUE]]
    BY <1>1 DEF MmapTakesSlot
  <2> HIDE DEF f
  <2>3. bnd[f] = NULL /\ r \notin mapped
    BY <2>1, <2>2 DEF KernelMaps
  <2>4. bnd' = [bnd EXCEPT ![f] = r]
    BY <2>1, <2>2 DEF TypeOK
  <2>5. mapped' = mapped \cup {r} /\ leaked' = leaked
    BY <1>1, <2>2 DEF MmapTakesSlot, KernelMaps
  <2>6. Table!Open(f, r)
    BY <2>3, <2>4, <2>5 DEF Table!Open
  <2>7. QED
    BY <2>1, <2>6 DEF Table!Next
<1>2. ASSUME NEW c \in Clients, NEW length \in LengthArgs,
             NEW p \in Protections, MmapFindsPoolFull(c, length, p)
      PROVE  [Table!Next]_(Table!tableVars)
  <2>1. CASE UNCHANGED <<kernelVars, historyVars>>
    BY <1>2, <2>1 DEF MmapFindsPoolFull, Table!tableVars
  <2>2. CASE \E r \in Regions :
               KernelMaps(c, r, length, p) /\ leaked' = leaked \cup {r}
    <3>1. PICK r \in Regions :
            KernelMaps(c, r, length, p) /\ leaked' = leaked \cup {r}
      BY <2>2
    <3>2. \A i \in Slots : bnd[i] # NULL
      BY <1>2, PoolAssumption
         DEF MmapFindsPoolFull, FreeSlots, PoolMatchesKernel, TypeOK
    <3>3. Table!OpenLoses(r)
      BY <1>2, <3>1, <3>2
         DEF MmapFindsPoolFull, KernelMaps, Table!OpenLoses
    <3>4. QED
      BY <3>3 DEF Table!Next
  <2>3. QED
    BY <1>2, <2>1, <2>2 DEF MmapFindsPoolFull
<1>3. ASSUME NEW c \in Clients, NEW h \in Arguments(c), Munmap(c, h)
      PROVE  Table!Next
  <2> DEFINE g == ToInt(h)
             r == Entry(h).addr
  <2>1. g \in Slots /\ mmap_pool[g].in_use /\ r \in Regions
    BY <1>3, EntryRegion DEF Munmap, Selects
  <2>2. bnd[g] = r /\ bnd[g] # NULL
    BY <2>1, PoolAssumption DEF Entry
  <2>3. bnd' = [bnd EXCEPT ![g] = NULL]
    BY <1>3, <2>1 DEF Munmap, FreeEntry, TypeOK
  <2>4. \/ mapped' = mapped \ {r} /\ leaked' = leaked
        \/ mapped' = mapped /\ leaked' = leaked \cup {r}
    BY <1>3 DEF Munmap, KernelUnmaps
  <2>5. Table!Close(g) \/ Table!CloseFails(g)
    BY <2>2, <2>3, <2>4 DEF Table!Close, Table!CloseFails
  <2>6. QED
    BY <2>1, <2>5 DEF Table!Next
<1>4. CASE UNCHANGED <<mmap_pool, mapped, leaked>>
  BY <1>4 DEF Table!tableVars
<1>5. ASSUME NEW c \in Clients, NEW h \in Arguments(c), GoodAccess(c, h)
      PROVE  UNCHANGED <<mmap_pool, mapped, leaked>>
  BY <1>5 DEF GoodAccess, Load, Store, Faults
<1>6. QED
  BY <1>1, <1>2, <1>3, <1>4, <1>5, NextCases
     DEF Mprotect, KernelRefuses, Rejected, vars

(* The pool implements the handle table, for every pool size.              *)
THEOREM ImplementsTable == Spec => ImplementsHandleTable
<1>1. Init => Table!Init
  BY DEF Init, FreeEntry, Table!Init
<1>2. IInv /\ [Next]_vars => [Table!Next]_(Table!tableVars)
  BY NextRefinesTable DEF IInv
<1>3. QED
  BY <1>1, <1>2, InductiveInvariant, PTL
     DEF Spec, ImplementsHandleTable, Table!Spec
=============================================================================
