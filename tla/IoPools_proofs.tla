---------------------------- MODULE IoPools_proofs ----------------------------
(***************************************************************************)
(* The theorems about IoPools, for any clients, pool sizes, heap blocks,   *)
(* streams, bytes, capacities and counts: handles belong to one client, no *)
(* access leaves its buffer, only what the last read delivered goes out,   *)
(* and both pools implement the handle table.                              *)
(*                                                                         *)
(* The two pools share nothing but last_errno, so the inductive invariant  *)
(* is proved as two: one about the buffers, one about the directories.     *)
(***************************************************************************)
EXTENDS IoPools, SequenceTheorems, WellFoundedInduction, TLAPS

bufferVars == <<buffers, heapVars, held, delivered, historyVars>>
dirVars == <<dir_handles, open, heldDirs>>

(* The inductive invariant of the buffers.                                 *)
BufferTypes ==
  /\ buffers \in [BufferSlots -> BufferType]
  /\ \A i \in BufferSlots : buffers[i].used <= buffers[i].capacity
  /\ allocated \subseteq Blocks
  /\ size \in [Blocks -> Nat]
  /\ heap \in [Blocks -> [1..MaxSize -> Bytes \cup {Junk}]]
  /\ held \in [Clients -> SUBSET BufferSlots]
  /\ delivered \in [BufferSlots -> Seq(Bytes)]
  /\ stray \in BOOLEAN
  /\ foreign \in BOOLEAN

BuffersAreOwn ==
  \A c \in Clients : \A h \in held[c] :
    Active(h) /\ \A d \in Clients : h \in held[d] => d = c

BuffersInv ==
  /\ BufferTypes
  /\ SlotsMatchHeap
  /\ BuffersAreOwn
  /\ ~stray
  /\ ~foreign

(* The inductive invariant of the directories.                             *)
DirTypes ==
  /\ dir_handles \in [DirSlots -> Streams \cup {NULL}]
  /\ open \subseteq Streams
  /\ heldDirs \in [Clients -> SUBSET DirSlots]

DirsAreOwn ==
  \A c \in Clients : \A h \in heldDirs[c] :
    IsOpen(h) /\ \A d \in Clients : h \in heldDirs[d] => d = c

DirsInv ==
  /\ DirTypes
  /\ SlotsMatchStreams
  /\ DirsAreOwn

ErrnoType == last_errno \in {"none", "EINVAL", "ENOMEM", "kernel"}

LEMMA InvariantIsOfTheParts == IInv <=> BuffersInv /\ DirsInv /\ ErrnoType
  BY DEF IInv, TypeOK, HandlesAreOwn, BuffersAreNotOverrun,
         OnlyTheLastReadGoesOut, BuffersInv, BufferTypes, BuffersAreOwn,
         DirsInv, DirTypes, DirsAreOwn, ErrnoType

-----------------------------------------------------------------------------
(* The buffers.                                                            *)

(* What SlotsMatchHeap says of one slot.                                   *)
SlotMatchesHeap(i) ==
  LET e == buffers[i] IN
  IF e.active
  THEN /\ e.data \in allocated
       /\ e.capacity = size[e.data]
       /\ e.capacity <= MaxSize
       /\ delivered[i] = [k \in 1..e.used |-> heap[e.data][k]]
  ELSE e = FreeBuffer

OneSlotPerBlock ==
  \A i, j \in BufferSlots :
    /\ buffers[i].active
    /\ buffers[j].active
    /\ buffers[i].data = buffers[j].data
    => i = j

EveryBlockHasASlot ==
  \A b \in allocated :
    \E i \in BufferSlots : buffers[i].active /\ buffers[i].data = b

LEMMA HeapIsOfTheSlots ==
  SlotsMatchHeap <=> /\ \A i \in BufferSlots : SlotMatchesHeap(i)
                     /\ OneSlotPerBlock
                     /\ EveryBlockHasASlot
  BY DEF SlotsMatchHeap, SlotMatchesHeap, OneSlotPerBlock, EveryBlockHasASlot

(* A capacity that a buffer is created with is positive.                   *)
LEMMA CapacityIsPositive ==
  ASSUME NEW arg \in CapacityArgs
  PROVE  Capacity(arg) \in Nat \ {0}
<1>1. arg \in Int /\ DefaultBuf \in Nat \ {0}
  BY IoAssumption
<1>2. QED
  BY <1>1 DEF Capacity

(* No bytes are the bytes of no slot at all.                               *)
LEMMA NoBytes ==
  ASSUME NEW f
  PROVE  [k \in 1..0 |-> f[k]] = <<>> /\ <<>> \in Seq(Bytes)
  OBVIOUS

(* A scan of a non-empty set of slots stops at the least of them.          *)
LEMMA FirstOfIsLeast ==
  ASSUME NEW S, S \subseteq Nat, S # {}
  PROVE  FirstOf(S) \in S /\ \A j \in S : FirstOf(S) <= j
<1>1. PICK i \in S : \A j \in S : <<j, i>> \notin OpToRel(<, Nat)
  BY NatLessThanWellFounded, WFMin
<1>2. ASSUME NEW j \in S PROVE i <= j
  BY <1>1, <<j, i>> \in Nat \X Nat DEF OpToRel
<1>3. QED
  BY <1>2 DEF FirstOf

(* The slot a creation takes.                                              *)
LEMMA FirstFreeBuffer ==
  ASSUME FreeBuffers # {}
  PROVE  FirstOf(FreeBuffers) \in BufferSlots /\ ~buffers[FirstOf(FreeBuffers)].active
<1>1. FreeBuffers \subseteq Nat
  BY IoAssumption DEF FreeBuffers, BufferSlots
<1>2. FirstOf(FreeBuffers) \in FreeBuffers
  BY <1>1, FirstOfIsLeast
<1>3. QED
  BY <1>2 DEF FreeBuffers

(* A slot goes on matching the heap when it, its last read and its block   *)
(* are left alone.                                                         *)
LEMMA SlotStillMatches ==
  ASSUME NEW j \in BufferSlots, SlotMatchesHeap(j),
         buffers'[j] = buffers[j], delivered'[j] = delivered[j],
         buffers[j].active =>
           /\ buffers[j].data \in allocated'
           /\ size'[buffers[j].data] = size[buffers[j].data]
           /\ heap'[buffers[j].data] = heap[buffers[j].data]
  PROVE  SlotMatchesHeap(j)'
<1>1. CASE buffers[j].active
  <2>1. [k \in 1..buffers[j].used |-> heap'[buffers[j].data][k]]
          = [k \in 1..buffers[j].used |-> heap[buffers[j].data][k]]
    BY <1>1
  <2>2. QED
    BY <1>1, <2>1 DEF SlotMatchesHeap
<1>2. CASE ~buffers[j].active
  BY <1>2 DEF SlotMatchesHeap
<1>3. QED
  BY <1>1, <1>2

LEMMA BufCreateKeeps ==
  ASSUME BuffersInv, NEW c \in Clients, NEW arg \in CapacityArgs,
         BufCreate(c, arg)
  PROVE  BuffersInv'
<1> DEFINE i == FirstOf(FreeBuffers)
           cap == Capacity(arg)
<1>1. i \in BufferSlots /\ ~buffers[i].active /\ cap \in Nat
  BY FirstFreeBuffer, CapacityIsPositive DEF BufCreate
<1>2. PICK b \in Blocks :
        /\ Mallocs(b, cap)
        /\ buffers' = [buffers EXCEPT ![i] =
             [data |-> b, capacity |-> cap, used |-> 0, active |-> TRUE]]
  BY DEF BufCreate
<1> DEFINE e == [data |-> b, capacity |-> cap, used |-> 0, active |-> TRUE]
<1>3. /\ held' = [held EXCEPT ![c] = @ \cup {i}]
      /\ delivered' = [delivered EXCEPT ![i] = <<>>]
      /\ heap' = heap /\ stray' = stray /\ foreign' = foreign
  BY DEF BufCreate, historyVars
<1>4. /\ b \notin allocated /\ cap <= MaxSize
      /\ allocated' = allocated \cup {b}
      /\ size' = [size EXCEPT ![b] = cap]
  BY <1>2 DEF Mallocs
<1> HIDE DEF i, cap
<1>5. /\ e \in BufferType /\ e.data = b /\ e.capacity = cap /\ e.used = 0
      /\ e.active
  BY <1>1 DEF BufferType
<1>6. buffers' = [buffers EXCEPT ![i] = e]
  BY <1>2
<1> HIDE DEF e
<1>7. buffers'[i] = e /\ \A j \in BufferSlots : j # i => buffers'[j] = buffers[j]
  BY <1>1, <1>6 DEF BuffersInv, BufferTypes
<1>8. <<>> \in Seq(Bytes)
  BY NoBytes
<1>9. BufferTypes'
  BY <1>1, <1>3, <1>4, <1>5, <1>6, <1>7, <1>8 DEF BuffersInv, BufferTypes
<1>10. /\ \A j \in BufferSlots : SlotMatchesHeap(j)
       /\ OneSlotPerBlock /\ EveryBlockHasASlot
  BY HeapIsOfTheSlots DEF BuffersInv
<1>11. ASSUME NEW j \in BufferSlots
       PROVE  SlotMatchesHeap(j)'
  <2>1. CASE j = i
    <3>1. delivered'[j] = <<>> /\ size'[b] = cap
      BY <1>1, <1>3, <1>4, <2>1 DEF BuffersInv, BufferTypes
    <3>2. [k \in 1..0 |-> heap'[b][k]] = <<>>
      BY NoBytes
    <3>3. QED
      BY <1>4, <1>5, <1>7, <2>1, <3>1, <3>2 DEF SlotMatchesHeap
  <2>2. CASE j # i
    <3>1. SlotMatchesHeap(j) /\ buffers'[j] = buffers[j] /\ delivered'[j] = delivered[j]
      BY <1>3, <1>7, <1>10, <2>2 DEF BuffersInv, BufferTypes
    <3>2. buffers[j].active => buffers[j].data \in allocated' /\ size'[buffers[j].data] = size[buffers[j].data]
      BY <1>4, <3>1 DEF SlotMatchesHeap, BuffersInv, BufferTypes
    <3>3. QED
      BY <1>3, <3>1, <3>2 DEF SlotMatchesHeap
  <2>3. QED
    BY <2>1, <2>2
<1>12. \A j \in BufferSlots : j # i /\ buffers[j].active => buffers[j].data # b
  BY <1>4, <1>10 DEF SlotMatchesHeap
<1>13. OneSlotPerBlock'
  BY <1>5, <1>7, <1>10, <1>12 DEF OneSlotPerBlock
<1>14. EveryBlockHasASlot'
  BY <1>1, <1>4, <1>5, <1>7, <1>10 DEF EveryBlockHasASlot
<1>15. BuffersAreOwn'
  BY <1>1, <1>3, <1>5, <1>7 DEF BuffersInv, BufferTypes, BuffersAreOwn, Active
<1>16. SlotsMatchHeap'
  BY <1>11, <1>13, <1>14 DEF SlotsMatchHeap, SlotMatchesHeap, OneSlotPerBlock, EveryBlockHasASlot
<1>17. QED
  BY <1>3, <1>9, <1>15, <1>16 DEF BuffersInv

LEMMA BufReleaseKeeps ==
  ASSUME BuffersInv, NEW c \in Clients, NEW h \in held[c], BufRelease(c, h)
  PROVE  BuffersInv'
<1> DEFINE b == buffers[h].data
<1>1. /\ \A j \in BufferSlots : SlotMatchesHeap(j)
      /\ OneSlotPerBlock /\ EveryBlockHasASlot
  BY HeapIsOfTheSlots DEF BuffersInv
<1>2. h \in BufferSlots /\ buffers[h].active /\ b \in allocated /\ b \in Blocks
  BY <1>1 DEF BufRelease, Active, SlotMatchesHeap, BuffersInv, BufferTypes
<1>3. /\ allocated' = allocated \ {b}
      /\ size' = [size EXCEPT ![b] = 0]
      /\ heap' = [heap EXCEPT ![b] = [k \in 1..MaxSize |-> Junk]]
      /\ buffers' = [buffers EXCEPT ![h] = FreeBuffer]
      /\ held' = [held EXCEPT ![c] = @ \ {h}]
      /\ delivered' = [delivered EXCEPT ![h] = <<>>]
      /\ stray' = stray /\ foreign' = foreign
  BY DEF BufRelease, historyVars
<1> HIDE DEF b
<1>4. /\ FreeBuffer \in BufferType /\ ~FreeBuffer.active
      /\ FreeBuffer.used <= FreeBuffer.capacity
  BY DEF FreeBuffer, BufferType
<1>5. buffers'[h] = FreeBuffer /\ \A j \in BufferSlots : j # h => buffers'[j] = buffers[j]
  BY <1>2, <1>3 DEF BuffersInv, BufferTypes
<1>6. <<>> \in Seq(Bytes)
  BY NoBytes
<1>7. BufferTypes'
  <2>1. [k \in 1..MaxSize |-> Junk] \in [1..MaxSize -> Bytes \cup {Junk}]
    OBVIOUS
  <2>2. heap' \in [Blocks -> [1..MaxSize -> Bytes \cup {Junk}]]
    BY <1>3, <2>1 DEF BuffersInv, BufferTypes
  <2>3. QED
    BY <1>2, <1>3, <1>4, <1>5, <1>6, <2>2 DEF BuffersInv, BufferTypes
<1>8. \A j \in BufferSlots : j # h /\ buffers[j].active => buffers[j].data # b
  BY <1>1, <1>2 DEF OneSlotPerBlock, b
<1>9. ASSUME NEW j \in BufferSlots
      PROVE  SlotMatchesHeap(j)'
  <2>1. CASE j = h
    BY <1>4, <1>5, <2>1 DEF SlotMatchesHeap
  <2>2. CASE j # h
    <3>1. SlotMatchesHeap(j) /\ buffers'[j] = buffers[j] /\ delivered'[j] = delivered[j]
      BY <1>1, <1>3, <1>5, <2>2 DEF BuffersInv, BufferTypes
    <3>2. buffers[j].active =>
            /\ buffers[j].data \in allocated'
            /\ size'[buffers[j].data] = size[buffers[j].data]
            /\ heap'[buffers[j].data] = heap[buffers[j].data]
      BY <1>3, <1>8, <2>2, <3>1 DEF SlotMatchesHeap, BuffersInv, BufferTypes
    <3>3. QED
      BY <3>1, <3>2, SlotStillMatches
  <2>3. QED
    BY <2>1, <2>2
<1>10. OneSlotPerBlock'
  BY <1>1, <1>4, <1>5 DEF OneSlotPerBlock
<1>11. EveryBlockHasASlot'
  BY <1>1, <1>2, <1>3, <1>5 DEF EveryBlockHasASlot, b
<1>12. BuffersAreOwn'
  BY <1>2, <1>3, <1>5 DEF BuffersInv, BufferTypes, BuffersAreOwn, Active
<1>13. SlotsMatchHeap'
  BY <1>9, <1>10, <1>11 DEF SlotsMatchHeap, SlotMatchesHeap, OneSlotPerBlock, EveryBlockHasASlot
<1>14. QED
  BY <1>3, <1>7, <1>12, <1>13 DEF BuffersInv

(* A buffer of a client is used: its slot, its block and what it delivered *)
(* change, and agree again.                                                *)
LEMMA UseKeeps ==
  ASSUME BuffersInv, NEW h \in BufferSlots, buffers[h].active,
         NEW n \in Nat, n <= buffers[h].capacity,
         buffers' = [buffers EXCEPT ![h].used = n],
         NEW s \in Seq(Bytes), delivered' = [delivered EXCEPT ![h] = s],
         heap' \in [Blocks -> [1..MaxSize -> Bytes \cup {Junk}]],
         \A a \in Blocks : a # buffers[h].data => heap'[a] = heap[a],
         s = [k \in 1..n |-> heap'[buffers[h].data][k]],
         UNCHANGED <<allocated, size, held>>, ~stray', ~foreign',
         stray' \in BOOLEAN, foreign' \in BOOLEAN
  PROVE  BuffersInv'
<1> DEFINE e == [buffers[h] EXCEPT !.used = n]
<1>1. /\ \A j \in BufferSlots : SlotMatchesHeap(j)
      /\ OneSlotPerBlock /\ EveryBlockHasASlot
  BY HeapIsOfTheSlots DEF BuffersInv
<1>2. buffers[h] \in BufferType
  BY DEF BuffersInv, BufferTypes
<1>3. /\ e \in BufferType /\ e.active /\ e.data = buffers[h].data
      /\ e.capacity = buffers[h].capacity /\ e.used = n
  BY <1>2 DEF BufferType
<1>4. buffers' = [buffers EXCEPT ![h] = e]
  BY DEF BuffersInv, BufferTypes
<1> HIDE DEF e
<1>5. buffers'[h] = e /\ \A j \in BufferSlots : j # h => buffers'[j] = buffers[j]
  BY <1>4 DEF BuffersInv, BufferTypes
<1>6. BufferTypes'
  BY <1>3, <1>4, <1>5 DEF BuffersInv, BufferTypes
<1>7. \A j \in BufferSlots : j # h /\ buffers[j].active => buffers[j].data # buffers[h].data
  BY <1>1 DEF OneSlotPerBlock
<1>8. ASSUME NEW j \in BufferSlots
      PROVE  SlotMatchesHeap(j)'
  <2>1. CASE j = h
    <3>1. delivered'[h] = [k \in 1..n |-> heap'[buffers[h].data][k]]
      BY DEF BuffersInv, BufferTypes
    <3>2. /\ buffers[h].data \in allocated /\ buffers[h].capacity = size[buffers[h].data]
          /\ buffers[h].capacity <= MaxSize
      BY <1>1 DEF SlotMatchesHeap
    <3>3. /\ buffers'[j].active /\ buffers'[j].data = buffers[h].data
          /\ buffers'[j].used = n /\ buffers'[j].capacity = buffers[h].capacity
      BY <1>3, <1>5, <2>1
    <3>4. delivered'[j] = [k \in 1..buffers'[j].used |-> heap'[buffers'[j].data][k]]
      BY <2>1, <3>1, <3>3
    <3>5. QED
      BY <3>2, <3>3, <3>4 DEF SlotMatchesHeap
  <2>2. CASE j # h
    <3>1. SlotMatchesHeap(j) /\ buffers'[j] = buffers[j] /\ delivered'[j] = delivered[j]
      BY <1>1, <1>5, <2>2 DEF BuffersInv, BufferTypes
    <3>2. buffers[j].active =>
            /\ buffers[j].data \in allocated'
            /\ size'[buffers[j].data] = size[buffers[j].data]
            /\ heap'[buffers[j].data] = heap[buffers[j].data]
      BY <1>7, <2>2, <3>1 DEF SlotMatchesHeap, BuffersInv, BufferTypes
    <3>3. QED
      BY <3>1, <3>2, SlotStillMatches
  <2>3. QED
    BY <2>1, <2>2
<1>9. OneSlotPerBlock'
  BY <1>1, <1>3, <1>5 DEF OneSlotPerBlock
<1>10. EveryBlockHasASlot'
  BY <1>1, <1>3, <1>5 DEF EveryBlockHasASlot
<1>11. BuffersAreOwn'
  BY <1>3, <1>5 DEF BuffersInv, BufferTypes, BuffersAreOwn, Active
<1>12. SlotsMatchHeap'
  BY <1>8, <1>9, <1>10 DEF SlotsMatchHeap, SlotMatchesHeap, OneSlotPerBlock, EveryBlockHasASlot
<1>13. QED
  BY <1>6, <1>11, <1>12 DEF BuffersInv

(* What is known of an active buffer.                                      *)
LEMMA ActiveFacts ==
  ASSUME BuffersInv, NEW h, Active(h)
  PROVE  /\ h \in BufferSlots /\ buffers[h].active
         /\ buffers[h].data \in Blocks
         /\ buffers[h].capacity \in Nat /\ buffers[h].used \in Nat
         /\ buffers[h].used <= buffers[h].capacity
         /\ buffers[h].capacity = size[buffers[h].data]
         /\ buffers[h].capacity <= MaxSize
         /\ delivered[h] = [k \in 1..buffers[h].used |-> heap[buffers[h].data][k]]
<1>1. h \in BufferSlots /\ buffers[h].active /\ SlotMatchesHeap(h)
  BY HeapIsOfTheSlots DEF BuffersInv, Active
<1>2. buffers[h] \in BufferType /\ buffers[h].used <= buffers[h].capacity
  BY <1>1 DEF BuffersInv, BufferTypes
<1>3. QED
  BY <1>1, <1>2 DEF SlotMatchesHeap, BufferType, BuffersInv, BufferTypes

(* read asks for no more than the buffer holds.                            *)
LEMMA ReadFits ==
  ASSUME NEW count \in Int, NEW cap \in Nat, NEW n \in 0..Least(count, cap)
  PROVE  n \in Nat /\ n <= cap
  BY DEF Least

LEMMA ReadKeeps ==
  ASSUME BuffersInv, NEW h, NEW count \in CountArgs, Read(h, count)
  PROVE  BuffersInv'
<1> DEFINE b == buffers[h].data
<1>1. /\ h \in BufferSlots /\ buffers[h].active /\ b \in Blocks
      /\ buffers[h].capacity \in Nat /\ buffers[h].capacity = size[b]
      /\ buffers[h].capacity <= MaxSize
  BY ActiveFacts DEF Read
<1>2. count \in Int /\ MaxSize \in Nat
  BY IoAssumption
<1>3. PICK n \in 0..ReadCount(h, count) :
        \E s \in [1..n -> Bytes] :
          /\ heap' = [heap EXCEPT ![b] =
               [k \in 1..MaxSize |-> IF k <= n THEN s[k] ELSE heap[b][k]]]
          /\ buffers' = [buffers EXCEPT ![h].used = n]
          /\ delivered' = [delivered EXCEPT ![h] = s]
          /\ stray' = (stray \/ n > size[b])
  BY DEF Read
<1>4. PICK s \in [1..n -> Bytes] :
        /\ heap' = [heap EXCEPT ![b] =
             [k \in 1..MaxSize |-> IF k <= n THEN s[k] ELSE heap[b][k]]]
        /\ buffers' = [buffers EXCEPT ![h].used = n]
        /\ delivered' = [delivered EXCEPT ![h] = s]
        /\ stray' = (stray \/ n > size[b])
  BY <1>3
<1>5. UNCHANGED <<allocated, size, held, foreign>>
  BY DEF Read
<1>6. n \in Nat /\ n <= buffers[h].capacity
  BY <1>1, <1>2, ReadFits DEF ReadCount
<1>7. s \in Seq(Bytes)
  BY <1>6
<1> DEFINE new == [k \in 1..MaxSize |-> IF k <= n THEN s[k] ELSE heap[b][k]]
<1> HIDE DEF b
<1>8. new \in [1..MaxSize -> Bytes \cup {Junk}]
  <2>1. heap[b] \in [1..MaxSize -> Bytes \cup {Junk}]
    BY <1>1 DEF BuffersInv, BufferTypes
  <2>2. ASSUME NEW k \in 1..MaxSize
        PROVE  (IF k <= n THEN s[k] ELSE heap[b][k]) \in Bytes \cup {Junk}
    BY <1>6, <2>1, <1>2
  <2>3. QED
    BY <2>2
<1>9. s = [k \in 1..n |-> new[k]]
  BY <1>1, <1>2, <1>6
<1>10. heap' = [heap EXCEPT ![b] = new]
  BY <1>4
<1> HIDE DEF new
<1>11. /\ heap' \in [Blocks -> [1..MaxSize -> Bytes \cup {Junk}]]
       /\ heap'[b] = new
       /\ \A a \in Blocks : a # b => heap'[a] = heap[a]
  BY <1>1, <1>8, <1>10 DEF BuffersInv, BufferTypes
<1>12. ~stray' /\ ~foreign' /\ stray' \in BOOLEAN /\ foreign' \in BOOLEAN
  BY <1>1, <1>4, <1>5, <1>6 DEF BuffersInv, BufferTypes
<1>13. s = [k \in 1..n |-> heap'[b][k]]
  BY <1>9, <1>11
<1>14. QED
  BY <1>1, <1>4, <1>5, <1>6, <1>7, <1>11, <1>12, <1>13, UseKeeps DEF b

LEMMA ReadFailsKeeps ==
  ASSUME BuffersInv, NEW h, ReadFails(h)
  PROVE  BuffersInv'
<1>1. h \in BufferSlots /\ buffers[h].active /\ buffers[h].capacity \in Nat
  BY ActiveFacts DEF ReadFails
<1>2. /\ buffers' = [buffers EXCEPT ![h].used = 0]
      /\ delivered' = [delivered EXCEPT ![h] = <<>>]
      /\ UNCHANGED <<allocated, size, heap, held, stray, foreign>>
  BY DEF ReadFails, heapVars, historyVars
<1>3. <<>> = [k \in 1..0 |-> heap'[buffers[h].data][k]] /\ <<>> \in Seq(Bytes)
  BY NoBytes
<1>4. /\ heap' \in [Blocks -> [1..MaxSize -> Bytes \cup {Junk}]]
      /\ ~stray' /\ ~foreign' /\ stray' \in BOOLEAN /\ foreign' \in BOOLEAN
  BY <1>2 DEF BuffersInv, BufferTypes
<1>5. 0 <= buffers[h].capacity
  BY <1>1
<1>6. QED
  BY <1>1, <1>2, <1>3, <1>4, <1>5, UseKeeps

(* The first bytes of a buffer are the first bytes it delivered.           *)
LEMMA BeginningIsPrefix ==
  ASSUME NEW f, NEW m \in Nat, NEW n \in Nat, n <= m
  PROVE  IsPrefixOf([k \in 1..n |-> f[k]], [k \in 1..m |-> f[k]])
  BY DEF IsPrefixOf

LEMMA HandsOutKeeps ==
  ASSUME BuffersInv, NEW h, NEW n \in Nat, n <= buffers[h].used, HandsOut(h, n)
  PROVE  BuffersInv'
<1> DEFINE b == buffers[h].data
           s == [k \in 1..n |-> heap[b][k]]
<1>1. /\ buffers[h].used \in Nat /\ buffers[h].used <= size[b] /\ size[b] \in Nat
      /\ delivered[h] = [k \in 1..buffers[h].used |-> heap[b][k]]
  BY ActiveFacts DEF HandsOut
<1>2. IsPrefixOf(s, delivered[h])
  BY <1>1, BeginningIsPrefix
<1>3. ~(n > size[b])
  BY <1>1
<1>4. stray' = stray /\ foreign' = foreign
  BY <1>2, <1>3 DEF HandsOut, BuffersInv, BufferTypes
<1>5. UNCHANGED <<buffers, allocated, size, heap, held, delivered>>
  BY DEF HandsOut, heapVars, clientVars
<1>6. QED
  BY <1>4, <1>5 DEF BuffersInv, BufferTypes, SlotsMatchHeap, BuffersAreOwn, Active

(* A step of the buffer pool, and what leaves the buffers alone.           *)
LEMMA BuffersKeep ==
  ASSUME BuffersInv, UNCHANGED bufferVars
  PROVE  BuffersInv'
  BY DEF bufferVars, heapVars, historyVars, BuffersInv, BufferTypes,
         SlotsMatchHeap, BuffersAreOwn, Active

LEMMA WriteBytesKeeps ==
  ASSUME BuffersInv, NEW h, NEW count \in CountArgs, WriteBytes(h, count)
  PROVE  BuffersInv'
<1>1. count \in Int
  BY IoAssumption
<1>2. CASE count >= 0 /\ HandsOut(h, Least(count, buffers[h].used))
  <2>1. buffers[h].used \in Nat
    BY <1>2, ActiveFacts DEF HandsOut
  <2>2. Least(count, buffers[h].used) \in Nat /\ Least(count, buffers[h].used) <= buffers[h].used
    BY <1>1, <1>2, <2>1 DEF Least
  <2>3. QED
    BY <1>2, <2>2, HandsOutKeeps
<1>3. CASE OnlyErrno("kernel")
  BY <1>3, BuffersKeep DEF OnlyErrno, bufferVars, clientVars
<1>4. QED
  BY <1>2, <1>3 DEF WriteBytes

LEMMA BufToStringKeeps ==
  ASSUME BuffersInv, NEW h, BufToString(h)
  PROVE  BuffersInv'
<1>1. CASE HandsOut(h, buffers[h].used)
  <2>1. buffers[h].used \in Nat /\ buffers[h].used <= buffers[h].used
    BY <1>1, ActiveFacts DEF HandsOut
  <2>2. QED
    BY <1>1, <2>1, HandsOutKeeps
<1>2. CASE OnlyErrno("ENOMEM")
  BY <1>2, BuffersKeep DEF OnlyErrno, bufferVars, clientVars
<1>3. QED
  BY <1>1, <1>2 DEF BufToString

(* A stray handle selects no slot of either pool.                          *)
LEMMA StraySelectsNothing ==
  ASSUME NEW h \in StrayHandles
  PROVE  ~Active(h) /\ ~IsOpen(h)
  BY IoAssumption DEF Active, IsOpen

-----------------------------------------------------------------------------
(* The directories.                                                        *)

LEMMA FirstFreeDir ==
  ASSUME FreeDirs # {}
  PROVE  FirstOf(FreeDirs) \in DirSlots /\ dir_handles[FirstOf(FreeDirs)] = NULL
<1>1. FreeDirs \subseteq Nat
  BY IoAssumption DEF FreeDirs, DirSlots
<1>2. FirstOf(FreeDirs) \in FreeDirs
  BY <1>1, FirstOfIsLeast
<1>3. QED
  BY <1>2 DEF FreeDirs

LEMMA DirsKeep ==
  ASSUME DirsInv, UNCHANGED dirVars
  PROVE  DirsInv'
  BY DEF dirVars, DirsInv, DirTypes, SlotsMatchStreams, DirsAreOwn, IsOpen

LEMMA OpendirKeeps ==
  ASSUME DirsInv, NEW c \in Clients, Opendir(c)
  PROVE  DirsInv'
<1> DEFINE i == FirstOf(FreeDirs)
<1>1. i \in DirSlots /\ dir_handles[i] = NULL
  BY FirstFreeDir DEF Opendir
<1>2. PICK d \in Streams \ open :
        open' = open \cup {d} /\ dir_handles' = [dir_handles EXCEPT ![i] = d]
  BY DEF Opendir
<1>3. heldDirs' = [heldDirs EXCEPT ![c] = @ \cup {i}]
  BY DEF Opendir
<1> HIDE DEF i
<1>4. d # NULL
  BY IoAssumption
<1>5. dir_handles'[i] = d /\ \A j \in DirSlots : j # i => dir_handles'[j] = dir_handles[j]
  BY <1>1, <1>2 DEF DirsInv, DirTypes
<1>6. DirTypes'
  BY <1>1, <1>2, <1>3 DEF DirsInv, DirTypes
<1>7. SlotsMatchStreams'
  <2>1. \A j \in DirSlots : j # i => dir_handles[j] # d
    BY <1>4 DEF DirsInv, SlotsMatchStreams
  <2>2. \A j \in DirSlots : dir_handles'[j] # NULL => dir_handles'[j] \in open'
    BY <1>2, <1>5 DEF DirsInv, SlotsMatchStreams
  <2>3. \A j, k \in DirSlots :
          dir_handles'[j] # NULL /\ dir_handles'[j] = dir_handles'[k] => j = k
    BY <1>5, <2>1 DEF DirsInv, SlotsMatchStreams
  <2>4. \A x \in open' : \E j \in DirSlots : dir_handles'[j] = x
    <3>1. ASSUME NEW x \in open
          PROVE  \E j \in DirSlots : dir_handles'[j] = x
      <4>1. PICK j \in DirSlots : dir_handles[j] = x
        BY DEF DirsInv, SlotsMatchStreams
      <4>2. x # NULL
        BY IoAssumption DEF DirsInv, DirTypes
      <4>3. QED
        BY <1>1, <1>5, <4>1, <4>2
    <3>2. QED
      BY <1>1, <1>2, <1>5, <3>1
  <2>5. QED
    BY <2>2, <2>3, <2>4 DEF SlotsMatchStreams
<1>8. DirsAreOwn'
  BY <1>1, <1>3, <1>4, <1>5 DEF DirsInv, DirTypes, DirsAreOwn, IsOpen
<1>9. QED
  BY <1>6, <1>7, <1>8 DEF DirsInv

LEMMA ClosedirKeeps ==
  ASSUME DirsInv, NEW c \in Clients, NEW h \in heldDirs[c], Closedir(c, h)
  PROVE  DirsInv'
<1>1. /\ h \in DirSlots /\ dir_handles[h] # NULL
      /\ open' = open \ {dir_handles[h]}
      /\ dir_handles' = [dir_handles EXCEPT ![h] = NULL]
      /\ heldDirs' = [heldDirs EXCEPT ![c] = @ \ {h}]
  BY DEF Closedir, IsOpen
<1>2. dir_handles'[h] = NULL /\ \A j \in DirSlots : j # h => dir_handles'[j] = dir_handles[j]
  BY <1>1 DEF DirsInv, DirTypes
<1>3. DirTypes'
  BY <1>1 DEF DirsInv, DirTypes
<1>4. SlotsMatchStreams'
  <2>1. \A j \in DirSlots : dir_handles'[j] # NULL => dir_handles'[j] \in open'
    BY <1>1, <1>2 DEF DirsInv, SlotsMatchStreams
  <2>2. \A j, k \in DirSlots :
          dir_handles'[j] # NULL /\ dir_handles'[j] = dir_handles'[k] => j = k
    BY <1>2 DEF DirsInv, SlotsMatchStreams
  <2>3. \A d \in open' : \E j \in DirSlots : dir_handles'[j] = d
    BY <1>1, <1>2 DEF DirsInv, SlotsMatchStreams
  <2>4. QED
    BY <2>1, <2>2, <2>3 DEF SlotsMatchStreams
<1>5. DirsAreOwn'
  BY <1>1, <1>2 DEF DirsInv, DirTypes, DirsAreOwn, IsOpen
<1>6. QED
  BY <1>3, <1>4, <1>5 DEF DirsInv

-----------------------------------------------------------------------------
(* The steps of the whole file.                                            *)

(* Every step is one of a buffer that its caller holds, or of a directory  *)
(* its caller holds, or changes nothing but last_errno.                    *)
BufferStep ==
  /\ UNCHANGED dirVars
  /\ \E c \in Clients :
       \/ \E arg \in CapacityArgs : BufCreate(c, arg)
       \/ \E h \in held[c] :
            \/ BufRelease(c, h)
            \/ \E count \in CountArgs : Read(h, count) \/ WriteBytes(h, count)
            \/ ReadFails(h)
            \/ BufToString(h)

DirStep ==
  /\ UNCHANGED bufferVars
  /\ \E c \in Clients :
       \/ Opendir(c)
       \/ \E h \in heldDirs[c] : Closedir(c, h)

LEMMA NextCases ==
  ASSUME [Next]_vars
  PROVE  BufferStep \/ DirStep \/ UNCHANGED <<bufferVars, dirVars>>
<1>1. ASSUME NEW errno, OnlyErrno(errno)
      PROVE  UNCHANGED <<bufferVars, dirVars>>
  BY <1>1 DEF OnlyErrno, bufferVars, dirVars, clientVars
<1>2. ASSUME NEW c \in Clients, NEW arg \in CapacityArgs, BufCreate(c, arg)
      PROVE  BufferStep
  BY <1>2 DEF BufferStep, BufCreate, dirVars
<1>3. ASSUME NEW c \in Clients, Opendir(c)
      PROVE  DirStep
  BY <1>3 DEF DirStep, Opendir, bufferVars
<1>4. ASSUME NEW c \in Clients, NEW h \in held[c], BufferCall(c, h)
      PROVE  BufferStep \/ UNCHANGED <<bufferVars, dirVars>>
  <2>1. CASE BadBuffer(h)
    BY <1>1, <2>1 DEF BadBuffer
  <2>2. CASE BufRelease(c, h)
    BY <2>2 DEF BufferStep, BufRelease, dirVars
  <2>3. ASSUME NEW count \in CountArgs, Read(h, count)
        PROVE  BufferStep
    BY <2>3 DEF BufferStep, Read, dirVars
  <2>4. ASSUME NEW count \in CountArgs, WriteBytes(h, count)
        PROVE  BufferStep
    BY <2>4 DEF BufferStep, WriteBytes, HandsOut, OnlyErrno, dirVars, clientVars
  <2>5. CASE ReadFails(h)
    BY <2>5 DEF BufferStep, ReadFails, dirVars
  <2>6. CASE BufToString(h)
    BY <2>6 DEF BufferStep, BufToString, HandsOut, OnlyErrno, dirVars, clientVars
  <2>7. QED
    BY <1>4, <2>1, <2>2, <2>3, <2>4, <2>5, <2>6 DEF BufferCall
<1>5. ASSUME NEW c \in Clients, NEW h \in StrayHandles, BufferCall(c, h)
      PROVE  UNCHANGED <<bufferVars, dirVars>>
  <2>1. ~Active(h)
    BY StraySelectsNothing
  <2>2. BadBuffer(h) \/ OnlyErrno("kernel") \/ OnlyErrno("ENOMEM")
    BY <1>5, <2>1 DEF BufferCall, BufRelease, Read, WriteBytes, ReadFails,
                      BufToString, HandsOut
  <2>3. QED
    BY <1>1, <2>2 DEF BadBuffer
<1>6. ASSUME NEW c \in Clients, NEW h \in heldDirs[c], DirCall(c, h)
      PROVE  DirStep \/ UNCHANGED <<bufferVars, dirVars>>
  <2>1. CASE Closedir(c, h)
    BY <2>1 DEF DirStep, Closedir, bufferVars
  <2>2. CASE ReaddirNext(h) \/ BadDir(h)
    BY <1>1, <2>2 DEF ReaddirNext, BadDir
  <2>3. QED
    BY <1>6, <2>1, <2>2 DEF DirCall
<1>7. ASSUME NEW c \in Clients, NEW h \in StrayHandles, DirCall(c, h)
      PROVE  UNCHANGED <<bufferVars, dirVars>>
  <2>1. ~IsOpen(h)
    BY StraySelectsNothing
  <2>2. BadDir(h)
    BY <1>7, <2>1 DEF DirCall, ReaddirNext, Closedir
  <2>3. QED
    BY <1>1, <2>2 DEF BadDir
<1>8. CASE BufCreateFails \/ OpendirFails \/ DescriptorCall \/ PathCall
  BY <1>1, <1>8 DEF BufCreateFails, OpendirFails, DescriptorCall, PathCall
<1>9. CASE UNCHANGED vars
  BY <1>9 DEF vars, bufferVars, dirVars, clientVars
<1>10. QED
  BY <1>2, <1>3, <1>4, <1>5, <1>6, <1>7, <1>8, <1>9 DEF Next

(* Every call leaves one of the error codes.                               *)
LEMMA ErrnoKeeps ==
  ASSUME ErrnoType, [Next]_vars
  PROVE  ErrnoType'
<1>1. CASE UNCHANGED vars
  BY <1>1 DEF vars, ErrnoType
<1>2. ASSUME NEW c \in Clients, NEW h, BufferCall(c, h)
      PROVE  ErrnoType'
  BY <1>2 DEF BufferCall, BufRelease, Read, WriteBytes, ReadFails, BufToString,
              HandsOut, BadBuffer, OnlyErrno, ErrnoType
<1>3. ASSUME NEW c \in Clients, NEW h, DirCall(c, h)
      PROVE  ErrnoType'
  BY <1>3 DEF DirCall, ReaddirNext, Closedir, BadDir, OnlyErrno, ErrnoType
<1>4. ASSUME NEW c \in Clients, Opendir(c) \/ \E arg \in CapacityArgs : BufCreate(c, arg)
      PROVE  ErrnoType'
  BY <1>4 DEF Opendir, BufCreate, ErrnoType
<1>5. CASE BufCreateFails \/ OpendirFails \/ DescriptorCall \/ PathCall
  BY <1>5 DEF BufCreateFails, OpendirFails, DescriptorCall, PathCall, OnlyErrno,
              ErrnoType
<1>6. QED
  BY <1>1, <1>2, <1>3, <1>4, <1>5 DEF Next

LEMMA InitIInv == Init => IInv
<1> SUFFICES ASSUME Init
             PROVE  BuffersInv /\ DirsInv /\ ErrnoType
  BY InvariantIsOfTheParts
<1>1. FreeBuffer \in BufferType /\ ~FreeBuffer.active /\ FreeBuffer.used <= FreeBuffer.capacity
  BY DEF FreeBuffer, BufferType
<1>2. BufferTypes
  BY <1>1, NoBytes DEF Init, BufferTypes
<1>3. SlotsMatchHeap
  BY <1>1 DEF Init, SlotsMatchHeap
<1>4. BuffersAreOwn /\ ~stray /\ ~foreign
  BY DEF Init, BuffersAreOwn
<1>5. DirsInv
  BY DEF Init, DirsInv, DirTypes, SlotsMatchStreams, DirsAreOwn
<1>6. QED
  BY <1>2, <1>3, <1>4, <1>5 DEF Init, BuffersInv, ErrnoType

LEMMA NextIInv == IInv /\ [Next]_vars => IInv'
<1> SUFFICES ASSUME BuffersInv, DirsInv, ErrnoType, [Next]_vars
             PROVE  BuffersInv' /\ DirsInv'
  <2>1. BuffersInv' /\ DirsInv' /\ ErrnoType' => IInv'
    BY DEF IInv, TypeOK, HandlesAreOwn, BuffersAreNotOverrun,
           OnlyTheLastReadGoesOut, BuffersInv, BufferTypes, BuffersAreOwn,
           DirsInv, DirTypes, DirsAreOwn, ErrnoType
  <2>2. QED
    BY <2>1, InvariantIsOfTheParts, ErrnoKeeps
<1>1. CASE BufferStep
  <2>1. BuffersInv'
    BY <1>1, BufCreateKeeps, BufReleaseKeeps, ReadKeeps, WriteBytesKeeps,
       ReadFailsKeeps, BufToStringKeeps DEF BufferStep
  <2>2. DirsInv'
    BY <1>1, DirsKeep DEF BufferStep
  <2>3. QED
    BY <2>1, <2>2
<1>2. CASE DirStep
  <2>1. DirsInv'
    BY <1>2, OpendirKeeps, ClosedirKeeps DEF DirStep
  <2>2. BuffersInv'
    BY <1>2, BuffersKeep DEF DirStep
  <2>3. QED
    BY <2>1, <2>2
<1>3. CASE UNCHANGED <<bufferVars, dirVars>>
  BY <1>3, BuffersKeep, DirsKeep
<1>4. QED
  BY <1>1, <1>2, <1>3, NextCases

-----------------------------------------------------------------------------
(* The theorems.                                                           *)

(* Every reachable state satisfies the inductive invariant.                *)
THEOREM InductiveInvariant == Spec => []IInv
BY InitIInv, NextIInv, PTL DEF Spec

(* Every variable keeps its type: the handles clients hold are slots, and  *)
(* no buffer claims to hold more than its capacity.                        *)
THEOREM TypeCorrect == Spec => []TypeOK
BY InductiveInvariant, PTL DEF IInv

(* For any number of clients and slots, a buffer or directory handle works *)
(* and belongs to one client until that client releases it.                *)
THEOREM HandlesStayOwn == Spec => []HandlesAreOwn
BY InductiveInvariant, PTL DEF IInv

(* For any capacity and any count, 64-bit extremes included, no access     *)
(* through a buffer leaves its block.                                      *)
THEOREM BuffersStayInside == Spec => []BuffersAreNotOverrun
BY InductiveInvariant, PTL DEF IInv

(* Nothing goes out of a buffer but what its owner's last read delivered.  *)
THEOREM OnlyReadBytesGoOut == Spec => []OnlyTheLastReadGoesOut
BY InductiveInvariant, PTL DEF IInv

(* A step of the file is a step of the handle table of the buffers, or     *)
(* changes nothing that table shows.                                       *)
LEMMA NextRefinesBufferTable ==
  ASSUME BuffersInv, [Next]_vars
  PROVE  [BufferTable!Next]_(BufferTable!tableVars)
<1> DEFINE bnd == [i \in BufferSlots |->
                    IF buffers[i].active THEN buffers[i].data ELSE NULL]
<1>1. ASSUME UNCHANGED <<buffers, allocated>>
      PROVE  UNCHANGED BufferTable!tableVars
  BY <1>1 DEF BufferTable!tableVars
<1>2. ASSUME NEW c \in Clients, NEW arg \in CapacityArgs, BufCreate(c, arg)
      PROVE  BufferTable!Next
  <2> DEFINE f == FirstOf(FreeBuffers)
  <2>1. f \in BufferSlots /\ ~buffers[f].active
    BY <1>2, FirstFreeBuffer DEF BufCreate
  <2>2. PICK b \in Blocks :
          /\ Mallocs(b, Capacity(arg))
          /\ buffers' = [buffers EXCEPT ![f] =
               [data |-> b, capacity |-> Capacity(arg), used |-> 0, active |-> TRUE]]
    BY <1>2 DEF BufCreate
  <2> HIDE DEF f
  <2>3. bnd[f] = NULL /\ b \notin allocated /\ allocated' = allocated \cup {b}
    BY <2>1, <2>2 DEF Mallocs
  <2>4. bnd' = [bnd EXCEPT ![f] = b]
    BY <2>1, <2>2 DEF BuffersInv, BufferTypes
  <2>5. BufferTable!Open(f, b)
    BY <2>3, <2>4 DEF BufferTable!Open
  <2>6. QED
    BY <2>1, <2>5 DEF BufferTable!Next
<1>3. ASSUME NEW c \in Clients, NEW h \in held[c], BufRelease(c, h)
      PROVE  BufferTable!Next
  <2> DEFINE b == buffers[h].data
  <2>1. h \in BufferSlots /\ buffers[h].active /\ b \in Blocks
    BY <1>3, ActiveFacts DEF BufRelease
  <2>2. bnd[h] = b /\ b # NULL
    BY <2>1, IoAssumption
  <2>3. bnd' = [bnd EXCEPT ![h] = NULL] /\ allocated' = allocated \ {b}
    BY <1>3, <2>1 DEF BufRelease, FreeBuffer, BuffersInv, BufferTypes
  <2> HIDE DEF b
  <2>4. BufferTable!Close(h)
    BY <2>2, <2>3 DEF BufferTable!Close
  <2>5. QED
    BY <2>1, <2>4 DEF BufferTable!Next
<1>4. ASSUME NEW h, NEW n \in Nat, Active(h), buffers' = [buffers EXCEPT ![h].used = n],
             allocated' = allocated
      PROVE  UNCHANGED BufferTable!tableVars
  <2>1. bnd' = bnd
    BY <1>4, ActiveFacts DEF BuffersInv, BufferTypes, BufferType
  <2>2. QED
    BY <1>4, <2>1 DEF BufferTable!tableVars
<1>5. ASSUME NEW h, NEW count \in CountArgs, Read(h, count)
      PROVE  UNCHANGED BufferTable!tableVars
  <2>1. PICK n \in 0..ReadCount(h, count) : buffers' = [buffers EXCEPT ![h].used = n]
    BY <1>5 DEF Read
  <2>2. n \in Nat
    OBVIOUS
  <2>3. QED
    BY <1>4, <1>5, <2>1, <2>2 DEF Read
<1>6. ASSUME NEW h, ReadFails(h)
      PROVE  UNCHANGED BufferTable!tableVars
  BY <1>4, <1>6 DEF ReadFails, heapVars
<1>7. ASSUME NEW h, NEW count, WriteBytes(h, count) \/ BufToString(h)
      PROVE  UNCHANGED BufferTable!tableVars
  BY <1>1, <1>7 DEF WriteBytes, BufToString, HandsOut, OnlyErrno, heapVars
<1>8. CASE BufferStep
  BY <1>2, <1>3, <1>5, <1>6, <1>7, <1>8 DEF BufferStep
<1>9. CASE UNCHANGED bufferVars
  BY <1>1, <1>9 DEF bufferVars, heapVars
<1>10. QED
  BY <1>8, <1>9, NextCases DEF DirStep

(* The buffer pool implements the handle table, for every pool and heap.   *)
THEOREM BuffersImplement == Spec => BuffersImplementTable
<1>1. Init => BufferTable!Init
  BY DEF Init, FreeBuffer, BufferTable!Init
<1>2. IInv /\ [Next]_vars => [BufferTable!Next]_(BufferTable!tableVars)
  BY NextRefinesBufferTable, InvariantIsOfTheParts
<1>3. QED
  BY <1>1, <1>2, InductiveInvariant, PTL
     DEF Spec, BuffersImplementTable, BufferTable!Spec

(* The same of the directories.                                            *)
LEMMA NextRefinesDirTable ==
  ASSUME DirsInv, [Next]_vars
  PROVE  [DirTable!Next]_(DirTable!tableVars)
<1>1. CASE UNCHANGED dirVars
  BY <1>1 DEF dirVars, DirTable!tableVars
<1>2. ASSUME NEW c \in Clients, Opendir(c)
      PROVE  DirTable!Next
  <2> DEFINE f == FirstOf(FreeDirs)
  <2>1. f \in DirSlots /\ dir_handles[f] = NULL
    BY <1>2, FirstFreeDir DEF Opendir
  <2>2. PICK d \in Streams \ open :
          open' = open \cup {d} /\ dir_handles' = [dir_handles EXCEPT ![f] = d]
    BY <1>2 DEF Opendir
  <2> HIDE DEF f
  <2>3. DirTable!Open(f, d)
    BY <2>1, <2>2 DEF DirTable!Open
  <2>4. QED
    BY <2>1, <2>3 DEF DirTable!Next
<1>3. ASSUME NEW c \in Clients, NEW h \in heldDirs[c], Closedir(c, h)
      PROVE  DirTable!Next
  <2>1. h \in DirSlots
    BY <1>3 DEF Closedir, IsOpen
  <2>2. DirTable!Close(h)
    BY <1>3 DEF Closedir, IsOpen, DirTable!Close
  <2>3. QED
    BY <2>1, <2>2 DEF DirTable!Next
<1>4. CASE DirStep
  BY <1>2, <1>3, <1>4 DEF DirStep
<1>5. QED
  BY <1>1, <1>4, NextCases DEF BufferStep

(* The directory pool implements the handle table.                         *)
THEOREM DirsImplement == Spec => DirsImplementTable
<1>1. Init => DirTable!Init
  BY DEF Init, DirTable!Init
<1>2. IInv /\ [Next]_vars => [DirTable!Next]_(DirTable!tableVars)
  BY NextRefinesDirTable, InvariantIsOfTheParts
<1>3. QED
  BY <1>1, <1>2, InductiveInvariant, PTL
     DEF Spec, DirsImplementTable, DirTable!Spec
=============================================================================
