-------------------------- MODULE MemBlocks_proofs --------------------------
(***************************************************************************)
(* The theorems about MemBlocks, for any blocks, sizes and letters: no     *)
(* call touches what lies behind its block, and a block that by the        *)
(* results of the calls holds a string holds it, up to its final zero.     *)
(*                                                                         *)
(* Every call changes at most one block, but for realloc, which empties    *)
(* one and fills another. So the proof is about single blocks: a block is  *)
(* Sound if it holds what the invariant wants of it, and each call makes   *)
(* sound blocks of sound ones.                                             *)
(***************************************************************************)
EXTENDS MemBlocks, SequenceTheorems, TLAPS

CellValues == Bytes \cup {Guard}

Sound(n, cells, t) ==
  /\ n \in 0..MaxSize
  /\ cells \in [Cells -> CellValues]
  /\ t \in Texts \cup {Unknown}
  /\ IsBlock(cells, n)
  /\ t # Unknown => HoldsText(cells, n, t)

MemErrors == {"none", "EINVAL", "ENOMEM"}
StringErrors == {"none", "EINVAL", "ENOMEM", "ERANGE"}
ErrnoType == last_errno \in [mem : MemErrors, string : StringErrors]

BlocksAreSound ==
  /\ heap \in [Blocks -> [size : 0..MaxSize, bytes : [Cells -> CellValues]]]
  /\ text \in [Blocks -> Texts \cup {Unknown}]
  /\ \A b \in Blocks : Sound(heap[b].size, heap[b].bytes, text[b])

(* The invariant is about blocks one by one, and about the errors.         *)
LEMMA InvariantIsOfTheParts == IInv <=> BlocksAreSound /\ ErrnoType
<1>1. ASSUME heap \in [Blocks -> [size : 0..MaxSize,
                                  bytes : [Cells -> CellValues]]],
             NEW b \in Blocks
      PROVE  /\ heap[b].size \in 0..MaxSize
             /\ heap[b].bytes \in [Cells -> CellValues]
  BY <1>1
<1>2. QED
  BY <1>1 DEF IInv, TypeOK, BlocksAreSound, ErrnoType, Sound, CellValues,
              MemErrors, StringErrors

(* The texts are the sequences of letters short enough for a block.        *)
LEMMA TextsAreShort == \A t : t \in Texts <=> t \in Seq(Letters) /\ Len(t) <= MaxSize
<1>1. ASSUME NEW t \in Texts PROVE t \in Seq(Letters) /\ Len(t) <= MaxSize
  <2>1. PICK m \in 0..MaxSize : t \in [1..m -> Letters]
    BY MemAssumption DEF Texts, BoundedSeq, SeqOf
  <2>2. m \in Nat /\ m <= MaxSize
    BY <2>1, MemAssumption
  <2>3. t \in Seq(Letters)
    BY <2>1, <2>2, SeqDef
  <2>4. Len(t) = m
    <3>1. DOMAIN t = 1..m /\ DOMAIN t = 1..Len(t) /\ Len(t) \in Nat
      BY <2>1, <2>3, LenProperties
    <3>2. QED
      BY <3>1, <2>2
  <2>5. QED
    BY <2>2, <2>3, <2>4
<1>2. ASSUME NEW t \in Seq(Letters), Len(t) <= MaxSize PROVE t \in Texts
  <2>1. Len(t) \in 0..MaxSize /\ t \in [1..Len(t) -> Letters]
    BY <1>2, LenProperties, MemAssumption
  <2>2. QED
    BY <2>1 DEF Texts, BoundedSeq, SeqOf
<1>3. QED
  BY <1>1, <1>2

LEMMA TextsAreKnown == Unknown \notin Texts
  BY TextsAreShort, MemAssumption

(* A copy of the bytes s to an offset of a block of n bytes in which they  *)
(* fit: the block stays a block, and its cells are known.                  *)
LEMMA LaidIsABlock ==
  ASSUME NEW n \in 0..MaxSize, NEW cells \in [Cells -> CellValues],
         NEW at \in Nat, NEW s \in Seq(Bytes), at + Len(s) <= n,
         \A i \in Cells : i \notin at..(at + Len(s) - 1) =>
           IF i < n THEN cells[i] \in Bytes ELSE cells[i] = Guard
  PROVE  /\ Laid(cells, at, s) \in [Cells -> CellValues]
         /\ IsBlock(Laid(cells, at, s), n)
         /\ \A i \in Cells : Laid(cells, at, s)[i] =
              IF i \in at..(at + Len(s) - 1) THEN s[i - at + 1] ELSE cells[i]
<1> DEFINE laid == Laid(cells, at, s)
<1>1. \A i \in Cells : laid[i] =
        IF i \in at..(at + Len(s) - 1) THEN s[i - at + 1] ELSE cells[i]
  BY DEF Laid
<1>2. Len(s) \in Nat /\ MaxSize \in Nat
  BY LenProperties, MemAssumption
<1>3. ASSUME NEW i \in Cells
      PROVE  IF i < n THEN laid[i] \in Bytes ELSE laid[i] = Guard
  <2>1. CASE i \in at..(at + Len(s) - 1)
    <3>1. i - at + 1 \in 1..Len(s) /\ i < n
      BY <2>1, <1>2 DEF Cells
    <3>2. s[i - at + 1] \in Bytes
      BY <3>1, ElementOfSeq
    <3>3. QED
      BY <1>1, <2>1, <3>1, <3>2
  <2>2. CASE i \notin at..(at + Len(s) - 1)
    BY <1>1, <2>2
  <2>3. QED
    BY <2>1, <2>2
<1>4. DOMAIN laid = Cells /\ laid = [i \in Cells |-> laid[i]]
  BY DEF Laid
<1> HIDE DEF laid
<1>5. \A i \in Cells : laid[i] \in CellValues
  BY <1>3 DEF CellValues
<1>6. laid \in [Cells -> CellValues]
  BY <1>4, <1>5
<1>7. IsBlock(laid, n)
  BY <1>3 DEF IsBlock
<1>8. QED
  BY <1>1, <1>6, <1>7 DEF laid

(* A block becomes a sound one: so all blocks stay sound.                  *)
LEMMA BecomesSound ==
  ASSUME BlocksAreSound, NEW b \in Blocks, NEW n, NEW cells, NEW t,
         Sound(n, cells, t), Becomes(b, n, cells, t)
  PROVE  BlocksAreSound'
<1> DEFINE e == [size |-> n, bytes |-> cells]
<1>1. e \in [size : 0..MaxSize, bytes : [Cells -> CellValues]]
  BY DEF Sound
<1>2. e.size = n /\ e.bytes = cells
  OBVIOUS
<1>3. heap' = [heap EXCEPT ![b] = e] /\ text' = [text EXCEPT ![b] = t]
  BY DEF Becomes
<1> HIDE DEF e
<1>4. heap \in [Blocks -> [size : 0..MaxSize, bytes : [Cells -> CellValues]]]
      /\ text \in [Blocks -> Texts \cup {Unknown}]
      /\ t \in Texts \cup {Unknown}
  BY DEF BlocksAreSound, Sound
<1>5. heap' \in [Blocks -> [size : 0..MaxSize, bytes : [Cells -> CellValues]]]
      /\ text' \in [Blocks -> Texts \cup {Unknown}]
  BY <1>1, <1>3, <1>4
<1>6. ASSUME NEW d \in Blocks
      PROVE  Sound(heap'[d].size, heap'[d].bytes, text'[d])
  <2>1. CASE d = b
    BY <2>1, <1>2, <1>3, <1>4
  <2>2. CASE d # b
    <3>1. heap'[d] = heap[d] /\ text'[d] = text[d]
      BY <2>2, <1>3, <1>4
    <3>2. Sound(heap[d].size, heap[d].bytes, text[d])
      BY DEF BlocksAreSound
    <3>3. QED
      BY <3>1, <3>2
  <2>3. QED
    BY <2>1, <2>2
<1>7. QED
  BY <1>5, <1>6 DEF BlocksAreSound

(* What the invariant says of one block.                                   *)
LEMMA BlockFacts ==
  ASSUME BlocksAreSound, NEW b \in Blocks
  PROVE  /\ heap[b].size \in 0..MaxSize /\ heap[b].size \in Nat
         /\ heap[b].bytes \in [Cells -> CellValues]
         /\ \A i \in Cells : IF i < heap[b].size THEN heap[b].bytes[i] \in Bytes
                                                 ELSE heap[b].bytes[i] = Guard
         /\ text[b] \in Texts \cup {Unknown}
         /\ text[b] # Unknown =>
              /\ text[b] \in Seq(Letters) /\ Len(text[b]) \in Nat
              /\ HoldsText(heap[b].bytes, heap[b].size, text[b])
<1>1. Sound(heap[b].size, heap[b].bytes, text[b])
  BY DEF BlocksAreSound
<1>2. heap[b].size \in Nat
  BY <1>1, MemAssumption DEF Sound
<1>3. text[b] # Unknown => text[b] \in Seq(Letters) /\ Len(text[b]) \in Nat
  BY <1>1, TextsAreShort, LenProperties DEF Sound
<1>4. QED
  BY <1>1, <1>2, <1>3 DEF Sound, IsBlock

(* A store that fits its block keeps all blocks sound if the block then    *)
(* holds the text it is said to hold.                                      *)
LEMMA StoresSound ==
  ASSUME BlocksAreSound, NEW b \in Blocks, NEW at \in Nat,
         NEW s \in Seq(Bytes), at + Len(s) <= heap[b].size,
         NEW t \in Texts \cup {Unknown},
         t # Unknown => HoldsText(Laid(heap[b].bytes, at, s), heap[b].size, t),
         Stores(b, at, s, t)
  PROVE  BlocksAreSound'
<1> DEFINE n == heap[b].size
           cells == heap[b].bytes
           laid == Laid(cells, at, s)
<1>1. /\ n \in 0..MaxSize /\ cells \in [Cells -> CellValues]
      /\ \A i \in Cells : IF i < n THEN cells[i] \in Bytes ELSE cells[i] = Guard
  BY BlockFacts
<1>2. at + Len(s) <= n /\ (t # Unknown => HoldsText(laid, n, t))
      /\ Becomes(b, n, laid, t)
  BY DEF Stores
<1> HIDE DEF n, cells
<1>3. laid \in [Cells -> CellValues] /\ IsBlock(laid, n)
  BY <1>1, <1>2, LaidIsABlock
<1>4. Sound(n, laid, t)
  BY <1>1, <1>2, <1>3 DEF Sound
<1> HIDE DEF laid
<1>5. QED
  BY <1>2, <1>4, BecomesSound

(* Bytes at the start of a block.                                          *)
LEMMA LaidAtStart ==
  ASSUME NEW cells, NEW s, Len(s) \in Nat
  PROVE  \A i \in Cells : Laid(cells, 0, s)[i] =
           IF i < Len(s) THEN s[i + 1] ELSE cells[i]
<1>1. ASSUME NEW i \in Cells
      PROVE  /\ i \in 0..(0 + Len(s) - 1) <=> i < Len(s)
             /\ i - 0 + 1 = i + 1
  BY MemAssumption DEF Cells
<1>2. QED
  BY <1>1 DEF Laid

(* What the program copies are bytes.                                      *)
LEMMA LettersAreBytes == ASSUME NEW s \in Seq(Letters) PROVE s \in Seq(Bytes)
  BY SeqMonotonic DEF Bytes

LEMMA TerminatedIsBytes ==
  ASSUME NEW s \in Seq(Letters)
  PROVE  /\ Terminated(s) \in Seq(Bytes)
         /\ Len(s) \in Nat
         /\ Len(Terminated(s)) = Len(s) + 1
         /\ \A i \in 1..Len(s) : Terminated(s)[i] = s[i]
         /\ Terminated(s)[Len(s) + 1] = NUL
<1>1. s \in Seq(Bytes) /\ NUL \in Bytes
  BY LettersAreBytes DEF Bytes
<1>2. QED
  BY <1>1, AppendProperties, LenProperties DEF Terminated

LEMMA PaddedIsBytes ==
  ASSUME NEW s \in Seq(Letters), NEW n \in Nat
  PROVE  /\ Padded(s, n) \in Seq(Bytes)
         /\ Len(Padded(s, n)) = n
         /\ \A i \in 1..n : Padded(s, n)[i] = IF i <= Len(s) THEN s[i] ELSE NUL
<1>1. ASSUME NEW i \in 1..n
      PROVE  (IF i <= Len(s) THEN s[i] ELSE NUL) \in Bytes
  <2>1. CASE i <= Len(s)
    <3>1. i \in 1..Len(s)
      BY <2>1, LenProperties
    <3>2. QED
      BY <2>1, <3>1, ElementOfSeq DEF Bytes
  <2>2. CASE ~(i <= Len(s))
    BY <2>2 DEF Bytes
  <2>3. QED
    BY <2>1, <2>2
<1>2. Padded(s, n) \in [1..n -> Bytes]
  BY <1>1 DEF Padded
<1>3. Padded(s, n) \in Seq(Bytes) /\ Len(Padded(s, n)) = n
  <2>1. Padded(s, n) \in Seq(Bytes)
    BY <1>2, SeqDef
  <2>2. DOMAIN Padded(s, n) = 1..n /\ Len(Padded(s, n)) \in Nat
        /\ DOMAIN Padded(s, n) = 1..Len(Padded(s, n))
    BY <1>2, <2>1, LenProperties
  <2>3. QED
    BY <2>1, <2>2
<1>4. QED
  BY <1>3 DEF Padded

(* The bytes of a string copied with its zero to the start of a block.     *)
LEMMA StringIsHeld ==
  ASSUME NEW n \in 0..MaxSize, NEW cells, NEW s \in Seq(Letters), Len(s) < n
  PROVE  HoldsText(Laid(cells, 0, Terminated(s)), n, s)
<1> DEFINE u == Terminated(s)
           laid == Laid(cells, 0, u)
<1>1. /\ Len(s) \in Nat /\ Len(u) = Len(s) + 1
      /\ \A i \in 1..Len(s) : u[i] = s[i]
      /\ u[Len(s) + 1] = NUL
  BY TerminatedIsBytes
<1> HIDE DEF u
<1>2. \A i \in Cells : laid[i] = IF i < Len(u) THEN u[i + 1] ELSE cells[i]
  BY <1>1, LaidAtStart
<1>3. MaxSize \in Nat
  BY MemAssumption
<1> HIDE DEF laid
<1>4. ASSUME NEW i \in 1..Len(s)
      PROVE  laid[i - 1] = s[i]
  <2>1. i - 1 \in Cells /\ i - 1 < Len(u) /\ i - 1 + 1 = i
    BY <1>1, <1>3 DEF Cells
  <2>2. QED
    BY <1>1, <1>2, <2>1
<1>5. laid[Len(s)] = NUL
  <2>1. Len(s) \in Cells /\ Len(s) < Len(u)
    BY <1>1, <1>3 DEF Cells
  <2>2. QED
    BY <1>1, <1>2, <2>1
<1>6. QED
  BY <1>4, <1>5 DEF HoldsText, laid, u

(* A string that fits, with its zero, is copied to the start of a block:   *)
(* write_string and copy_to.                                               *)
LEMMA StringStored ==
  ASSUME BlocksAreSound, NEW b \in Blocks, NEW s \in Texts,
         Len(s) < heap[b].size, Stores(b, 0, Terminated(s), s)
  PROVE  BlocksAreSound'
<1> DEFINE n == heap[b].size
<1>1. n \in 0..MaxSize /\ n \in Nat /\ Len(s) < n
  BY BlockFacts
<1>2. s \in Seq(Letters)
  BY TextsAreShort
<1>3. /\ Terminated(s) \in Seq(Bytes) /\ Len(s) \in Nat
      /\ Len(Terminated(s)) = Len(s) + 1
  BY <1>2, TerminatedIsBytes
<1>4. 0 + Len(Terminated(s)) <= n
  BY <1>1, <1>3
<1>5. HoldsText(Laid(heap[b].bytes, 0, Terminated(s)), n, s)
  BY <1>1, <1>2, StringIsHeld
<1>6. QED
  BY <1>3, <1>4, <1>5, StoresSound

-----------------------------------------------------------------------------

(* A block that is free is sound.                                          *)
LEMMA FreeIsSound == Sound(0, [i \in Cells |-> Guard], Unknown)
<1> DEFINE cells == [i \in Cells |-> Guard]
<1>1. cells \in [Cells -> CellValues] /\ \A i \in Cells : cells[i] = Guard
  BY DEF CellValues
<1>2. \A i \in Cells : ~(i < 0)
  BY MemAssumption DEF Cells
<1> HIDE DEF cells
<1>3. IsBlock(cells, 0)
  BY <1>1, <1>2 DEF IsBlock
<1>4. 0 \in 0..MaxSize
  BY MemAssumption
<1>5. Sound(0, cells, Unknown)
  BY <1>1, <1>3, <1>4 DEF Sound
<1>6. QED
  BY <1>5 DEF cells

(* Whatever malloc left in a block of n bytes, it is one.                  *)
LEMMA ContentsAreBlocks ==
  ASSUME NEW n \in 0..MaxSize, NEW c \in Contents(n)
  PROVE  c \in [Cells -> CellValues] /\ IsBlock(c, n)
<1>1. PICK a \in [0..(n - 1) -> Bytes] :
        c = [i \in Cells |-> IF i < n THEN a[i] ELSE Guard]
  BY DEF Contents
<1>2. ASSUME NEW i \in Cells
      PROVE  IF i < n THEN c[i] \in Bytes ELSE c[i] = Guard
  <2>1. i < n => i \in 0..(n - 1)
    BY MemAssumption DEF Cells
  <2>2. QED
    BY <1>1, <2>1
<1>3. c \in [Cells -> CellValues]
  <2>1. \A i \in Cells : c[i] \in CellValues
    BY <1>2 DEF CellValues
  <2>2. DOMAIN c = Cells /\ c = [i \in Cells |-> c[i]]
    BY <1>1
  <2>3. QED
    BY <2>1, <2>2
<1>4. QED
  BY <1>2, <1>3 DEF IsBlock

(* The cells of a block nobody has allocated.                              *)
LEMMA FreeCells ==
  ASSUME BlocksAreSound, NEW b \in Blocks, b \notin Allocated
  PROVE  heap[b].bytes \in [Cells -> CellValues]
         /\ \A i \in Cells : heap[b].bytes[i] = Guard
<1>1. heap[b].size = 0
  BY BlockFacts DEF Allocated
<1>2. \A i \in Cells : ~(i < 0)
  BY MemAssumption DEF Cells
<1>3. QED
  BY <1>1, <1>2, BlockFacts

LEMMA AllocSound ==
  ASSUME BlocksAreSound, NEW b \in Blocks, NEW n \in Sizes, Alloc(b, n)
  PROVE  BlocksAreSound'
<1>1. n \in 0..MaxSize
  BY MemAssumption DEF Sizes
<1>2. PICK c \in Contents(n) : Becomes(b, n, c, Unknown)
  BY DEF Alloc
<1>3. Sound(n, c, Unknown)
  BY <1>1, ContentsAreBlocks DEF Sound
<1>4. QED
  BY <1>2, <1>3, BecomesSound

LEMMA CallocSound ==
  ASSUME BlocksAreSound, NEW b \in Blocks, NEW n \in Sizes, Calloc(b, n)
  PROVE  BlocksAreSound'
<1> DEFINE u == Padded(<<>>, n)
           cells == heap[b].bytes
           laid == Laid(cells, 0, u)
<1>1. n \in 0..MaxSize /\ n \in Nat /\ 0 < n
  BY MemAssumption DEF Sizes
<1>2. <<>> \in Seq(Letters) /\ Len(<<>>) = 0
  BY EmptySeq
<1>3. u \in Seq(Bytes) /\ Len(u) = n /\ u[1] = NUL
  <2>1. 1 \in 1..n /\ ~(1 <= Len(<<>>))
    BY <1>1, <1>2
  <2>2. /\ u \in Seq(Bytes) /\ Len(u) = n
        /\ \A i \in 1..n : u[i] = IF i <= Len(<<>>) THEN <<>>[i] ELSE NUL
    BY <1>1, <1>2, PaddedIsBytes
  <2>3. QED
    BY <2>1, <2>2
<1>4. cells \in [Cells -> CellValues] /\ \A i \in Cells : cells[i] = Guard
  BY FreeCells DEF Calloc
<1>5. Becomes(b, n, laid, <<>>)
  BY DEF Calloc
<1> HIDE DEF u, cells
<1>6. \A i \in Cells : i \notin 0..(0 + Len(u) - 1) => ~(i < n)
  BY <1>1, <1>3, MemAssumption DEF Cells
<1>7. 0 + Len(u) <= n
  BY <1>1, <1>3
<1>8. laid \in [Cells -> CellValues] /\ IsBlock(laid, n)
  <2>1. \A i \in Cells : i \notin 0..(0 + Len(u) - 1) =>
          IF i < n THEN cells[i] \in Bytes ELSE cells[i] = Guard
    BY <1>4, <1>6
  <2>2. QED
    BY <1>1, <1>3, <1>4, <1>7, <2>1, LaidIsABlock
<1>9. laid[0] = NUL
  <2>1. 0 \in Cells /\ 0 < Len(u) /\ 0 + 1 = 1
    BY <1>1, <1>3, MemAssumption DEF Cells
  <2>2. Len(u) \in Nat
    BY <1>1, <1>3
  <2>3. QED
    BY <1>3, <2>1, <2>2, LaidAtStart
<1> HIDE DEF laid
<1>10. HoldsText(laid, n, <<>>)
  BY <1>1, <1>2, <1>9 DEF HoldsText
<1>11. <<>> \in Texts
  <2>1. Len(<<>>) <= MaxSize
    BY <1>2, MemAssumption
  <2>2. QED
    BY <1>2, <2>1, TextsAreShort
<1>12. Sound(n, laid, <<>>)
  BY <1>1, <1>8, <1>10, <1>11 DEF Sound
<1>13. QED
  BY <1>5, <1>12, BecomesSound

LEMMA ReleaseSound ==
  ASSUME BlocksAreSound, NEW b \in Blocks, Release(b)
  PROVE  BlocksAreSound'
BY FreeIsSound, BecomesSound DEF Release

(* What still fits of a text was held with the block's first n bytes.      *)
LEMMA WithinIsHeld ==
  ASSUME BlocksAreSound, NEW b \in Blocks, NEW n \in Nat, NEW m \in Nat, n <= m,
         NEW cells, \A i \in Cells : i < n /\ i < heap[b].size =>
                                       cells[i] = heap[b].bytes[i]
  PROVE  /\ Within(text[b], n) \in Texts \cup {Unknown}
         /\ Within(text[b], n) # Unknown => HoldsText(cells, m, Within(text[b], n))
<1> DEFINE t == text[b]
<1>1. CASE t # Unknown /\ Len(t) < n
  <2>1. /\ Len(t) \in Nat /\ Len(t) < heap[b].size
        /\ \A i \in 1..Len(t) : heap[b].bytes[i - 1] = t[i]
        /\ heap[b].bytes[Len(t)] = NUL
        /\ heap[b].size \in Nat /\ heap[b].size <= MaxSize
    BY <1>1, BlockFacts, MemAssumption DEF HoldsText
  <2>2. \A i \in 0..Len(t) : cells[i] = heap[b].bytes[i]
    BY <1>1, <2>1, MemAssumption DEF Cells
  <2>3. \A i \in 1..Len(t) : cells[i - 1] = t[i]
    BY <2>1, <2>2
  <2>4. cells[Len(t)] = NUL
    BY <2>1, <2>2
  <2>5. Len(t) < m
    BY <1>1, <2>1
  <2>6. HoldsText(cells, m, t)
    BY <2>3, <2>4, <2>5 DEF HoldsText
  <2>7. Within(t, n) = t
    BY <1>1 DEF Within
  <2>8. QED
    BY <2>6, <2>7, BlockFacts
<1>2. CASE ~(t # Unknown /\ Len(t) < n)
  BY <1>2 DEF Within
<1>3. QED
  BY <1>1, <1>2

(* realloc: the block it moved from is free, the one it moved to holds     *)
(* what fits of the old contents.                                          *)
LEMMA ReallocSound ==
  ASSUME BlocksAreSound, NEW b \in Blocks, NEW d \in Blocks, NEW n \in Sizes,
         Realloc(b, d, n)
  PROVE  BlocksAreSound'
<1> DEFINE kept == 0..((IF n < heap[b].size THEN n ELSE heap[b].size) - 1)
           free == [i \in Cells |-> Guard]
           t == Within(text[b], n)
<1>1. n \in 0..MaxSize /\ n \in Nat /\ n <= n
  BY MemAssumption DEF Sizes
<1>2. PICK c \in Contents(n) :
        /\ \A i \in kept : c[i] = heap[b].bytes[i]
        /\ heap' = [heap EXCEPT ![b] = [size |-> 0, bytes |-> free],
                                ![d] = [size |-> n, bytes |-> c]]
  BY DEF Realloc
<1>3. text' = [text EXCEPT ![b] = Unknown, ![d] = t]
  BY DEF Realloc
<1>4. \A i \in Cells : i < n /\ i < heap[b].size => c[i] = heap[b].bytes[i]
  <2>1. ASSUME NEW i \in Cells, i < n, i < heap[b].size PROVE i \in kept
    BY <1>1, <2>1, BlockFacts, MemAssumption DEF Cells
  <2>2. QED
    BY <1>2, <2>1
<1>5. t \in Texts \cup {Unknown} /\ (t # Unknown => HoldsText(c, n, t))
  BY <1>1, <1>4, WithinIsHeld
<1>6. Sound(n, c, t)
  BY <1>1, <1>5, ContentsAreBlocks DEF Sound
<1>7. Sound(0, free, Unknown)
  BY FreeIsSound
<1> DEFINE e == [size |-> n, bytes |-> c]
           f == [size |-> 0, bytes |-> free]
<1>8. /\ e \in [size : 0..MaxSize, bytes : [Cells -> CellValues]]
      /\ f \in [size : 0..MaxSize, bytes : [Cells -> CellValues]]
      /\ e.size = n /\ e.bytes = c /\ f.size = 0 /\ f.bytes = free
  BY <1>6, <1>7 DEF Sound
<1>9. heap' = [heap EXCEPT ![b] = f, ![d] = e]
  BY <1>2
<1> HIDE DEF e, f, t, free
<1>10. heap \in [Blocks -> [size : 0..MaxSize, bytes : [Cells -> CellValues]]]
       /\ text \in [Blocks -> Texts \cup {Unknown}]
  BY DEF BlocksAreSound
<1>11. heap' \in [Blocks -> [size : 0..MaxSize, bytes : [Cells -> CellValues]]]
       /\ text' \in [Blocks -> Texts \cup {Unknown}]
  BY <1>3, <1>5, <1>8, <1>9, <1>10
<1>12. ASSUME NEW x \in Blocks
       PROVE  Sound(heap'[x].size, heap'[x].bytes, text'[x])
  <2>1. CASE x = d
    <3>1. heap'[x] = e /\ text'[x] = t
      BY <2>1, <1>3, <1>9, <1>10
    <3>2. QED
      BY <3>1, <1>6, <1>8
  <2>2. CASE x # d /\ x = b
    <3>1. heap'[x] = f /\ text'[x] = Unknown
      BY <2>2, <1>3, <1>9, <1>10
    <3>2. QED
      BY <3>1, <1>7, <1>8
  <2>3. CASE x # d /\ x # b
    <3>1. heap'[x] = heap[x] /\ text'[x] = text[x]
      BY <2>3, <1>3, <1>9, <1>10
    <3>2. Sound(heap[x].size, heap[x].bytes, text[x])
      BY DEF BlocksAreSound
    <3>3. QED
      BY <3>1, <3>2
  <2>4. QED
    BY <2>1, <2>2, <2>3
<1>13. QED
  BY <1>11, <1>12 DEF BlocksAreSound

(* A sequence built byte by byte.                                          *)
LEMMA BuiltIsASeq ==
  ASSUME NEW n \in Nat, NEW s \in [1..n -> Bytes]
  PROVE  s \in Seq(Bytes) /\ Len(s) = n
<1>1. s \in Seq(Bytes)
  BY SeqDef
<1>2. DOMAIN s = 1..n /\ Len(s) \in Nat /\ DOMAIN s = 1..Len(s)
  BY <1>1, LenProperties
<1>3. QED
  BY <1>1, <1>2

LEMMA CopySound ==
  ASSUME BlocksAreSound, NEW b \in Blocks, NEW d \in Blocks, NEW n \in Sizes,
         Copy(d, b, n)
  PROVE  BlocksAreSound'
<1> DEFINE from == heap[b].bytes
           s == [i \in 1..n |-> from[i - 1]]
           t == Within(text[b], n)
           laid == Laid(heap[d].bytes, 0, s)
<1>1. /\ n \in Nat /\ n <= heap[d].size /\ n <= heap[b].size
      /\ heap[d].size \in Nat /\ heap[b].size \in Nat
      /\ heap[b].size <= MaxSize /\ MaxSize \in Nat
  BY BlockFacts, MemAssumption DEF Copy, Sizes
<1>2. Stores(d, 0, s, t)
  BY DEF Copy
<1>3. \A i \in 1..n : from[i - 1] \in Bytes
  <2>1. \A i \in 1..n : i - 1 \in Cells /\ i - 1 < heap[b].size
    BY <1>1 DEF Cells
  <2>2. QED
    BY <2>1, BlockFacts
<1>4. s \in Seq(Bytes) /\ Len(s) = n
  <2>1. s \in [1..n -> Bytes]
    BY <1>3
  <2> HIDE DEF s
  <2>2. QED
    BY <1>1, <2>1, BuiltIsASeq
<1>5. \A i \in Cells : i < n => laid[i] = from[i]
  <2>1. \A i \in Cells : i < n => i + 1 \in 1..n /\ i + 1 - 1 = i
    BY <1>1 DEF Cells
  <2>2. ASSUME NEW i \in Cells, i < n PROVE s[i + 1] = from[i]
    <3>1. i \in Int /\ i + 1 \in 1..n
      BY <2>1, <2>2, MemAssumption DEF Cells
    <3> HIDE DEF from
    <3>2. QED
      BY <3>1
  <2> HIDE DEF s
  <2>3. \A i \in Cells : i < n => laid[i] = s[i + 1]
    BY <1>1, <1>4, LaidAtStart
  <2>4. QED
    BY <2>2, <2>3
<1> HIDE DEF s, laid
<1>6. /\ t \in Texts \cup {Unknown}
      /\ t # Unknown => HoldsText(laid, heap[d].size, t)
  BY <1>1, <1>5, WithinIsHeld
<1> HIDE DEF t
<1>7. 0 + Len(s) <= heap[d].size
  BY <1>1, <1>4
<1>8. QED
  BY <1>2, <1>4, <1>6, <1>7, StoresSound DEF laid

LEMMA MoveDownSound ==
  ASSUME BlocksAreSound, NEW b \in Blocks, NEW k \in Sizes, MoveDown(b, k)
  PROVE  BlocksAreSound'
<1> DEFINE cells == heap[b].bytes
           old == text[b]
           n == heap[b].size - k
           s == [i \in 1..n |-> cells[i - 1 + k]]
           t == IF old # Unknown /\ k <= Len(old)
                THEN SubSeq(old, k + 1, Len(old)) ELSE Unknown
           laid == Laid(cells, 0, s)
<1>1. /\ n \in Nat /\ k \in Nat /\ k > 0 /\ n + k = heap[b].size
      /\ heap[b].size \in Nat /\ heap[b].size <= MaxSize /\ MaxSize \in Nat
  <2>1. heap[b].size \in 0..MaxSize /\ heap[b].size \in Nat
    BY BlockFacts
  <2>2. heap[b].size - k > 0
    BY DEF MoveDown
  <2> HIDE DEF s, t, laid
  <2>3. MaxSize \in Nat /\ k \in 1..MaxSize
    BY MemAssumption DEF Sizes
  <2>4. QED
    BY <2>1, <2>2, <2>3
<1>2. Stores(b, 0, s, t)
  BY DEF MoveDown
<1>3. \A i \in 1..n : cells[i - 1 + k] \in Bytes
  <2>1. \A i \in 1..n : i - 1 + k \in Cells /\ i - 1 + k < heap[b].size
    <3> HIDE DEF n
    <3>1. QED
      BY <1>1 DEF Cells
  <2>2. QED
    BY <2>1, BlockFacts
<1> HIDE DEF n
<1>4. s \in Seq(Bytes) /\ Len(s) = n
  <2>1. s \in [1..n -> Bytes]
    BY <1>3
  <2> HIDE DEF s
  <2>2. QED
    BY <1>1, <2>1, BuiltIsASeq
<1>5. \A i \in 0..(n - 1) : laid[i] = cells[i + k]
  <2>1. \A i \in 0..(n - 1) : /\ i \in Cells /\ i < n /\ i + 1 \in 1..n
                              /\ i + 1 - 1 + k = i + k
    BY <1>1 DEF Cells
  <2>2. ASSUME NEW i \in 0..(n - 1)
        PROVE  s[i + 1] = cells[i + k]
    <3>1. s[i + 1] = cells[i + 1 - 1 + k]
      BY <2>1
    <3>2. QED
      BY <2>1, <3>1
  <2> HIDE DEF s
  <2>3. \A i \in 0..(n - 1) : laid[i] = s[i + 1]
    BY <1>1, <1>4, <2>1, LaidAtStart
  <2>4. QED
    BY <2>2, <2>3
<1> HIDE DEF s, laid
<1>6. CASE old # Unknown /\ k <= Len(old)
  <2> DEFINE len == Len(old) - k
  <2>1. /\ old \in Seq(Letters) /\ Len(old) \in Nat /\ Len(old) < heap[b].size
        /\ \A i \in 1..Len(old) : cells[i - 1] = old[i]
        /\ cells[Len(old)] = NUL
    BY <1>6, BlockFacts DEF HoldsText
  <2>2. len \in Nat /\ len < n /\ Len(old) = len + k /\ len <= MaxSize
    BY <1>1, <1>6, <2>1
  <2>3. t = SubSeq(old, k + 1, Len(old))
    BY <1>6
  <2>4. t \in Seq(Letters) /\ Len(t) = len /\ \A i \in 1..len : t[i] = old[i + k]
    <3>1. \A i \in (k + 1)..Len(old) : old[i] \in Letters
      BY <1>1, <2>1, ElementOfSeq
    <3>2. k + 1 \in Int /\ Len(old) \in Int
      BY <1>1, <2>1
    <3>3. /\ t \in Seq(Letters)
          /\ Len(t) = IF k + 1 <= Len(old) THEN Len(old) - (k + 1) + 1 ELSE 0
          /\ \A i \in 1..(Len(old) - (k + 1) + 1) : t[i] = old[k + 1 + i - 1]
      <4> HIDE DEF t, old
      <4>1. QED
        BY <2>3, <3>1, <3>2, SubSeqProperties
    <3>4. Len(old) - (k + 1) + 1 = len
          /\ (k + 1 <= Len(old) \/ len = 0)
      BY <1>1, <2>1, <2>2
    <3>5. \A i \in 1..len : k + 1 + i - 1 = i + k
      BY <1>1, <2>2
    <3> HIDE DEF t, len, old
    <3>6. QED
      BY <3>3, <3>4, <3>5
  <2>5. \A i \in 1..len : laid[i - 1] = t[i]
    <3>1. ASSUME NEW i \in 1..len
          PROVE  /\ i - 1 \in 0..(n - 1) /\ i + k \in 1..Len(old)
                 /\ i - 1 + k = i + k - 1
      BY <1>1, <2>2
    <3>2. ASSUME NEW i \in 1..len
          PROVE  laid[i - 1] = t[i]
      <4>1. laid[i - 1] = cells[i - 1 + k]
        BY <1>5, <3>1
      <4>2. cells[i + k - 1] = old[i + k]
        <5> HIDE DEF cells, old
        <5>1. i + k \in 1..Len(old)
          BY <3>1
        <5>2. \A j \in 1..Len(old) : cells[j - 1] = old[j]
          BY <2>1
        <5>3. QED
          BY <1>1, <5>1, <5>2
      <4>3. t[i] = old[i + k]
        BY <2>4
      <4> HIDE DEF cells, old, t
      <4>4. QED
        BY <3>1, <4>1, <4>2, <4>3
    <3>3. QED
      BY <3>2
  <2>6. laid[len] = NUL
    <3>1. len \in 0..(n - 1)
      BY <1>1, <2>2
    <3>2. QED
      BY <1>5, <2>1, <2>2, <3>1
  <2> HIDE DEF t, len
  <2>7. Len(t) < heap[b].size
    BY <1>1, <2>2, <2>4
  <2>8. HoldsText(laid, heap[b].size, t) /\ t \in Texts
    BY <2>2, <2>4, <2>5, <2>6, <2>7, TextsAreShort DEF HoldsText
  <2>9. 0 + Len(s) <= heap[b].size /\ t \in Texts \cup {Unknown}
    BY <1>1, <1>4, <2>8
  <2>10. QED
    BY <1>2, <1>4, <2>8, <2>9, StoresSound DEF laid
<1>7. CASE ~(old # Unknown /\ k <= Len(old))
  <2>1. t = Unknown
    BY <1>7
  <2> HIDE DEF t
  <2>2. QED
    BY <1>1, <1>2, <1>4, <2>1, StoresSound
<1>8. QED
  BY <1>6, <1>7

LEMMA SetSound ==
  ASSUME BlocksAreSound, NEW b \in Blocks, NEW v \in Bytes, NEW n \in Sizes,
         Set(b, v, n)
  PROVE  BlocksAreSound'
<1> DEFINE s == [i \in 1..n |-> v]
           t == IF v = NUL THEN <<>> ELSE Unknown
           laid == Laid(heap[b].bytes, 0, s)
<1>1. n \in Nat /\ 0 < n /\ n <= heap[b].size /\ heap[b].size \in Nat
  BY BlockFacts DEF Set, Sizes
<1>2. Stores(b, 0, s, t)
  BY DEF Set
<1>3. s \in [1..n -> Bytes] /\ s[1] = v
  BY <1>1
<1> HIDE DEF s
<1>4. s \in Seq(Bytes) /\ Len(s) = n
  BY <1>1, <1>3, BuiltIsASeq
<1>5. laid[0] = v
  <2>1. 0 \in Cells /\ 0 < Len(s) /\ 0 + 1 = 1
    BY <1>1, <1>4, MemAssumption DEF Cells
  <2>2. QED
    BY <1>1, <1>3, <1>4, <2>1, LaidAtStart
<1>6. <<>> \in Texts /\ Len(<<>>) = 0
  <2>1. <<>> \in Seq(Letters) /\ Len(<<>>) = 0
    BY EmptySeq
  <2>2. Len(<<>>) <= MaxSize
    BY <2>1, MemAssumption
  <2>3. QED
    BY <2>1, <2>2, TextsAreShort
<1> HIDE DEF laid
<1>7. t # Unknown => HoldsText(laid, heap[b].size, t)
  BY <1>1, <1>5, <1>6 DEF HoldsText
<1>8. t \in Texts \cup {Unknown}
  BY <1>6
<1> HIDE DEF t
<1>9. QED
  BY <1>1, <1>2, <1>4, <1>7, <1>8, StoresSound DEF laid

(* A byte written over a letter, over the zero or behind it.               *)
LEMMA WriteByteSound ==
  ASSUME BlocksAreSound, NEW b \in Blocks, NEW v \in Bytes, NEW n \in Sizes,
         WriteByte(b, n - 1, v)
  PROVE  BlocksAreSound'
<1> DEFINE i == n - 1
           s == <<v>>
           cells == heap[b].bytes
           old == text[b]
           laid == Laid(cells, i, s)
           t == IF old = Unknown \/ i > Len(old) THEN old
                ELSE IF v = NUL THEN SubSeq(old, 1, i)
                ELSE IF i < Len(old) THEN [old EXCEPT ![i + 1] = v]
                ELSE Unknown
<1>1. /\ i \in Nat /\ i < heap[b].size
      /\ heap[b].size \in Nat /\ heap[b].size <= MaxSize /\ MaxSize \in Nat
  BY BlockFacts, MemAssumption DEF WriteByte, Sizes
<1>2. Stores(b, i, s, t)
  BY DEF WriteByte
<1> HIDE DEF i
<1>3. s \in Seq(Bytes) /\ Len(s) = 1 /\ s[1] = v
  OBVIOUS
<1>4. i + Len(s) <= heap[b].size
  BY <1>1, <1>3
<1> HIDE DEF s
<1>5. ASSUME NEW j \in Cells
      PROVE  laid[j] = IF j = i THEN v ELSE cells[j]
  <2>1. (j \in i..(i + Len(s) - 1) <=> j = i) /\ i - i + 1 = 1
    BY <1>1, <1>3, MemAssumption DEF Cells
  <2>2. QED
    BY <1>3, <2>1 DEF Laid
<1> HIDE DEF laid
<1>6. CASE old = Unknown
  <2>1. t = Unknown
    BY <1>6
  <2> HIDE DEF t
  <2>2. QED
    BY <1>1, <1>2, <1>3, <1>4, <2>1, StoresSound
<1>7. CASE old # Unknown
  <2>1. /\ old \in Seq(Letters) /\ Len(old) \in Nat /\ Len(old) < heap[b].size
        /\ \A j \in 1..Len(old) : cells[j - 1] = old[j]
        /\ cells[Len(old)] = NUL /\ old \in Texts
    BY <1>7, BlockFacts DEF HoldsText
  <2>2. ASSUME NEW j \in 1..Len(old)
        PROVE  j - 1 \in Cells /\ j - 1 # Len(old)
    BY <1>1, <2>1 DEF Cells
  <2>3. Len(old) \in Cells
    BY <1>1, <2>1 DEF Cells
  <2>4. t \in Texts \cup {Unknown}
        /\ (t # Unknown => HoldsText(laid, heap[b].size, t))
    <3>1. CASE i > Len(old)
      <4>1. t = old
        BY <3>1
      <4> HIDE DEF t, old, cells
      <4>2. \A j \in 1..Len(old) : laid[j - 1] = old[j]
        <5>1. ASSUME NEW j \in 1..Len(old) PROVE j - 1 # i
          BY <1>1, <2>1, <3>1
        <5>2. QED
          BY <1>5, <2>1, <2>2, <5>1
      <4>3. laid[Len(old)] = NUL
        BY <1>1, <1>5, <2>1, <2>3, <3>1
      <4>4. QED
        BY <2>1, <4>1, <4>2, <4>3 DEF HoldsText
    <3>2. CASE ~(i > Len(old)) /\ v = NUL
      <4>1. t = SubSeq(old, 1, i)
        BY <1>7, <3>2
      <4> HIDE DEF t, old, cells
      <4>2. /\ t \in Seq(Letters) /\ Len(t) = i
            /\ \A j \in 1..i : t[j] = old[j]
        <5>1. \A j \in 1..i : old[j] \in Letters
          BY <1>1, <2>1, <3>2, ElementOfSeq
        <5>2. /\ t \in Seq(Letters)
              /\ Len(t) = IF 1 <= i THEN i - 1 + 1 ELSE 0
              /\ \A j \in 1..(i - 1 + 1) : t[j] = old[1 + j - 1]
          <6>1. 1 \in Int /\ i \in Int
            BY <1>1
          <6>2. QED
            BY <4>1, <5>1, <6>1, SubSeqProperties
        <5>3. i - 1 + 1 = i /\ \A j \in 1..i : 1 + j - 1 = j
          BY <1>1
        <5>4. 1 <= i \/ i = 0
          BY <1>1
        <5>5. QED
          BY <5>2, <5>3, <5>4
      <4>3. ASSUME NEW j \in 1..i PROVE laid[j - 1] = t[j]
        <5>1. j \in 1..Len(old) /\ j - 1 # i
          BY <1>1, <2>1, <3>2
        <5>2. laid[j - 1] = cells[j - 1] /\ cells[j - 1] = old[j]
          BY <1>5, <2>1, <2>2, <5>1
        <5>3. QED
          BY <4>2, <5>2
      <4>4. laid[i] = NUL
        <5>1. i \in Cells
          BY <1>1 DEF Cells
        <5>2. QED
          BY <1>5, <3>2, <5>1
      <4>5. Len(t) <= MaxSize /\ Len(t) < heap[b].size
        BY <1>1, <4>2
      <4>6. QED
        BY <4>2, <4>3, <4>4, <4>5, TextsAreShort DEF HoldsText
    <3>3. CASE ~(i > Len(old)) /\ v # NUL /\ i < Len(old)
      <4>1. t = [old EXCEPT ![i + 1] = v]
        BY <1>7, <3>3
      <4> HIDE DEF t, old, cells
      <4>2. i + 1 \in 1..Len(old) /\ v \in Letters
        BY <1>1, <2>1, <3>3 DEF Bytes
      <4>3. /\ t \in Seq(Letters) /\ Len(t) = Len(old)
            /\ \A j \in 1..Len(old) : t[j] = IF j = i + 1 THEN v ELSE old[j]
        BY <2>1, <4>1, <4>2, ExceptSeq
      <4>4. ASSUME NEW j \in 1..Len(old) PROVE laid[j - 1] = t[j]
        <5>1. j - 1 = i <=> j = i + 1
          BY <1>1
        <5>2. laid[j - 1] = IF j - 1 = i THEN v ELSE cells[j - 1]
          BY <1>5, <2>2
        <5>3. QED
          BY <2>1, <4>3, <5>1, <5>2
      <4>5. laid[Len(old)] = NUL
        BY <1>1, <1>5, <2>1, <2>3, <3>3
      <4>6. Len(t) <= MaxSize /\ Len(t) < heap[b].size
        BY <1>1, <2>1, <4>3
      <4>7. QED
        BY <4>3, <4>4, <4>5, <4>6, TextsAreShort DEF HoldsText
    <3>4. CASE ~(i > Len(old)) /\ v # NUL /\ ~(i < Len(old))
      BY <1>7, <3>4
    <3>5. QED
      BY <3>1, <3>2, <3>3, <3>4
  <2> HIDE DEF t
  <2>5. QED
    BY <1>1, <1>2, <1>3, <1>4, <2>4, StoresSound DEF laid
<1>8. QED
  BY <1>6, <1>7

LEMMA CopyToNSound ==
  ASSUME BlocksAreSound, NEW b \in Blocks, NEW s \in Texts, NEW n \in Sizes,
         CopyToN(b, s, n)
  PROVE  BlocksAreSound'
<1> DEFINE u == Padded(s, n)
           t == Within(s, n)
           laid == Laid(heap[b].bytes, 0, u)
<1>1. /\ n \in Nat /\ n <= heap[b].size
      /\ heap[b].size \in Nat /\ heap[b].size <= MaxSize /\ MaxSize \in Nat
  BY BlockFacts, MemAssumption DEF CopyToN, Sizes
<1>2. Stores(b, 0, u, t)
  BY DEF CopyToN
<1>3. s \in Seq(Letters) /\ Len(s) \in Nat
  BY TextsAreShort, LenProperties
<1>4. /\ u \in Seq(Bytes) /\ Len(u) = n
      /\ \A i \in 1..n : u[i] = IF i <= Len(s) THEN s[i] ELSE NUL
  BY <1>1, <1>3, PaddedIsBytes
<1> HIDE DEF u
<1>5. \A i \in Cells : i < n => laid[i] = u[i + 1]
  BY <1>1, <1>4, LaidAtStart
<1> HIDE DEF laid
<1>6. t # Unknown => HoldsText(laid, heap[b].size, t)
  <2>1. SUFFICES ASSUME t # Unknown PROVE HoldsText(laid, heap[b].size, t)
    OBVIOUS
  <2>2. t = s /\ Len(s) < n
    BY <2>1 DEF Within
  <2>3. ASSUME NEW i \in 1..Len(s) PROVE laid[i - 1] = s[i]
    <3>1. i - 1 \in Cells /\ i - 1 < n /\ i - 1 + 1 = i /\ i \in 1..n
      BY <1>1, <1>3, <2>2 DEF Cells
    <3>2. i <= Len(s)
      BY <1>3
    <3>3. QED
      BY <1>4, <1>5, <3>1, <3>2
  <2>4. laid[Len(s)] = NUL
    <3>1. Len(s) \in Cells /\ Len(s) + 1 \in 1..n /\ ~(Len(s) + 1 <= Len(s))
      BY <1>1, <1>3, <2>2 DEF Cells
    <3>2. QED
      BY <1>4, <1>5, <2>2, <3>1
  <2>5. Len(s) < heap[b].size
    BY <1>1, <1>3, <2>2
  <2>6. QED
    BY <2>2, <2>3, <2>4, <2>5 DEF HoldsText
<1>7. t \in Texts \cup {Unknown}
  BY DEF Within
<1> HIDE DEF t
<1>8. 0 + Len(u) <= heap[b].size
  BY <1>1, <1>4
<1>9. QED
  BY <1>2, <1>4, <1>6, <1>7, <1>8, StoresSound DEF laid

(* A scan that finds a member no other is below stops there.               *)
LEMMA ScanStopsAt ==
  ASSUME NEW S, S \subseteq Int, NEW m \in S, \A j \in S : m <= j
  PROVE  FirstOf(S) = m
<1>1. FirstOf(S) \in S /\ \A j \in S : FirstOf(S) <= j
  BY DEF FirstOf
<1>2. FirstOf(S) <= m /\ m <= FirstOf(S) /\ FirstOf(S) \in Int /\ m \in Int
  BY <1>1
<1>3. QED
  BY <1>2

(* Before its end a text has no zero.                                      *)
LEMMA NoZeroInside ==
  ASSUME BlocksAreSound, NEW b \in Blocks, text[b] # Unknown,
         NEW j \in Nat, j < Len(text[b])
  PROVE  heap[b].bytes[j] # NUL
<1> DEFINE t == text[b]
           cells == heap[b].bytes
<1>1. /\ t \in Seq(Letters) /\ Len(t) \in Nat
      /\ \A i \in 1..Len(t) : cells[i - 1] = t[i]
  BY BlockFacts DEF HoldsText
<1> HIDE DEF t, cells
<1>2. j + 1 \in 1..Len(t) /\ j + 1 - 1 = j
  BY <1>1 DEF t
<1>3. cells[j] = t[j + 1] /\ t[j + 1] \in Letters
  <2>1. cells[j + 1 - 1] = t[j + 1]
    BY <1>1, <1>2
  <2>2. t[j + 1] \in Letters
    BY <1>1, <1>2, ElementOfSeq
  <2>3. QED
    BY <1>2, <2>1, <2>2
<1>4. QED
  BY <1>3, MemAssumption DEF cells

(* strlen of a block that holds a text is the text's length.               *)
LEMMA StrLenIsTheTexts ==
  ASSUME BlocksAreSound, NEW b \in Blocks, text[b] # Unknown
  PROVE  StrLen(b) = Len(text[b])
<1> DEFINE S == {i \in Cells : heap[b].bytes[i] = NUL}
           m == Len(text[b])
<1>1. /\ m \in Nat /\ m < heap[b].size /\ heap[b].bytes[m] = NUL
      /\ heap[b].size \in Nat /\ heap[b].size <= MaxSize /\ MaxSize \in Nat
  BY BlockFacts, MemAssumption DEF HoldsText
<1> HIDE DEF m
<1>2. m \in S
  BY <1>1 DEF Cells
<1>3. ASSUME NEW j \in S PROVE m <= j
  <2>1. j \in Nat /\ heap[b].bytes[j] = NUL
    BY MemAssumption DEF Cells
  <2>2. ~(j < m)
    BY <2>1, NoZeroInside DEF m
  <2>3. QED
    BY <1>1, <2>1, <2>2
<1>4. S \subseteq Int
  BY MemAssumption DEF Cells
<1> HIDE DEF S
<1>5. FirstOf(S) = m
  BY <1>2, <1>3, <1>4, ScanStopsAt
<1>6. QED
  BY <1>5 DEF StrLen, S, m

(* The bytes of s and its zero, laid over the zero of a text, continue it. *)
LEMMA ConcatToSound ==
  ASSUME BlocksAreSound, NEW b \in Blocks, NEW s \in Texts, ConcatTo(b, s)
  PROVE  BlocksAreSound'
<1> DEFINE old == text[b]
           m == Len(old)
           u == Terminated(s)
           t == old \o s
           cells == heap[b].bytes
           laid == Laid(cells, m, u)
<1>1. /\ old \in Seq(Letters) /\ m \in Nat /\ m < heap[b].size
      /\ \A i \in 1..m : cells[i - 1] = old[i]
      /\ heap[b].size \in Nat /\ heap[b].size <= MaxSize /\ MaxSize \in Nat
  BY BlockFacts, MemAssumption DEF HoldsText, ConcatTo
<1>2. m + Len(s) < heap[b].size /\ Stores(b, m, u, t)
  BY StrLenIsTheTexts DEF ConcatTo
<1>3. s \in Seq(Letters)
  BY TextsAreShort
<1>4. /\ u \in Seq(Bytes) /\ Len(s) \in Nat /\ Len(u) = Len(s) + 1
      /\ \A i \in 1..Len(s) : u[i] = s[i]
      /\ u[Len(s) + 1] = NUL
  BY <1>3, TerminatedIsBytes
<1>5. /\ t \in Seq(Letters) /\ Len(t) = m + Len(s)
      /\ \A i \in 1..(m + Len(s)) : t[i] = IF i <= m THEN old[i] ELSE s[i - m]
  <2> HIDE DEF old
  <2>1. QED
    BY <1>1, <1>3, ConcatProperties
<1> HIDE DEF u, t
<1>6. \A i \in Cells : laid[i] =
        IF i \in m..(m + Len(u) - 1) THEN u[i - m + 1] ELSE cells[i]
  BY DEF Laid
<1> HIDE DEF laid, m, old, cells
<1>7. ASSUME NEW i \in 1..(m + Len(s)) PROVE laid[i - 1] = t[i]
  <2>1. i - 1 \in Cells
    BY <1>1, <1>2, <1>4 DEF Cells
  <2>2. CASE i <= m
    <3>1. i - 1 \notin m..(m + Len(u) - 1) /\ i \in 1..m
      BY <1>1, <1>4, <2>2
    <3>2. QED
      BY <1>1, <1>5, <1>6, <2>1, <2>2, <3>1
  <2>3. CASE ~(i <= m)
    <3>1. /\ i - 1 \in m..(m + Len(u) - 1) /\ i - m \in 1..Len(s)
          /\ i - 1 - m + 1 = i - m
      BY <1>1, <1>4, <2>3
    <3>2. laid[i - 1] = u[i - m]
      BY <1>6, <2>1, <3>1
    <3>3. QED
      BY <1>4, <1>5, <2>3, <3>1, <3>2
  <2>4. QED
    BY <2>2, <2>3
<1>8. laid[m + Len(s)] = NUL
  <2> DEFINE k == m + Len(s)
  <2>1. k \in Cells /\ k \in m..(m + Len(u) - 1) /\ k - m + 1 = Len(s) + 1
    BY <1>1, <1>2, <1>4 DEF Cells
  <2> HIDE DEF k
  <2>2. laid[k] = u[k - m + 1]
    BY <1>6, <2>1
  <2>3. laid[k] = NUL
    BY <1>4, <2>1, <2>2
  <2>4. QED
    BY <2>3 DEF k
<1>9. HoldsText(laid, heap[b].size, t)
  BY <1>2, <1>5, <1>7, <1>8 DEF HoldsText
<1>10. t \in Texts
  BY <1>1, <1>2, <1>4, <1>5, TextsAreShort
<1>11. m + Len(u) <= heap[b].size
  BY <1>1, <1>2, <1>4
<1>12. QED
  BY <1>1, <1>2, <1>4, <1>9, <1>10, <1>11, StoresSound DEF laid, cells

LEMMA DuplicateSound ==
  ASSUME BlocksAreSound, NEW b \in Blocks, NEW s \in Texts, Duplicate(b, s)
  PROVE  BlocksAreSound'
<1> DEFINE u == Terminated(s)
           n == Len(s) + 1
           cells == heap[b].bytes
           laid == Laid(cells, 0, u)
<1>1. s \in Seq(Letters) /\ Len(s) < MaxSize
  BY TextsAreShort DEF Duplicate
<1>2. u \in Seq(Bytes) /\ Len(s) \in Nat /\ Len(u) = n
  BY <1>1, TerminatedIsBytes
<1>3. n \in 0..MaxSize /\ n \in Nat /\ Len(s) < n
  BY <1>1, <1>2, MemAssumption
<1>4. cells \in [Cells -> CellValues] /\ \A i \in Cells : cells[i] = Guard
  BY FreeCells DEF Duplicate
<1>5. Becomes(b, n, laid, s)
  BY DEF Duplicate
<1>6. HoldsText(laid, n, s)
  BY <1>1, <1>3, StringIsHeld
<1> HIDE DEF u, n, cells
<1>7. \A i \in Cells : i \notin 0..(0 + Len(u) - 1) =>
        IF i < n THEN cells[i] \in Bytes ELSE cells[i] = Guard
  <2>1. \A i \in Cells : i \notin 0..(0 + Len(u) - 1) => ~(i < n)
    BY <1>2, <1>3, MemAssumption DEF Cells
  <2>2. QED
    BY <1>4, <2>1
<1>8. 0 + Len(u) <= n
  BY <1>2, <1>3
<1>9. laid \in [Cells -> CellValues] /\ IsBlock(laid, n)
  BY <1>2, <1>3, <1>4, <1>7, <1>8, LaidIsABlock
<1> HIDE DEF laid
<1>10. Sound(n, laid, s)
  BY <1>3, <1>6, <1>9 DEF Sound
<1>11. QED
  BY <1>5, <1>10, BecomesSound

-----------------------------------------------------------------------------

(* Every call leaves sound blocks sound.                                   *)
LEMMA MemCallSound ==
  ASSUME BlocksAreSound, NEW b \in Blocks, MemCall(b)
  PROVE  BlocksAreSound'
<1>1. ASSUME NEW n \in Sizes, Alloc(b, n) PROVE BlocksAreSound'
  BY <1>1, AllocSound
<1>2. ASSUME NEW n \in Sizes, Calloc(b, n) PROVE BlocksAreSound'
  BY <1>2, CallocSound
<1>3. ASSUME Release(b) PROVE BlocksAreSound'
  BY <1>3, ReleaseSound
<1>4. ASSUME NEW d \in Blocks, NEW n \in Sizes, Realloc(b, d, n)
      PROVE  BlocksAreSound'
  BY <1>4, ReallocSound
<1>5. ASSUME NEW d \in Blocks, NEW n \in Sizes, Copy(d, b, n)
      PROVE  BlocksAreSound'
  BY <1>5, CopySound
<1>6. ASSUME NEW k \in Sizes, MoveDown(b, k) PROVE BlocksAreSound'
  BY <1>6, MoveDownSound
<1>7. ASSUME NEW v \in Bytes, NEW n \in Sizes, Set(b, v, n) PROVE BlocksAreSound'
  BY <1>7, SetSound
<1>8. ASSUME NEW v \in Bytes, NEW n \in Sizes, WriteByte(b, n - 1, v)
      PROVE  BlocksAreSound'
  BY <1>8, WriteByteSound
<1>9. ASSUME NEW s \in Texts, WriteString(b, s) PROVE BlocksAreSound'
  BY <1>9, StringStored DEF WriteString
<1>10. QED
  BY <1>1, <1>2, <1>3, <1>4, <1>5, <1>6, <1>7, <1>8, <1>9 DEF MemCall

LEMMA StringCallSound ==
  ASSUME BlocksAreSound, NEW b \in Blocks, StringCall(b)
  PROVE  BlocksAreSound'
<1>1. PICK s \in Texts : \/ CopyTo(b, s)
                         \/ \E n \in Sizes : CopyToN(b, s, n)
                         \/ ConcatTo(b, s)
                         \/ ConcatToRange(b, s)
                         \/ Duplicate(b, s)
  BY DEF StringCall
<1>2. CASE CopyTo(b, s)
  BY <1>2, StringStored DEF CopyTo
<1>3. CASE \E n \in Sizes : CopyToN(b, s, n)
  BY <1>3, CopyToNSound
<1>4. CASE ConcatTo(b, s)
  BY <1>4, ConcatToSound
<1>5. CASE ConcatToRange(b, s)
  BY <1>5 DEF ConcatToRange, BlocksAreSound
<1>6. CASE Duplicate(b, s)
  BY <1>6, DuplicateSound
<1>7. QED
  BY <1>1, <1>2, <1>3, <1>4, <1>5, <1>6

(* Each file's errno takes only the values of its own errors.              *)
LEMMA ReturnsKeepsErrno ==
  ASSUME ErrnoType
  PROVE  /\ \A e \in MemErrors : Returns("mem", e) => ErrnoType'
         /\ \A e \in StringErrors : Returns("string", e) => ErrnoType'
  BY DEF ErrnoType, Returns

LEMMA CallsKeepErrno ==
  ASSUME ErrnoType, NEW b \in Blocks, MemCall(b) \/ StringCall(b)
  PROVE  ErrnoType'
<1>1. \/ Returns("mem", "none") \/ Returns("string", "none")
      \/ Returns("string", "ERANGE")
  BY DEF MemCall, StringCall, Alloc, Calloc, Release, Realloc, Copy, MoveDown,
         Set, WriteByte, WriteString, CopyTo, CopyToN, ConcatTo, ConcatToRange,
         Duplicate
<1>2. QED
  BY <1>1, ReturnsKeepsErrno DEF MemErrors, StringErrors

LEMMA FailuresKeepErrno ==
  ASSUME ErrnoType, MemFails \/ MemReads \/ StringFails \/ Converts
  PROVE  ErrnoType'
<1>1. \/ \E e \in MemErrors : Returns("mem", e)
      \/ \E e \in StringErrors : Returns("string", e)
  BY DEF MemFails, MemReads, StringFails, Converts, MemErrors, StringErrors
<1>2. QED
  BY <1>1, ReturnsKeepsErrno

-----------------------------------------------------------------------------

(* At first every block is free.                                           *)
LEMMA InitSound == Init => IInv
<1>1. SUFFICES ASSUME Init PROVE BlocksAreSound /\ ErrnoType
  BY InvariantIsOfTheParts
<1> DEFINE free == [i \in Cells |-> Guard]
           f == [size |-> 0, bytes |-> free]
<1>2. heap = [b \in Blocks |-> f] /\ text = [b \in Blocks |-> Unknown]
  BY <1>1 DEF Init
<1>3. Sound(0, free, Unknown)
  BY FreeIsSound
<1>4. /\ f \in [size : 0..MaxSize, bytes : [Cells -> CellValues]]
      /\ f.size = 0 /\ f.bytes = free
  BY <1>3 DEF Sound
<1> HIDE DEF f, free
<1>5. BlocksAreSound
  BY <1>2, <1>3, <1>4 DEF BlocksAreSound
<1>6. ErrnoType
  BY <1>1 DEF Init, ErrnoType, MemErrors, StringErrors
<1>7. QED
  BY <1>5, <1>6

LEMMA StepSound == IInv /\ [Next]_vars => IInv'
<1>1. SUFFICES ASSUME BlocksAreSound, ErrnoType, [Next]_vars
               PROVE  BlocksAreSound' /\ ErrnoType'
  <2>1. IInv' <=> BlocksAreSound' /\ ErrnoType'
    BY InvariantIsOfTheParts, PTL
  <2>2. QED
    BY <2>1, InvariantIsOfTheParts
<1>2. ASSUME NEW b \in Blocks, MemCall(b) \/ StringCall(b)
      PROVE  BlocksAreSound' /\ ErrnoType'
  BY <1>1, <1>2, MemCallSound, StringCallSound, CallsKeepErrno
<1>3. CASE MemFails \/ MemReads \/ StringFails \/ Converts
  <2>1. UNCHANGED <<heap, text>>
    BY <1>3 DEF MemFails, MemReads, StringFails, Converts
  <2>2. BlocksAreSound'
    BY <1>1, <2>1 DEF BlocksAreSound
  <2>3. QED
    BY <1>1, <1>3, <2>2, FailuresKeepErrno
<1>4. CASE UNCHANGED vars
  BY <1>1, <1>4 DEF vars, BlocksAreSound, ErrnoType
<1>5. QED
  BY <1>1, <1>2, <1>3, <1>4 DEF Next

(* Every reachable state has sound blocks.                                 *)
THEOREM InductiveInvariant == Spec => []IInv
  BY InitSound, StepSound, PTL DEF Spec

(* The heap, the texts and the errnos have the values they are meant to:   *)
(* the errno of one file never shows an error of the other (mem line 43,   *)
(* string line 44).                                                        *)
THEOREM TypeCorrect == Spec => []TypeOK
<1>1. IInv => TypeOK
  BY DEF IInv
<1>2. QED
  BY <1>1, InductiveInvariant, PTL

(* read_string finds a text where it is: the first zero ends it, or the    *)
(* size of the block would.                                                *)
LEMMA ReadStringIsTheText ==
  ASSUME BlocksAreSound, NEW b \in Blocks, text[b] # Unknown
  PROVE  ReadString(b, heap[b].size) = text[b]
<1> DEFINE n == heap[b].size
           cells == heap[b].bytes
           t == text[b]
           S == {i \in 0..n : i = n \/ cells[i] = NUL}
           m == Len(t)
<1>1. /\ t \in Seq(Letters) /\ m \in Nat /\ m < n /\ n \in Nat
      /\ cells[m] = NUL /\ \A i \in 1..m : cells[i - 1] = t[i]
  BY BlockFacts DEF HoldsText
<1>2. \A j \in Nat : j < m => cells[j] # NUL
  BY NoZeroInside
<1> HIDE DEF m, t, cells, n
<1>3. m \in S /\ S \subseteq Int
  BY <1>1
<1>4. ASSUME NEW j \in S PROVE m <= j
  <2>1. CASE j = n
    BY <1>1, <2>1
  <2>2. CASE j # n
    BY <1>1, <1>2, <2>2
  <2>3. QED
    BY <2>1, <2>2
<1>5. FirstOf(S) = m
  <2> HIDE DEF S
  <2>1. QED
    BY <1>3, <1>4, ScanStopsAt
<1>6. [i \in 1..m |-> cells[i - 1]] = t
  <2>1. t \in [1..m -> Letters]
    BY <1>1, LenProperties DEF m
  <2>2. QED
    BY <1>1, <2>1
<1>7. ReadString(b, n) = [i \in 1..FirstOf(S) |-> cells[i - 1]]
  BY DEF ReadString, S, cells, n
<1>8. QED
  BY <1>5, <1>6, <1>7 DEF n, t

(* No call writes outside the block it is given, and a block that by the   *)
(* results of the calls holds a string holds that string, whatever calls   *)
(* failed, moved the block or cut the string in between (mem lines 55-180, *)
(* 219-246; string lines 80-102, 199-242).                                 *)
THEOREM StringsStay == Spec => []StringsAreKept
<1>1. ASSUME IInv PROVE StringsAreKept
  <2>1. BlocksAreSound
    BY <1>1, InvariantIsOfTheParts
  <2>2. ASSUME NEW b \in Blocks
        PROVE  \A i \in Cells : heap[b].bytes[i] = Guard <=> i >= heap[b].size
    <3>1. Guard \notin Bytes
      BY MemAssumption DEF Bytes
    <3>2. \A i \in Cells : i >= heap[b].size <=> ~(i < heap[b].size)
      BY <2>1, BlockFacts, MemAssumption DEF Cells
    <3>3. QED
      BY <2>1, <3>1, <3>2, BlockFacts
  <2>3. ASSUME NEW b \in Blocks, text[b] # Unknown
        PROVE  /\ Len(text[b]) < heap[b].size
               /\ heap[b].bytes[Len(text[b])] = NUL
               /\ ReadString(b, heap[b].size) = text[b]
    BY <2>1, <2>3, BlockFacts, ReadStringIsTheText DEF HoldsText
  <2>4. QED
    BY <2>2, <2>3 DEF StringsAreKept
<1>2. QED
  BY <1>1, InductiveInvariant, PTL
=============================================================================
