----------------------------- MODULE MemBlocks -----------------------------
(***************************************************************************)
(* Strings in allocated blocks: the allocation and copying calls of        *)
(* src/shim/aria_libc_mem.c together with the buffer calls of              *)
(* src/shim/aria_libc_string.c, which take the pointers mem hands out.     *)
(*                                                                         *)
(* Neither file knows the size of a block: the program passes the sizes it *)
(* asked for. The program here does that, and treats a block as a string   *)
(* only when the results of the calls say it is one. What it so believes   *)
(* is kept in text; the properties compare it with the bytes.              *)
(***************************************************************************)
EXTENDS Integers, SequencesExt, SlotScan

(* A definition whose name has the form Action_Slip is a wrong version of  *)
(* the Action below it; the properties are checked to notice each one.     *)

CONSTANTS
  Blocks,     (* the places malloc can put a block                         *)
  MaxSize,    (* bound on the size of a block                              *)
  Letters,    (* the bytes that are not zero                               *)
  NUL,        (* the zero byte                                             *)
  Guard,      (* what lies behind a block: no call may touch it            *)
  Unknown     (* the text of a block not known to hold a string            *)

ASSUME MemAssumption ==
  /\ MaxSize \in Nat \ {0}
  /\ NUL \notin Letters
  /\ Guard \notin Letters \cup {NUL}
  /\ Unknown \notin Seq(Letters)

Bytes == Letters \cup {NUL}
Cells == 0..MaxSize
Sizes == 1..MaxSize
Texts == BoundedSeq(Letters, MaxSize)

VARIABLES
  heap,         (* each block's size, 0 if free, and its cells             *)
  text,         (* the string the program may rely on in each block        *)
  last_errno    (* of the two files: "none" stands for 0                   *)

vars == <<heap, text, last_errno>>

Init ==
  /\ heap = [b \in Blocks |-> [size |-> 0, bytes |-> [i \in Cells |-> Guard]]]
  /\ text = [b \in Blocks |-> Unknown]
  /\ last_errno = [mem |-> "none", string |-> "none"]

-----------------------------------------------------------------------------

Allocated == {b \in Blocks : heap[b].size > 0}

(* The contents a block of n bytes can have.                               *)
Contents(n) == {[i \in Cells |-> IF i < n THEN c[i] ELSE Guard] :
                 c \in [0..(n - 1) -> Bytes]}

(* The cells after a copy of the bytes s to offset at.                     *)
Laid(cells, at, s) ==
  [i \in Cells |-> IF i \in at..(at + Len(s) - 1) THEN s[i - at + 1]
                                                  ELSE cells[i]]

(* strcpy and memcpy of len + 1 bytes copy the terminating zero too.       *)
Terminated(s) == Append(s, NUL)

(* strncpy fills up with zeros and does not terminate a string of n bytes. *)
Padded(s, n) == [i \in 1..n |-> IF i <= Len(s) THEN s[i] ELSE NUL]

(* strlen, and the loop of read_string.                                    *)
StrLen(b) == FirstOf({i \in Cells : heap[b].bytes[i] = NUL})
ReadString(b, max_len) ==
  LET len == FirstOf({i \in 0..max_len :
                       i = max_len \/ heap[b].bytes[i] = NUL})
  IN  [i \in 1..len |-> heap[b].bytes[i - 1]]

Returns(file, e) == last_errno' = [last_errno EXCEPT ![file] = e]

Becomes(b, n, cells, t) ==
  /\ heap' = [heap EXCEPT ![b] = [size |-> n, bytes |-> cells]]
  /\ text' = [text EXCEPT ![b] = t]

Stores(b, at, s, t) ==
  Becomes(b, heap[b].size, Laid(heap[b].bytes, at, s), t)

(* The string a block of n bytes still holds, of the string t.             *)
Within(t, n) == IF t # Unknown /\ Len(t) < n THEN t ELSE Unknown

-----------------------------------------------------------------------------

Alloc(b, n) ==
  /\ b \notin Allocated
  /\ \E c \in Contents(n) : Becomes(b, n, c, Unknown)
  /\ Returns("mem", "none")

Calloc(b, n) ==
  /\ b \notin Allocated
  /\ Becomes(b, n, Laid(heap[b].bytes, 0, Padded(<<>>, n)), <<>>)
  /\ Returns("mem", "none")

(* The old block moves, or not; its contents move with it.                 *)
Realloc(b, d, n) ==
  LET kept == 0..((IF n < heap[b].size THEN n ELSE heap[b].size) - 1) IN
  /\ b \in Allocated
  /\ d = b \/ d \notin Allocated
  /\ \E c \in Contents(n) :
       /\ \A i \in kept : c[i] = heap[b].bytes[i]
       /\ heap' = [heap EXCEPT ![b] = [size |-> 0,
                                       bytes |-> [i \in Cells |-> Guard]],
                               ![d] = [size |-> n, bytes |-> c]]
  /\ text' = [text EXCEPT ![b] = Unknown, ![d] = Within(text[b], n)]
  /\ Returns("mem", "none")

Release(b) ==
  /\ b \in Allocated
  /\ Becomes(b, 0, [i \in Cells |-> Guard], Unknown)
  /\ Returns("mem", "none")

(* malloc, calloc or realloc has no memory: an old block stays as it was.  *)
(* Or an argument is 0, NULL or negative.                                  *)
MemFails ==
  /\ \/ Returns("mem", "ENOMEM")
     \/ Returns("mem", "EINVAL")
  /\ UNCHANGED <<heap, text>>

(* compare and the calls that read a byte or an integer.                   *)
MemReads ==
  /\ Allocated # {}
  /\ Returns("mem", "none")
  /\ UNCHANGED <<heap, text>>

(* n is at most the size of both blocks.                                   *)
Copy(d, b, n) ==
  /\ {d, b} \subseteq Allocated /\ d # b
  /\ n <= heap[d].size /\ n <= heap[b].size
  /\ Stores(d, 0, [i \in 1..n |-> heap[b].bytes[i - 1]], Within(text[b], n))
  /\ Returns("mem", "none")

(* move(ptr, offset(ptr, k), size - k): the first k letters go.            *)
MoveDown(b, k) ==
  LET cells == heap[b].bytes  n == heap[b].size - k IN
  /\ b \in Allocated
  /\ n > 0
  /\ Stores(b, 0, [i \in 1..n |-> cells[i - 1 + k]],
            IF text[b] # Unknown /\ k <= Len(text[b])
            THEN SubSeq(text[b], k + 1, Len(text[b])) ELSE Unknown)
  /\ Returns("mem", "none")

Set(b, v, n) ==
  /\ b \in Allocated
  /\ n <= heap[b].size
  /\ Stores(b, 0, [i \in 1..n |-> v], IF v = NUL THEN <<>> ELSE Unknown)
  /\ Returns("mem", "none")

(* A zero cuts the string short, a letter in the place of the final zero   *)
(* unmakes it.                                                             *)
WriteByte(b, i, v) ==
  /\ b \in Allocated
  /\ i < heap[b].size
  /\ Stores(b, i, <<v>>,
            IF text[b] = Unknown \/ i > Len(text[b]) THEN text[b]
            ELSE IF v = NUL THEN SubSeq(text[b], 1, i)
            ELSE IF i < Len(text[b]) THEN [text[b] EXCEPT ![i + 1] = v]
            ELSE Unknown)
  /\ Returns("mem", "none")

WriteString_NoZero(b, s) ==
  /\ b \in Allocated
  /\ Len(s) < heap[b].size
  /\ Stores(b, 0, s, s)
  /\ Returns("mem", "none")

WriteString(b, s) ==
  /\ b \in Allocated
  /\ Len(s) < heap[b].size
  /\ Stores(b, 0, Terminated(s), s)
  /\ Returns("mem", "none")

-----------------------------------------------------------------------------

CopyTo(b, s) ==
  /\ b \in Allocated
  /\ Len(s) < heap[b].size
  /\ Stores(b, 0, Terminated(s), s)
  /\ Returns("string", "none")

CopyToN_NotPadded(b, s, n) ==
  /\ b \in Allocated
  /\ n <= heap[b].size
  /\ Stores(b, 0, SubSeq(s, 1, IF Len(s) < n THEN Len(s) ELSE n), Within(s, n))
  /\ Returns("string", "none")

(* The result, the smaller of strlen(src) and n, tells whether the zero is *)
(* there.                                                                  *)
CopyToN(b, s, n) ==
  /\ b \in Allocated
  /\ n <= heap[b].size
  /\ Stores(b, 0, Padded(s, n), Within(s, n))
  /\ Returns("string", "none")

ConcatTo_OffByOne(b, s) ==
  /\ text[b] # Unknown
  /\ StrLen(b) + Len(s) <= heap[b].size
  /\ Stores(b, StrLen(b), Terminated(s), text[b] \o s)
  /\ Returns("string", "none")

(* concat_to with the block's size as dst_size.                            *)
ConcatTo(b, s) ==
  /\ text[b] # Unknown
  /\ StrLen(b) + Len(s) < heap[b].size
  /\ Stores(b, StrLen(b), Terminated(s), text[b] \o s)
  /\ Returns("string", "none")

ConcatToRange_OtherErrno(b, s) ==
  /\ text[b] # Unknown
  /\ StrLen(b) + Len(s) >= heap[b].size
  /\ Returns("mem", "ERANGE")
  /\ UNCHANGED <<heap, text>>

ConcatToRange(b, s) ==
  /\ text[b] # Unknown
  /\ StrLen(b) + Len(s) >= heap[b].size
  /\ Returns("string", "ERANGE")
  /\ UNCHANGED <<heap, text>>

(* The copy is a block of its own, for mem_release to free.                *)
Duplicate(b, s) ==
  /\ b \notin Allocated
  /\ Len(s) < MaxSize
  /\ Becomes(b, Len(s) + 1, Laid(heap[b].bytes, 0, Terminated(s)), s)
  /\ Returns("string", "none")

(* duplicate has no memory, or an argument is NULL; copy_to, copy_to_n and *)
(* concat_to answer EINVAL alike.                                          *)
StringFails ==
  /\ \/ Returns("string", "ENOMEM")
     \/ Returns("string", "EINVAL")
  /\ UNCHANGED <<heap, text>>

(* to_int and to_float.                                                    *)
Converts ==
  /\ \/ Returns("string", "none")
     \/ Returns("string", "EINVAL")
     \/ Returns("string", "ERANGE")
  /\ UNCHANGED <<heap, text>>

MemCall(b) ==
  \/ \E n \in Sizes : Alloc(b, n) \/ Calloc(b, n)
  \/ Release(b)
  \/ \E d \in Blocks, n \in Sizes : Realloc(b, d, n) \/ Copy(d, b, n)
  \/ \E k \in Sizes : MoveDown(b, k)
  \/ \E v \in Bytes, n \in Sizes : Set(b, v, n) \/ WriteByte(b, n - 1, v)
  \/ \E s \in Texts : WriteString(b, s)

StringCall(b) ==
  \E s \in Texts :
    \/ CopyTo(b, s)
    \/ \E n \in Sizes : CopyToN(b, s, n)
    \/ ConcatTo(b, s)
    \/ ConcatToRange(b, s)
    \/ Duplicate(b, s)

Next ==
  \/ \E b \in Blocks : MemCall(b) \/ StringCall(b)
  \/ MemFails \/ MemReads \/ StringFails \/ Converts

Spec == Init /\ [][Next]_vars

-----------------------------------------------------------------------------

(* The values every variable has; each file's errno tells only its own     *)
(* errors (mem line 43, string line 44).                                   *)
TypeOK ==
  /\ heap \in [Blocks -> [size : 0..MaxSize,
                          bytes : [Cells -> Bytes \cup {Guard}]]]
  /\ text \in [Blocks -> Texts \cup {Unknown}]
  /\ last_errno \in [mem : {"none", "EINVAL", "ENOMEM"},
                     string : {"none", "EINVAL", "ENOMEM", "ERANGE"}]

(* The calls write inside the blocks they are given, and a block that by   *)
(* their results holds a string holds that string, up to its final zero,   *)
(* whatever calls failed, moved the block, or cut the string in between    *)
(* (mem lines 55-180, 219-246; string lines 80-102, 199-242). So           *)
(* read_string with the size of the block gives the string back.           *)
StringsAreKept ==
  \A b \in Blocks :
    /\ \A i \in Cells : heap[b].bytes[i] = Guard <=> i >= heap[b].size
    /\ text[b] # Unknown =>
         /\ Len(text[b]) < heap[b].size
         /\ heap[b].bytes[Len(text[b])] = NUL
         /\ ReadString(b, heap[b].size) = text[b]

(* What every step preserves: n cells hold bytes and no more are touched,  *)
(* and the text, if known, is there letter by letter with its zero behind. *)
IsBlock(cells, n) ==
  \A i \in Cells : IF i < n THEN cells[i] \in Bytes ELSE cells[i] = Guard

HoldsText(cells, n, t) ==
  /\ Len(t) < n
  /\ \A i \in 1..Len(t) : cells[i - 1] = t[i]
  /\ cells[Len(t)] = NUL

IInv ==
  /\ TypeOK
  /\ \A b \in Blocks :
       /\ IsBlock(heap[b].bytes, heap[b].size)
       /\ text[b] # Unknown => HoldsText(heap[b].bytes, heap[b].size, text[b])
=============================================================================
