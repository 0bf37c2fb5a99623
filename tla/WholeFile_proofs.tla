--------------------------- MODULE WholeFile_proofs ---------------------------
(***************************************************************************)
(* The theorems about WholeFile, for any processes, disk, contents and     *)
(* transfer limit: every call closes what it opened and reports its        *)
(* failures, appends never overwrite each other or a write_file, and a     *)
(* read or write that no other process disturbs is of the whole file.      *)
(***************************************************************************)
EXTENDS WholeFile, SequenceTheorems, TLAPS

-----------------------------------------------------------------------------
(* The bytes.                                                              *)

LEMMA LeastIsLeast ==
  ASSUME NEW m \in Nat, NEW n \in Nat
  PROVE  Least(m, n) \in Nat /\ Least(m, n) <= m /\ Least(m, n) <= n
  BY DEF Least

LEMMA ContentIsBytes ==
  ASSUME NEW p \in Procs, NEW n \in Nat
  PROVE  Content(p, n) \in Bytes /\ Len(Content(p, n)) = n
  BY DEF Content, Bytes

(* The first n bytes of a file.                                            *)
LEMMA BeginningOfFile ==
  ASSUME NEW f \in Bytes, NEW n \in 0..Len(f)
  PROVE  SubSeq(f, 1, n) \in Bytes /\ Len(SubSeq(f, 1, n)) = n
  BY DEF Bytes

(* What write leaves of a file f when it puts the bytes c at an offset.    *)
Written(f, c, at) ==
  SubSeq(f, 1, at) \o c \o SubSeq(f, at + Len(c) + 1, Len(f))

LEMMA WrittenIsBytes ==
  ASSUME NEW f \in Bytes, NEW c \in Bytes, NEW at \in 0..Len(f),
         NEW max \in Nat, at + Len(c) <= max, Len(f) <= max
  PROVE  Written(f, c, at) \in Bytes /\ Len(Written(f, c, at)) <= max
<1> DEFINE a == SubSeq(f, 1, at)
           z == SubSeq(f, at + Len(c) + 1, Len(f))
<1>1. Len(f) \in Nat /\ Len(c) \in Nat /\ at \in Nat
  BY DEF Bytes
<1>2. a \in Bytes /\ Len(a) = at
  BY BeginningOfFile
<1>3. /\ z \in Bytes
      /\ Len(z) = IF at + Len(c) + 1 <= Len(f) THEN Len(f) - (at + Len(c)) ELSE 0
  <2>1. \A i \in (at + Len(c) + 1)..Len(f) : f[i] \in Procs
    BY <1>1 DEF Bytes
  <2>2. at + Len(c) + 1 \in Int /\ Len(f) \in Int
    BY <1>1
  <2>3. /\ z \in Seq(Procs)
        /\ Len(z) = IF at + Len(c) + 1 <= Len(f)
                    THEN Len(f) - (at + Len(c) + 1) + 1 ELSE 0
    BY <2>1, <2>2, SubSeqProperties
  <2> HIDE DEF z
  <2>4. QED
    BY <1>1, <2>3 DEF Bytes
<1> HIDE DEF a, z
<1>4. a \o c \in Bytes /\ Len(a \o c) = at + Len(c)
  BY <1>2, ConcatProperties DEF Bytes
<1>5. (a \o c) \o z \in Bytes /\ Len((a \o c) \o z) = at + Len(c) + Len(z)
  <2>1. (a \o c) \o z \in Bytes /\ Len((a \o c) \o z) = Len(a \o c) + Len(z)
    BY <1>3, <1>4, ConcatProperties DEF Bytes
  <2>2. QED
    BY <1>4, <2>1
<1>6. at + Len(c) + Len(z) <= max
  <2> DEFINE n == at + Len(c)
             rest == Len(z)
  <2>1. /\ n \in Nat /\ n <= max /\ Len(f) \in Nat /\ Len(f) <= max
        /\ rest = IF n + 1 <= Len(f) THEN Len(f) - n ELSE 0
    BY <1>1, <1>3
  <2> HIDE DEF n, rest
  <2>2. n + rest <= max
    BY <2>1
  <2>3. QED
    BY <2>2 DEF n, rest
<1>7. Written(f, c, at) = (a \o c) \o z
  BY DEF Written, a, z
<1>8. QED
  BY <1>5, <1>6, <1>7

(* At the end of the file the bytes are appended; written over an empty    *)
(* file, they are the file; and writing nothing changes nothing.           *)
LEMMA WrittenAtEnd ==
  ASSUME NEW f \in Bytes, NEW c \in Bytes
  PROVE  Written(f, c, Len(f)) = f \o c
<1>1. SubSeq(f, 1, Len(f)) = f
  BY SubSeqFull DEF Bytes
<1>2. SubSeq(f, Len(f) + Len(c) + 1, Len(f)) = <<>>
  <2>1. Len(f) \in Nat /\ Len(c) \in Nat
    BY DEF Bytes
  <2>2. QED
    BY <2>1, SubSeqEmpty
<1>3. f \o c \in Seq(Procs)
  BY ConcatProperties DEF Bytes
<1>4. (f \o c) \o <<>> = f \o c
  BY <1>3, ConcatEmptySeq
<1>5. QED
  BY <1>1, <1>2, <1>4 DEF Written

LEMMA WrittenOverNothing ==
  ASSUME NEW c \in Bytes
  PROVE  Written(<<>>, c, 0) = c
<1>1. <<>> \in Bytes /\ Len(<<>>) = 0
  BY DEF Bytes
<1>2. Written(<<>>, c, 0) = <<>> \o c
  BY <1>1, WrittenAtEnd
<1>3. QED
  BY <1>2, ConcatEmptySeq DEF Bytes

LEMMA WrittenNothing ==
  ASSUME NEW f \in Bytes, NEW c \in Bytes, Len(c) = 0, NEW at \in 0..Len(f)
  PROVE  Written(f, c, at) = f
<1>1. c = <<>>
  BY EmptySeq DEF Bytes
<1>2. Len(f) \in Nat
  BY DEF Bytes
<1>3. SubSeq(f, 1, at) \in Bytes
  BY BeginningOfFile
<1>4. SubSeq(f, 1, at) \o c = SubSeq(f, 1, at)
  BY <1>1, <1>3, ConcatEmptySeq DEF Bytes
<1>5. SubSeq(f, 1, at) \o SubSeq(f, at + 1, Len(f)) = SubSeq(f, 1, Len(f))
  <2>1. 1 \in 1..(Len(f) + 1) /\ at \in (1 - 1)..Len(f) /\ Len(f) \in at..Len(f)
    BY <1>2
  <2>2. QED
    BY <2>1, ConcatAdjacentSubSeq DEF Bytes
<1>6. SubSeq(f, 1, Len(f)) = f
  BY SubSeqFull DEF Bytes
<1>7. at + Len(c) + 1 = at + 1
  BY <1>2
<1>8. QED
  BY <1>4, <1>5, <1>6, <1>7 DEF Written

(* Written over the start of a file, the bytes are its beginning.          *)
LEMMA WrittenAtStart ==
  ASSUME NEW f \in Bytes, NEW c \in Bytes
  PROVE  StartsWith(Written(f, c, 0), c)
<1> DEFINE z == SubSeq(f, Len(c) + 1, Len(f))
<1>1. Len(f) \in Nat /\ Len(c) \in Nat /\ f \in Seq(Procs) /\ c \in Seq(Procs)
  BY DEF Bytes
<1>2. z \in Seq(Procs)
  <2>1. \A i \in (Len(c) + 1)..Len(f) : f[i] \in Procs
    BY <1>1
  <2>2. Len(c) + 1 \in Int /\ Len(f) \in Int
    BY <1>1
  <2>3. QED
    BY <2>1, <2>2, SubSeqProperties
<1>3. SubSeq(f, 1, 0) = <<>>
  BY <1>1, SubSeqEmpty
<1>4. <<>> \o c = c
  BY <1>1, ConcatEmptySeq
<1>5. 0 + Len(c) + 1 = Len(c) + 1
  BY <1>1
<1>6. Written(f, c, 0) = c \o z
  BY <1>3, <1>4, <1>5 DEF Written
<1> HIDE DEF z
<1>7. QED
  BY <1>1, <1>2, <1>6, ConcatProperties DEF StartsWith

(* An append keeps the beginning of a file.                                *)
LEMMA AppendKeepsStart ==
  ASSUME NEW f \in Bytes, NEW c \in Bytes, NEW g \in Bytes, StartsWith(f, g)
  PROVE  StartsWith(f \o c, g)
<1>1. /\ Len(f) \in Nat /\ Len(c) \in Nat /\ Len(g) \in Nat /\ Len(g) <= Len(f)
      /\ f \in Seq(Procs) /\ c \in Seq(Procs)
  BY DEF Bytes, StartsWith
<1>2. /\ Len(f \o c) = Len(f) + Len(c)
      /\ \A i \in 1..Len(f) : (f \o c)[i] = f[i]
  BY <1>1, ConcatProperties
<1>3. QED
  BY <1>1, <1>2 DEF StartsWith

-----------------------------------------------------------------------------
(* The steps.                                                              *)

(* What CallsAgree says of one process.                                    *)
Agrees(p) ==
  /\ CallIsShaped(p)
  /\ p \in quiet => CallIsQuiet(p)
  /\ p \in alone => CallIsAlone(p)
  /\ call[p].op = "write" => ~appended.only

(* What the file starts with it still starts with after the step.          *)
StartStays == \A g \in Bytes : StartsWith(file, g) => StartsWith(file', g)

(* A process whose call the step leaves as it is still agrees with the     *)
(* file, if the file stays as it is or the process is not quiet any more,  *)
(* and if its start stays or the process is not alone any more.            *)
LEMMA OthersAgree ==
  ASSUME NEW q \in Procs, Agrees(q), call'[q] = call[q],
         call[q].got \in Bytes,
         q \in quiet' => q \in quiet /\ file' = file,
         q \in alone' => q \in alone /\ (file' = file \/ StartStays),
         appended'.only => appended.only
  PROVE  Agrees(q)'
<1>1. CallIsShaped(q)' /\ (call'[q].op = "write" => ~appended'.only)
  BY DEF Agrees, CallIsShaped
<1>2. q \in quiet' => CallIsQuiet(q)'
  BY DEF Agrees, CallIsQuiet, StSize
<1>3. q \in alone' => CallIsAlone(q)'
  BY DEF Agrees, CallIsAlone, StartStays
<1>4. QED
  BY <1>1, <1>2, <1>3 DEF Agrees

LEMMA IdleAgrees ==
  ASSUME NEW p \in Procs, call'[p] = Idle
  PROVE  Agrees(p)'
  BY DEF Agrees, CallIsShaped, CallIsQuiet, CallIsAlone, Idle

(* A call returns.                                                         *)
LEMMA ReturnsKeeps ==
  ASSUME IInv, NEW p \in Procs, NEW errno \in Errnos, NEW result \in RetType,
         result.ok <=> errno = "none", Returns(p, errno, result)
  PROVE  IInv'
<1>1. /\ call' = [call EXCEPT ![p] = Idle] /\ descriptor' = descriptor \ {p}
      /\ last_errno' = [last_errno EXCEPT ![p] = errno]
      /\ ret' = [ret EXCEPT ![p] = result]
      /\ quiet' = quiet \ {p} /\ alone' = alone \ {p}
      /\ file' = file /\ appended' = appended
  BY DEF Returns
<1>2. Idle \in CallType /\ Len(Idle.got) <= Idle.len
  BY EmptySeq DEF Idle, CallType, Bytes
<1>3. TypeOK'
  BY <1>1, <1>2 DEF IInv, TypeOK
<1>4. NoDescriptorLeak'
  BY <1>1 DEF IInv, TypeOK, NoDescriptorLeak
<1>5. ErrnoTellsFailure'
  <2> SUFFICES ASSUME NEW q \in Procs, call'[q] = Idle
               PROVE  ret'[q].ok <=> last_errno'[q] = "none"
    BY DEF ErrnoTellsFailure
  <2>1. CASE q = p
    BY <1>1, <2>1 DEF IInv, TypeOK
  <2>2. CASE q # p
    BY <1>1, <2>2 DEF IInv, TypeOK, ErrnoTellsFailure
  <2>3. QED
    BY <2>1, <2>2
<1>6. CallsAgree'
  <2> SUFFICES ASSUME NEW q \in Procs
               PROVE  Agrees(q)'
    BY DEF CallsAgree, Agrees
  <2>1. CASE q = p
    BY <1>1, <2>1, IdleAgrees DEF IInv, TypeOK
  <2>2. CASE q # p
    BY <1>1, <2>2, OthersAgree DEF IInv, TypeOK, CallsAgree, Agrees, CallType
  <2>3. QED
    BY <2>1, <2>2
<1>7. AppendsConcatenate'
  BY <1>1 DEF IInv, AppendsConcatenate
<1>8. QED
  BY <1>3, <1>4, <1>5, <1>6, <1>7 DEF IInv

(* A call in progress goes on, and nothing but its own record changes.     *)
LEMMA CallGoesOn ==
  ASSUME IInv, NEW p \in Procs, call[p] # Idle,
         NEW c \in CallType, Len(c.got) <= c.len,
         call' = [call EXCEPT ![p] = c], c # Idle, Agrees(p)',
         UNCHANGED <<file, descriptor, last_errno, ret, quiet, alone, appended>>
  PROVE  IInv'
<1>1. TypeOK'
  BY DEF IInv, TypeOK
<1>2. NoDescriptorLeak'
  BY DEF IInv, TypeOK, NoDescriptorLeak
<1>3. ErrnoTellsFailure'
  BY DEF IInv, TypeOK, ErrnoTellsFailure
<1>4. CallsAgree'
  <2> SUFFICES ASSUME NEW q \in Procs, q # p
               PROVE  Agrees(q)'
    BY DEF CallsAgree, Agrees
  <2>1. QED
    BY OthersAgree DEF IInv, TypeOK, CallsAgree, Agrees, CallType
<1>5. AppendsConcatenate'
  BY DEF IInv, AppendsConcatenate
<1>6. QED
  BY <1>1, <1>2, <1>3, <1>4, <1>5 DEF IInv

(* What is known of a call in progress.                                    *)
LEMMA CallFacts ==
  ASSUME IInv, NEW p \in Procs
  PROVE  /\ call[p] \in CallType
         /\ Len(call[p].got) <= call[p].len
         /\ Agrees(p)
         /\ file \in Bytes /\ Len(file) \in Nat /\ Len(file) <= MaxFile
         /\ StSize \in Nat
  BY DEF IInv, TypeOK, CallsAgree, Agrees, StSize, Bytes

LEMMA ReadStatKeeps ==
  ASSUME IInv, NEW p \in Procs, ReadStat(p)
  PROVE  IInv'
<1> DEFINE c == [call[p] EXCEPT !.at = "data", !.len = StSize]
<1>1. /\ call[p] \in CallType /\ call[p].at = "stat" /\ Agrees(p)
      /\ file \in Bytes /\ StSize \in Nat
  BY CallFacts DEF ReadStat
<1>2. call[p].op = "read" /\ call[p] # Idle /\ call[p].got = <<>>
  BY <1>1 DEF Agrees, CallIsShaped, Idle
<1>3. call' = [call EXCEPT ![p] = c]
  BY DEF ReadStat, IInv, TypeOK
<1>4. /\ c \in CallType /\ c.op = "read" /\ c.at = "data" /\ c.len = StSize
      /\ c.got = <<>> /\ c # Idle
  BY <1>1, <1>2 DEF CallType, Idle
<1> HIDE DEF c
<1>5. call'[p] = c
  BY <1>3 DEF IInv, TypeOK
<1>6. Agrees(p)'
  BY <1>4, <1>5 DEF Agrees, CallIsShaped, CallIsQuiet, CallIsAlone,
                       ReadStat, StSize
<1>7. Len(c.got) <= c.len
  BY <1>1, <1>4
<1>8. QED
  BY <1>2, <1>3, <1>4, <1>6, <1>7, CallGoesOn DEF ReadStat

(* Reading as much as the quiet file's size says reads all one read can.   *)
LEMMA ReadsOfTheWhole ==
  ASSUME NEW m \in Nat, NEW n \in Nat
  PROVE  /\ Least(n, Least(m, n)) = Least(m, n)
         /\ Least(0, Least(m, n)) = Least(m, 0)
  BY DEF Least

LEMMA ReadDataKeeps ==
  ASSUME IInv, NEW p \in Procs, ReadData(p)
  PROVE  IInv'
<1> DEFINE n == Least(call[p].len, Least(MaxRw, Len(file)))
           got == SubSeq(file, 1, n)
           c == [call[p] EXCEPT !.at = "close", !.got = got]
<1>1. /\ call[p] \in CallType /\ call[p].op = "read" /\ call[p].at = "data"
      /\ Agrees(p) /\ call[p].len \in Nat
      /\ file \in Bytes /\ Len(file) \in Nat /\ MaxRw \in Nat
  BY CallFacts, FileAssumption DEF ReadData, CallType
<1>2. n \in 0..Len(file) /\ n <= call[p].len
  <2>1. Least(MaxRw, Len(file)) \in Nat /\ Least(MaxRw, Len(file)) <= Len(file)
    BY <1>1, LeastIsLeast
  <2>2. n \in Nat /\ n <= call[p].len /\ n <= Least(MaxRw, Len(file))
    BY <1>1, <2>1, LeastIsLeast
  <2> HIDE DEF n
  <2>3. QED
    BY <1>1, <2>1, <2>2
<1>3. p \in quiet => n = Least(MaxRw, StSize)
  <2> SUFFICES ASSUME p \in quiet
               PROVE  n = Least(MaxRw, StSize)
    OBVIOUS
  <2>1. call[p].len = StSize
    BY <1>1 DEF Agrees, CallIsQuiet
  <2>2. QED
    BY <1>1, <2>1, ReadsOfTheWhole DEF StSize
<1> HIDE DEF n
<1>4. got \in Bytes /\ Len(got) = n
  BY <1>1, <1>2, BeginningOfFile
<1>5. call' = [call EXCEPT ![p] = c]
  BY DEF ReadData, IInv, TypeOK, n
<1>6. p \in quiet => got = SubSeq(file, 1, Least(MaxRw, StSize))
  BY <1>3
<1> HIDE DEF got
<1>7. /\ c \in CallType /\ c.op = "read" /\ c.at = "close"
      /\ c.len = call[p].len /\ c.got = got /\ c # Idle
  BY <1>1, <1>4 DEF CallType, Idle
<1> HIDE DEF c
<1>8. call'[p] = c
  BY <1>5 DEF IInv, TypeOK
<1>9. Agrees(p)'
  BY <1>6, <1>7, <1>8 DEF Agrees, CallIsShaped, CallIsQuiet, CallIsAlone,
                              ReadData, StSize
<1>10. call[p] # Idle /\ Len(c.got) <= c.len
  BY <1>1, <1>2, <1>4, <1>7 DEF Idle
<1>11. QED
  BY <1>5, <1>7, <1>9, <1>10, CallGoesOn DEF ReadData

LEMMA DataFailsKeeps ==
  ASSUME IInv, NEW p \in Procs, DataFails(p)
  PROVE  IInv'
<1> DEFINE c == [call[p] EXCEPT !.at = "close", !.bad = "data"]
<1>1. /\ call[p] \in CallType /\ call[p].at = "data" /\ Agrees(p)
      /\ Len(call[p].got) <= call[p].len /\ call[p] # Idle
  BY CallFacts DEF DataFails, Idle
<1>2. call' = [call EXCEPT ![p] = c]
  BY DEF DataFails, IInv, TypeOK
<1>3. /\ c \in CallType /\ c.op = call[p].op /\ c.at = "close"
      /\ c.len = call[p].len /\ c.got = call[p].got /\ c.bad = "data" /\ c # Idle
  BY <1>1 DEF CallType, Idle
<1> HIDE DEF c
<1>4. call'[p] = c
  BY <1>2 DEF IInv, TypeOK
<1>5. Agrees(p)'
  BY <1>1, <1>3, <1>4 DEF Agrees, CallIsShaped, CallIsQuiet, CallIsAlone,
                              DataFails, Idle
<1>6. QED
  BY <1>1, <1>2, <1>3, <1>5, CallGoesOn DEF DataFails

(* A call begins: nobody but p is quiet over a file that is emptied.       *)
LEMMA OpenedKeeps ==
  ASSUME IInv, NEW p \in Procs, NEW op \in {"read", "write", "append"},
         NEW at \in {"stat", "data"}, NEW n \in Nat,
         at = "stat" <=> op = "read",
         Opened(p, op, at, n),
         quiet' \subseteq quiet \cup {p},
         p \in quiet' => op = "read" \/ (op = "write" /\ file' = <<>>)
                         \/ (op = "append" /\ p \in quiet),
         \/ file' = file /\ appended' = appended /\ alone' = alone
         \/ /\ file' = <<>> /\ quiet' \subseteq {p} /\ alone' \subseteq {p}
            /\ appended' = [only |-> FALSE, log |-> <<>>],
         op = "write" => ~appended'.only
  PROVE  IInv'
<1> DEFINE c == [op |-> op, at |-> at, len |-> n, got |-> <<>>, bad |-> "no"]
<1>1. /\ call[p] = Idle /\ call' = [call EXCEPT ![p] = c]
      /\ descriptor' = descriptor \cup {p}
      /\ ret' = [ret EXCEPT ![p] = Nothing] /\ last_errno' = last_errno
  BY DEF Opened
<1>2. <<>> \in Bytes /\ Len(<<>>) = 0
  BY DEF Bytes
<1>3. /\ c \in CallType /\ Len(c.got) <= c.len /\ c # Idle
      /\ c.op = op /\ c.at = at /\ c.got = <<>>
  BY <1>2 DEF CallType, Idle
<1> HIDE DEF c
<1>4. call'[p] = c /\ \A q \in Procs : q # p => call'[q] = call[q]
  BY <1>1 DEF IInv, TypeOK
<1>5. TypeOK'
  <2>1. file' \in Bytes /\ Len(file') <= MaxFile
    BY <1>2, FileAssumption DEF IInv, TypeOK
  <2>2. call' \in [Procs -> CallType] /\ \A q \in Procs : Len(call'[q].got) <= call'[q].len
    BY <1>1, <1>3, <1>4 DEF IInv, TypeOK
  <2>3. Nothing \in RetType
    BY <1>2 DEF Nothing, RetType
  <2>4. ret' \in [Procs -> RetType] /\ last_errno' \in [Procs -> Errnos]
    BY <1>1, <2>3 DEF IInv, TypeOK
  <2>5. appended' \in [log : Bytes, only : BOOLEAN]
    <3>1. [only |-> FALSE, log |-> <<>>] \in [log : Bytes, only : BOOLEAN]
      BY <1>2
    <3>2. appended \in [log : Bytes, only : BOOLEAN]
      BY DEF IInv, TypeOK
    <3>3. QED
      BY <3>1, <3>2
  <2>6. descriptor' \subseteq Procs /\ quiet' \subseteq Procs /\ alone' \subseteq Procs
    BY <1>1 DEF IInv, TypeOK
  <2>7. QED
    BY <2>1, <2>2, <2>4, <2>5, <2>6 DEF TypeOK
<1>6. NoDescriptorLeak'
  BY <1>1, <1>3, <1>4 DEF IInv, TypeOK, NoDescriptorLeak
<1>7. ErrnoTellsFailure'
  BY <1>1, <1>3, <1>4 DEF IInv, TypeOK, ErrnoTellsFailure
<1>8. CallsAgree'
  <2> SUFFICES ASSUME NEW q \in Procs
               PROVE  Agrees(q)'
    BY DEF CallsAgree, Agrees
  <2>1. CASE q = p
    <3>1. CallIsShaped(p)'
      BY <1>3, <1>4 DEF CallIsShaped, Idle
    <3>2. p \in quiet' => CallIsQuiet(p)'
      BY <1>3, <1>4 DEF CallIsQuiet
    <3>3. p \in alone' => CallIsAlone(p)'
      BY <1>3, <1>4 DEF CallIsAlone
    <3>4. QED
      BY <1>3, <1>4, <2>1, <3>1, <3>2, <3>3 DEF Agrees
  <2>2. CASE q # p
    <3>1. Agrees(q) /\ call'[q] = call[q] /\ call[q].got \in Bytes
      BY <1>4, <2>2 DEF IInv, CallsAgree, Agrees, TypeOK, CallType
    <3>2. (q \in quiet' => q \in quiet /\ file' = file)
          /\ (q \in alone' => q \in alone /\ file' = file)
          /\ (appended'.only => appended.only)
      BY <2>2
    <3>3. QED
      BY <3>1, <3>2, OthersAgree
  <2>3. QED
    BY <2>1, <2>2
<1>9. AppendsConcatenate'
  BY DEF IInv, AppendsConcatenate
<1>10. QED
  BY <1>5, <1>6, <1>7, <1>8, <1>9 DEF IInv

LEMMA ReadOpenKeeps ==
  ASSUME IInv, NEW p \in Procs, ReadOpen(p)
  PROVE  IInv'
  BY OpenedKeeps DEF ReadOpen

LEMMA WriteOpenKeeps ==
  ASSUME IInv, NEW p \in Procs, NEW n \in Lengths, WriteOpen(p, n)
  PROVE  IInv'
<1>1. n \in Nat
  BY FileAssumption
<1>2. /\ Opened(p, "write", "data", n) /\ file' = <<>>
      /\ quiet' = {p} /\ alone' = {p}
      /\ appended' = [only |-> FALSE, log |-> <<>>]
  BY DEF WriteOpen
<1>3. ~appended'.only
  BY <1>2
<1>4. QED
  BY <1>1, <1>2, <1>3, OpenedKeeps

LEMMA AppendOpenKeeps ==
  ASSUME IInv, NEW p \in Procs, NEW n \in Lengths, AppendOpen(p, n)
  PROVE  IInv'
<1>1. n \in Nat
  BY FileAssumption
<1>2. QED
  BY <1>1, OpenedKeeps DEF AppendOpen

(* One write puts n bytes at the offset, and they fit on the disk; where   *)
(* it appends, the file grows by them, and where an undisturbed write_file *)
(* writes, they are the file.                                              *)
LEMMA WriteFacts ==
  ASSUME IInv, NEW p \in Procs, WriteData(p),
         NEW n, n = Least(call[p].len, MaxFile - Offset(p))
  PROVE  /\ n \in Nat /\ n <= call[p].len /\ Offset(p) \in 0..Len(file)
         /\ Offset(p) + n <= MaxFile
         /\ file' = Written(file, Content(p, n), Offset(p))
         /\ file' \in Bytes /\ Len(file') <= MaxFile
         /\ appended.only => file' = file \o Content(p, n)
         /\ call[p].op = "write" /\ p \in quiet => file' = Content(p, n)
         /\ n = 0 => file' = file
         /\ call[p].op = "write" => StartsWith(file', Content(p, n))
         /\ call[p].op = "append" => StartStays
<1>1. /\ call[p] \in CallType /\ call[p].len \in Nat /\ Agrees(p)
      /\ file \in Bytes /\ Len(file) \in Nat /\ Len(file) <= MaxFile
      /\ MaxFile \in Nat /\ call[p].at = "data"
      /\ call[p].op \in {"write", "append"}
  BY CallFacts, FileAssumption DEF WriteData, CallType
<1>2. Offset(p) \in 0..Len(file)
  BY <1>1 DEF Offset
<1>3. n \in Nat /\ n <= call[p].len /\ Offset(p) + n <= MaxFile
  <2>1. MaxFile - Offset(p) \in Nat
    BY <1>1, <1>2
  <2>2. n \in Nat /\ n <= call[p].len /\ n <= MaxFile - Offset(p)
    BY <1>1, <2>1, LeastIsLeast
  <2>3. QED
    BY <1>1, <1>2, <2>2
<1>4. Content(p, n) \in Bytes /\ Len(Content(p, n)) = n
  BY <1>3, ContentIsBytes
<1>5. file' = Written(file, Content(p, n), Offset(p))
  BY <1>4 DEF WriteData, Written
<1>6. file' \in Bytes /\ Len(file') <= MaxFile
  BY <1>1, <1>2, <1>3, <1>4, <1>5, WrittenIsBytes
<1>7. appended.only => file' = file \o Content(p, n)
  <2> SUFFICES ASSUME appended.only
               PROVE  file' = file \o Content(p, n)
    OBVIOUS
  <2>1. Offset(p) = Len(file)
    BY <1>1 DEF Agrees, Offset
  <2>2. QED
    BY <1>1, <1>4, <1>5, <2>1, WrittenAtEnd
<1>8. call[p].op = "write" /\ p \in quiet => file' = Content(p, n)
  <2> SUFFICES ASSUME call[p].op = "write", p \in quiet
               PROVE  file' = Content(p, n)
    OBVIOUS
  <2>1. file = <<>> /\ Offset(p) = 0
    BY <1>1 DEF Agrees, CallIsQuiet, Offset
  <2>2. QED
    BY <1>4, <1>5, <2>1, WrittenOverNothing
<1>9. n = 0 => file' = file
  BY <1>1, <1>2, <1>4, <1>5, WrittenNothing
<1>10. call[p].op = "write" => StartsWith(file', Content(p, n))
  BY <1>1, <1>4, <1>5, WrittenAtStart DEF Offset
<1>11. call[p].op = "append" => StartStays
  <2> SUFFICES ASSUME call[p].op = "append"
               PROVE  StartStays
    OBVIOUS
  <2>1. file' = file \o Content(p, n)
    BY <1>1, <1>4, <1>5, WrittenAtEnd DEF Offset
  <2>2. QED
    BY <1>1, <1>4, <2>1, AppendKeepsStart DEF StartStays
<1>12. QED
  BY <1>2, <1>3, <1>5, <1>6, <1>7, <1>8, <1>9, <1>10, <1>11

LEMMA WriteDataKeeps ==
  ASSUME IInv, NEW p \in Procs, WriteData(p)
  PROVE  IInv'
<1> DEFINE n == Least(call[p].len, MaxFile - Offset(p))
           got == Content(p, n)
           c == [call[p] EXCEPT !.at = "close", !.got = got]
<1>1. /\ n \in Nat /\ n <= call[p].len
      /\ file' \in Bytes /\ Len(file') <= MaxFile
      /\ appended.only => file' = file \o got
      /\ call[p].op = "write" /\ p \in quiet => file' = got
      /\ n = 0 => file' = file
      /\ call[p].op = "write" => StartsWith(file', got)
      /\ call[p].op = "append" => StartStays
  BY WriteFacts
<1>2. /\ call' = [call EXCEPT ![p] = c]
      /\ quiet' = IF n > 0 THEN quiet \cap {p} ELSE quiet
      /\ alone' = IF call[p].op = "write" THEN alone \cap {p} ELSE alone
      /\ appended' = IF appended.only
                     THEN [appended EXCEPT !.log = @ \o got] ELSE appended
      /\ descriptor' = descriptor /\ last_errno' = last_errno /\ ret' = ret
      /\ call[p].op \in {"write", "append"} /\ call[p].at = "data"
  BY DEF WriteData, IInv, TypeOK
<1>3. call[p] \in CallType /\ call[p] # Idle /\ Agrees(p)
  BY <1>2, CallFacts DEF Idle
<1> HIDE DEF n
<1>4. got \in Bytes /\ Len(got) = n
  BY <1>1, ContentIsBytes
<1> HIDE DEF got
<1>5. /\ c \in CallType /\ c.op = call[p].op /\ c.at = "close"
      /\ c.len = call[p].len /\ c.got = got /\ c # Idle
      /\ Len(c.got) <= c.len
  BY <1>1, <1>2, <1>3, <1>4 DEF CallType, Idle
<1> HIDE DEF c
<1>6. call'[p] = c /\ \A q \in Procs : q # p => call'[q] = call[q]
  BY <1>2 DEF IInv, TypeOK
<1>7. appended' \in [log : Bytes, only : BOOLEAN]
      /\ (appended'.only <=> appended.only)
      /\ (appended.only => appended'.log = appended.log \o got)
  <2>1. appended \in [log : Bytes, only : BOOLEAN]
    BY DEF IInv, TypeOK
  <2>2. appended.log \o got \in Bytes
    BY <1>4, <2>1, ConcatProperties DEF Bytes
  <2>3. QED
    BY <1>2, <2>1, <2>2
<1>8. TypeOK'
  <2>1. call' \in [Procs -> CallType] /\ \A q \in Procs : Len(call'[q].got) <= call'[q].len
    BY <1>2, <1>5, <1>6 DEF IInv, TypeOK
  <2>2. QED
    BY <1>1, <1>2, <1>7, <2>1 DEF IInv, TypeOK
<1>9. NoDescriptorLeak'
  BY <1>2, <1>3, <1>5, <1>6 DEF IInv, TypeOK, NoDescriptorLeak
<1>10. ErrnoTellsFailure'
  BY <1>2, <1>5, <1>6 DEF IInv, TypeOK, ErrnoTellsFailure
<1>11. CallsAgree'
  <2> SUFFICES ASSUME NEW q \in Procs
               PROVE  Agrees(q)'
    BY DEF CallsAgree, Agrees
  <2>1. CASE q = p
    <3>1. p \in quiet' => p \in quiet
      BY <1>2
    <3>2. p \in quiet' => CallIsQuiet(p)'
      BY <1>1, <1>2, <1>5, <1>6, <3>1 DEF CallIsQuiet
    <3>3. CallIsShaped(p)'
      BY <1>2, <1>5, <1>6 DEF CallIsShaped, Idle
    <3>4. call'[p].op = "write" => ~appended'.only
      BY <1>3, <1>5, <1>6, <1>7 DEF Agrees
    <3>5. CallIsAlone(p)'
      BY <1>1, <1>5, <1>6 DEF CallIsAlone
    <3>6. QED
      BY <2>1, <3>2, <3>3, <3>4, <3>5 DEF Agrees
  <2>2. CASE q # p
    <3>1. Agrees(q) /\ call'[q] = call[q] /\ call[q].got \in Bytes
      BY <1>6, <2>2 DEF IInv, CallsAgree, Agrees, TypeOK, CallType
    <3>2. q \in quiet' => q \in quiet /\ file' = file
      <4>1. n > 0 \/ n = 0
        BY <1>1
      <4>2. QED
        BY <1>1, <1>2, <2>2, <4>1
    <3>3. q \in alone' => q \in alone /\ StartStays
      BY <1>1, <1>2, <2>2
    <3>4. QED
      BY <1>7, <3>1, <3>2, <3>3, OthersAgree
  <2>3. QED
    BY <2>1, <2>2
<1>12. AppendsConcatenate'
  BY <1>1, <1>7 DEF IInv, AppendsConcatenate
<1>13. QED
  BY <1>8, <1>9, <1>10, <1>11, <1>12 DEF IInv

(* The ways a call returns: a failure leaves an error, a success and the   *)
(* start of another process do not.                                        *)
LEMMA FailuresKeep ==
  ASSUME IInv, NEW p \in Procs, NEW errno \in Errnos, errno # "none",
         Returns(p, errno, Failed)
  PROVE  IInv'
<1>1. Failed \in RetType /\ ~Failed.ok
  BY EmptySeq DEF Failed, RetType, Bytes
<1>2. QED
  BY <1>1, ReturnsKeeps

LEMMA CloseAfterDataKeeps ==
  ASSUME IInv, NEW p \in Procs, CloseAfterData(p)
  PROVE  IInv'
<1> DEFINE result == [op |-> call[p].op, ok |-> TRUE, got |-> call[p].got]
<1>1. result \in RetType /\ result.ok
  BY CallFacts DEF CallType, RetType
<1>2. Returns(p, "none", result)
  BY DEF CloseAfterData
<1> HIDE DEF result
<1>3. QED
  BY <1>1, <1>2, ReturnsKeeps DEF Errnos

LEMMA CrashKeeps ==
  ASSUME IInv, NEW p \in Procs, Crash(p)
  PROVE  IInv'
<1>1. Nothing \in RetType /\ Nothing.ok
  BY EmptySeq DEF Nothing, RetType, Bytes
<1>2. QED
  BY <1>1, ReturnsKeeps DEF Crash, Errnos

-----------------------------------------------------------------------------
(* The theorems.                                                           *)

LEMMA Initially_IInv == Init => IInv
<1> SUFFICES ASSUME Init
             PROVE  IInv
  OBVIOUS
<1>1. /\ file \in Bytes /\ Len(file) <= MaxFile
      /\ \A p \in Procs : call[p] = Idle /\ ret[p] = Nothing /\ last_errno[p] = "none"
  BY FileAssumption DEF Init, Bytes
<1>2. Idle \in CallType /\ Len(Idle.got) <= Idle.len /\ Nothing \in RetType
  BY EmptySeq DEF Idle, Nothing, CallType, RetType, Bytes
<1>3. TypeOK
  BY <1>1, <1>2 DEF Init, TypeOK, Errnos
<1>4. NoDescriptorLeak /\ ErrnoTellsFailure
  BY <1>1 DEF Init, NoDescriptorLeak, ErrnoTellsFailure, Nothing
<1>5. CallsAgree
  BY <1>1 DEF Init, CallsAgree, CallIsShaped, CallIsQuiet, CallIsAlone, Idle
<1>6. AppendsConcatenate
  BY DEF Init, AppendsConcatenate
<1>7. QED
  BY <1>3, <1>4, <1>5, <1>6 DEF IInv

LEMMA NextKeeps == IInv /\ [Next]_vars => IInv'
<1> SUFFICES ASSUME IInv, [Next]_vars
             PROVE  IInv'
  OBVIOUS
<1>1. CASE UNCHANGED vars
  BY <1>1 DEF vars, IInv, TypeOK, NoDescriptorLeak, ErrnoTellsFailure,
              CallsAgree, CallIsShaped, CallIsQuiet, CallIsAlone, StSize,
              AppendsConcatenate
<1>2. ASSUME NEW p \in Procs, NEW errno \in {"EINVAL", "kernel"},
             FailsToOpen(p, errno)
      PROVE  IInv'
  BY <1>2, FailuresKeep DEF FailsToOpen, Errnos
<1>3. ASSUME NEW p \in Procs, ReadStatFails(p)
      PROVE  IInv'
  BY <1>3, FailuresKeep DEF ReadStatFails, Errnos
<1>4. ASSUME NEW p \in Procs, CloseAfterError(p)
      PROVE  IInv'
  BY <1>4, FailuresKeep DEF CloseAfterError, Errnos
<1>5. QED
  BY <1>1, <1>2, <1>3, <1>4, ReadOpenKeeps, ReadStatKeeps, ReadDataKeeps,
     DataFailsKeeps, WriteOpenKeeps, AppendOpenKeeps, WriteDataKeeps,
     CloseAfterDataKeeps, CrashKeeps DEF Next

(* Every reachable state satisfies the inductive invariant.                *)
THEOREM InductiveInvariant == Spec => []IInv
  BY Initially_IInv, NextKeeps, PTL DEF Spec

(* Every variable has its type, and a read never exceeds its buffer.       *)
THEOREM TypeCorrect == Spec => []TypeOK
<1>1. IInv => TypeOK
  BY DEF IInv
<1>2. QED
  BY <1>1, InductiveInvariant, PTL

(* A process has the file open exactly while it is in a call: no error     *)
(* path of read_file, write_file or append_file forgets to close it.       *)
THEOREM EveryPathCloses == Spec => []NoDescriptorLeak
<1>1. IInv => NoDescriptorLeak
  BY DEF IInv
<1>2. QED
  BY <1>1, InductiveInvariant, PTL

(* A call that returned left an error exactly when it failed.              *)
THEOREM FailuresLeaveAnError == Spec => []ErrnoTellsFailure
<1>1. IInv => ErrnoTellsFailure
  BY DEF IInv
<1>2. QED
  BY <1>1, InductiveInvariant, PTL

(* While there are only appends, the file is what it was and all that was  *)
(* appended, in the order of the writes: none overwrites another.          *)
THEOREM AppendsAreNotLost == Spec => []AppendsConcatenate
<1>1. IInv => AppendsConcatenate
  BY DEF IInv
<1>2. QED
  BY <1>1, InductiveInvariant, PTL

(* A step that completes a call is its close.                              *)
LEMMA CompletesIsClose ==
  ASSUME IInv, NEW p \in Procs, Next, Completes(p)
  PROVE  /\ call[p].bad = "no" /\ file' = file
         /\ ret'[p].got = call[p].got
<1>1. call \in [Procs -> CallType] /\ ret \in [Procs -> RetType] /\ call[p] # Idle
  BY DEF IInv, TypeOK, Completes, Idle
<1>2. ASSUME NEW q \in Procs, NEW errno, NEW result, Returns(q, errno, result),
             q = p => ~result.ok \/ result.op = "none"
      PROVE  FALSE
  BY <1>1, <1>2 DEF Returns, Completes
<1>3. ASSUME NEW q \in Procs, call'[q] # Idle,
             \A r \in Procs : r # q => call'[r] = call[r]
      PROVE  FALSE
  BY <1>1, <1>3 DEF Completes
<1>4. ASSUME NEW q \in Procs, NEW errno \in {"EINVAL", "kernel"},
             FailsToOpen(q, errno)
      PROVE  FALSE
  BY <1>2, <1>4 DEF FailsToOpen, Failed
<1>5. ASSUME NEW q \in Procs,
             ReadStatFails(q) \/ CloseAfterError(q) \/ Crash(q)
      PROVE  FALSE
  BY <1>2, <1>5 DEF ReadStatFails, CloseAfterError, Crash, Failed, Nothing
<1>6. ASSUME NEW q \in Procs, NEW op \in {"read", "write", "append"}, NEW at, NEW n,
             Opened(q, op, at, n)
      PROVE  FALSE
  BY <1>1, <1>3, <1>6 DEF Opened, Idle
<1>7. ASSUME NEW q \in Procs,
             \/ ReadOpen(q)
             \/ \E n \in Lengths : WriteOpen(q, n) \/ AppendOpen(q, n)
      PROVE  FALSE
  BY <1>6, <1>7 DEF ReadOpen, WriteOpen, AppendOpen
<1>8. ASSUME NEW q \in Procs,
             ReadStat(q) \/ ReadData(q) \/ DataFails(q) \/ WriteData(q)
      PROVE  FALSE
  <2>1. call'[q].at \in {"data", "close"}
    <3>1. CASE ReadStat(q)
      BY <1>1, <3>1 DEF ReadStat, CallType
    <3>2. CASE ReadData(q)
      BY <1>1, <3>2 DEF ReadData, CallType
    <3>3. CASE DataFails(q)
      BY <1>1, <3>3 DEF DataFails, CallType
    <3>4. CASE WriteData(q)
      BY <1>1, <3>4 DEF WriteData, CallType
    <3>5. QED
      BY <1>8, <3>1, <3>2, <3>3, <3>4
  <2>2. \A r \in Procs : r # q => call'[r] = call[r]
    BY <1>1, <1>8 DEF ReadStat, ReadData, DataFails, WriteData
  <2>3. QED
    BY <1>3, <2>1, <2>2 DEF Idle
<1>9. PICK q \in Procs : CloseAfterData(q)
  BY <1>4, <1>5, <1>7, <1>8 DEF Next
<1>10. q = p
  BY <1>1, <1>9 DEF CloseAfterData, Returns, Completes
<1>11. QED
  BY <1>1, <1>9, <1>10 DEF CloseAfterData, Returns

(* A write_file that no other process interferes with leaves the file      *)
(* holding exactly what it reports to have written.                        *)
THEOREM UndisturbedWritesAreExact == Spec => QuietWriteIsExact
<1>1. IInv /\ [Next]_vars =>
        [\A p \in Procs :
           Completes(p) /\ call[p].op = "write" /\ p \in quiet
             => file = ret'[p].got]_vars
  <2> SUFFICES ASSUME IInv, Next, NEW p \in Procs,
                      Completes(p), call[p].op = "write", p \in quiet
               PROVE  file = ret'[p].got
    OBVIOUS
  <2>1. call[p].bad = "no" /\ ret'[p].got = call[p].got /\ call[p].at = "close"
    BY CompletesIsClose DEF Completes
  <2>2. Agrees(p)
    BY CallFacts
  <2>3. QED
    BY <2>1, <2>2 DEF Agrees, CallIsQuiet
<1>2. QED
  BY <1>1, InductiveInvariant, PTL DEF Spec, QuietWriteIsExact

(* A write_file beside which others only append leaves what it reports to  *)
(* have written at the start of the file.                                  *)
THEOREM WritesStandAmongAppends == Spec => SoleWriteStands
<1>1. IInv /\ [Next]_vars =>
        [\A p \in Procs :
           Completes(p) /\ call[p].op = "write" /\ p \in alone
             => StartsWith(file, ret'[p].got)]_vars
  <2> SUFFICES ASSUME IInv, Next, NEW p \in Procs,
                      Completes(p), call[p].op = "write", p \in alone
               PROVE  StartsWith(file, ret'[p].got)
    OBVIOUS
  <2>1. call[p].bad = "no" /\ ret'[p].got = call[p].got /\ call[p].at = "close"
    BY CompletesIsClose DEF Completes
  <2>2. Agrees(p)
    BY CallFacts
  <2>3. QED
    BY <2>1, <2>2 DEF Agrees, CallIsAlone
<1>2. QED
  BY <1>1, InductiveInvariant, PTL DEF Spec, SoleWriteStands

(* On a file whose st_size is its length, a read_file that no other        *)
(* process interferes with returns the whole file, up to what one read     *)
(* transfers. Without that hypothesis TLC refutes it.                      *)
THEOREM UndisturbedReadsAreWhole ==
  ASSUME HasSize
  PROVE  Spec => QuietReadIsWhole
<1>1. IInv /\ [Next]_vars =>
        [\A p \in Procs :
           Completes(p) /\ call[p].op = "read" /\ p \in quiet
             => ret'[p].got = SubSeq(file, 1, Least(MaxRw, Len(file)))]_vars
  <2> SUFFICES ASSUME IInv, Next, NEW p \in Procs,
                      Completes(p), call[p].op = "read", p \in quiet
               PROVE  ret'[p].got = SubSeq(file, 1, Least(MaxRw, Len(file)))
    OBVIOUS
  <2>1. call[p].bad = "no" /\ ret'[p].got = call[p].got /\ call[p].at = "close"
    BY CompletesIsClose DEF Completes
  <2>2. Agrees(p)
    BY CallFacts
  <2>3. StSize = Len(file)
    BY DEF StSize
  <2>4. QED
    BY <2>1, <2>2, <2>3 DEF Agrees, CallIsQuiet
<1>2. QED
  BY <1>1, InductiveInvariant, PTL DEF Spec, QuietReadIsWhole
=============================================================================
