------------------------------ MODULE WholeFile ------------------------------
(***************************************************************************)
(* read_file, write_file and append_file of src/shim/aria_libc_io.c, lines *)
(* 388-473, called by several processes on one path.                       *)
(*                                                                         *)
(* Each call opens the file, asks for its size (read_file), transfers the  *)
(* data with one read or write, and closes it. The system calls are steps: *)
(* other processes get in between any two of them, and a process may be    *)
(* killed between them and start anew. One read or write is atomic, as the *)
(* file system's inode lock makes it for writers.                          *)
(*                                                                         *)
(* The content a process writes is a number of bytes that name the writer; *)
(* the bytes past MaxFile do not fit on the disk. Whether the path exists  *)
(* is left to open, which may fail.                                        *)
(***************************************************************************)
EXTENDS Integers, Sequences

(* A definition whose name has the form Action_Slip is a wrong version of  *)
(* the Action below it; the properties are checked to notice each one.     *)

CONSTANTS
  Procs,     (* the processes                                              *)
  MaxFile,   (* the length at which the disk is full                       *)
  Lengths,   (* the lengths of the contents that are written               *)
  Initially, (* what the file may hold to begin with                       *)
  MaxRw,     (* the most bytes the kernel transfers in one read or write   *)
  HasSize    (* FALSE for a file whose st_size is 0 whatever it holds, as  *)
             (* the kernel makes them under /proc                          *)

ASSUME FileAssumption ==
  /\ MaxFile \in Nat
  /\ MaxRw \in Nat \ {0}
  /\ Lengths \subseteq 0..MaxRw
  /\ HasSize \in BOOLEAN
  /\ Initially \subseteq Seq(Procs)
  /\ \A f \in Initially : Len(f) <= MaxFile

VARIABLES
  file,        (* kernel: the bytes of the file                            *)
  call,        (* each process's call in progress                          *)
  descriptor,  (* kernel: the processes that have the file open            *)
  last_errno,  (* each process's sticky error                              *)
  ret,         (* what each process's last call returned, and the bytes it *)
               (* read or wrote                                            *)
  quiet,       (* history: the processes whose read or write in progress   *)
               (* no other process has changed the file under              *)
  alone,       (* history: the processes in a write_file beside which no   *)
               (* other write_file has opened or written the file          *)
  appended     (* history: whether every change so far is an append, and   *)
               (* as long as it is, what was there and what they appended  *)

vars == <<file, call, descriptor, last_errno, ret, quiet, alone, appended>>

Bytes == Seq(Procs)
Idle == [op |-> "none", at |-> "none", len |-> 0, got |-> <<>>, bad |-> "no"]
Nothing == [op |-> "none", ok |-> TRUE, got |-> <<>>]

Least(m, n) == IF m <= n THEN m ELSE n

(* n bytes written by process p                                            *)
Content(p, n) == [i \in 1..n |-> p]

Init ==
  /\ file \in Initially
  /\ call = [p \in Procs |-> Idle]
  /\ descriptor = {}
  /\ last_errno = [p \in Procs |-> "none"]
  /\ ret = [p \in Procs |-> Nothing]
  /\ quiet = {}
  /\ alone = {}
  /\ appended = [log |-> file, only |-> TRUE]

-----------------------------------------------------------------------------

(* Process p's call returns.                                               *)
Returns(p, errno, result) ==
  /\ call' = [call EXCEPT ![p] = Idle]
  /\ descriptor' = descriptor \ {p}
  /\ last_errno' = [last_errno EXCEPT ![p] = errno]
  /\ ret' = [ret EXCEPT ![p] = result]
  /\ quiet' = quiet \ {p}
  /\ alone' = alone \ {p}
  /\ UNCHANGED <<file, appended>>

Failed == [op |-> "none", ok |-> FALSE, got |-> <<>>]

(* write_file or append_file is given no content, or open fails.           *)
FailsToOpen(p, errno) ==
  /\ call[p] = Idle
  /\ Returns(p, errno, Failed)

(* An open file, on which the call goes on at the given step.              *)
Opened(p, op, at, n) ==
  /\ call[p] = Idle
  /\ call' = [call EXCEPT ![p] =
                [op |-> op, at |-> at, len |-> n, got |-> <<>>, bad |-> "no"]]
  /\ descriptor' = descriptor \cup {p}
  /\ ret' = [ret EXCEPT ![p] = Nothing]
  /\ UNCHANGED last_errno

(* read_file                                                               *)
ReadOpen(p) ==
  /\ Opened(p, "read", "stat", 0)
  /\ quiet' = quiet \cup {p}
  /\ UNCHANGED <<file, alone, appended>>

StSize_OneLess == IF HasSize /\ file # <<>> THEN Len(file) - 1 ELSE 0
StSize == IF HasSize THEN Len(file) ELSE 0

(* fstat, and a buffer of that size and one.                               *)
ReadStat(p) ==
  /\ call[p].at = "stat"
  /\ call' = [call EXCEPT ![p].at = "data", ![p].len = StSize]
  /\ UNCHANGED <<file, descriptor, last_errno, ret, quiet, alone, appended>>

ReadStatFails_NotClosed(p) ==
  /\ call[p].at = "stat"
  /\ call' = [call EXCEPT ![p] = Idle]
  /\ last_errno' = [last_errno EXCEPT ![p] = "kernel"]
  /\ ret' = [ret EXCEPT ![p] = Failed]
  /\ UNCHANGED <<file, descriptor, quiet, alone, appended>>

(* fstat or malloc fails: the error is noted before the file is closed.    *)
ReadStatFails(p) ==
  /\ call[p].at = "stat"
  /\ \E errno \in {"kernel", "ENOMEM"} : Returns(p, errno, Failed)

ReadData_BufferIgnored(p) ==
  /\ call[p].op = "read"
  /\ call[p].at = "data"
  /\ call' = [call EXCEPT ![p].at = "close",
                          ![p].got = SubSeq(file, 1, Least(MaxRw, Len(file)))]
  /\ UNCHANGED <<file, descriptor, last_errno, ret, quiet, alone, appended>>

(* One read, of as much as fstat said there is.                            *)
ReadData(p) ==
  LET n == Least(call[p].len, Least(MaxRw, Len(file))) IN
  /\ call[p].op = "read"
  /\ call[p].at = "data"
  /\ call' = [call EXCEPT ![p].at = "close", ![p].got = SubSeq(file, 1, n)]
  /\ UNCHANGED <<file, descriptor, last_errno, ret, quiet, alone, appended>>

(* read or write fails.                                                    *)
DataFails(p) ==
  /\ call[p].at = "data"
  /\ call' = [call EXCEPT ![p].at = "close", ![p].bad = "data"]
  /\ UNCHANGED <<file, descriptor, last_errno, ret, quiet, alone, appended>>

WriteOpen_NotTruncated(p, n) ==
  /\ Opened(p, "write", "data", n)
  /\ quiet' = {p}
  /\ alone' = {p}
  /\ appended' = [only |-> FALSE, log |-> <<>>]
  /\ UNCHANGED file

(* write_file: open truncates the file.                                    *)
WriteOpen(p, n) ==
  /\ Opened(p, "write", "data", n)
  /\ file' = <<>>
  /\ quiet' = {p}
  /\ alone' = {p}
  /\ appended' = [only |-> FALSE, log |-> <<>>]

(* append_file                                                             *)
AppendOpen(p, n) ==
  /\ Opened(p, "append", "data", n)
  /\ UNCHANGED <<file, quiet, alone, appended>>

Offset_AppendForgotten(p) == 0

(* Where the data go: the end of the file as it is now if it was opened    *)
(* with O_APPEND, its start otherwise.                                     *)
Offset(p) == IF call[p].op = "append" THEN Len(file) ELSE 0

(* One write, of as much as the disk has room for.                         *)
WriteData(p) ==
  LET room == MaxFile - Offset(p)
      n == Least(call[p].len, room)
  IN
  /\ call[p].op \in {"write", "append"}
  /\ call[p].at = "data"
  /\ room > 0 \/ call[p].len = 0
  /\ call' = [call EXCEPT ![p].at = "close", ![p].got = Content(p, n)]
  /\ file' = SubSeq(file, 1, Offset(p)) \o Content(p, n)
             \o SubSeq(file, Offset(p) + n + 1, Len(file))
  /\ quiet' = IF n > 0 THEN quiet \cap {p} ELSE quiet
  /\ alone' = IF call[p].op = "write" THEN alone \cap {p} ELSE alone
  /\ appended' = IF appended.only
                 THEN [appended EXCEPT !.log = @ \o Content(p, n)]
                 ELSE appended
  /\ UNCHANGED <<descriptor, last_errno, ret>>

CloseAfterError_ErrnoCleared(p) ==
  /\ call[p].at = "close"
  /\ call[p].bad # "no"
  /\ Returns(p, "none", Failed)

(* close after a failed read or write: errno is looked at only now, and is *)
(* that of close should close fail as well.                                *)
CloseAfterError(p) ==
  /\ call[p].at = "close"
  /\ call[p].bad # "no"
  /\ Returns(p, "kernel", Failed)

(* close after the data were transferred, whether or not close fails.      *)
CloseAfterData(p) ==
  /\ call[p].at = "close"
  /\ call[p].bad = "no"
  /\ Returns(p, "none", [op |-> call[p].op, ok |-> TRUE, got |-> call[p].got])

(* Process p is killed in the middle of a call, and another starts.        *)
Crash(p) ==
  /\ call[p] # Idle
  /\ Returns(p, "none", Nothing)

-----------------------------------------------------------------------------

Next ==
  \E p \in Procs :
    \/ \E errno \in {"EINVAL", "kernel"} : FailsToOpen(p, errno)
    \/ ReadOpen(p)
    \/ ReadStat(p)
    \/ ReadStatFails(p)
    \/ ReadData(p)
    \/ DataFails(p)
    \/ \E n \in Lengths : WriteOpen(p, n) \/ AppendOpen(p, n)
    \/ WriteData(p)
    \/ CloseAfterError(p)
    \/ CloseAfterData(p)
    \/ Crash(p)

Spec == Init /\ [][Next]_vars

-----------------------------------------------------------------------------
(* Properties.                                                             *)

CallType ==
  [op : {"none", "read", "write", "append"},
   at : {"none", "stat", "data", "close"},
   len : Nat, got : Bytes, bad : {"no", "data"}]

RetType == [op : {"none", "read", "write", "append"}, ok : BOOLEAN, got : Bytes]

(* An error the kernel reported is "kernel".                               *)
Errnos == {"none", "EINVAL", "ENOMEM", "kernel"}

(* Every variable has its type, and what a call has read never exceeds the *)
(* buffer that was allocated for it, however the file grows meanwhile.     *)
TypeOK ==
  /\ file \in Bytes
  /\ Len(file) <= MaxFile
  /\ call \in [Procs -> CallType]
  /\ \A p \in Procs : Len(call[p].got) <= call[p].len
  /\ descriptor \subseteq Procs
  /\ last_errno \in [Procs -> Errnos]
  /\ ret \in [Procs -> RetType]
  /\ quiet \subseteq Procs
  /\ alone \subseteq Procs
  /\ appended \in [log : Bytes, only : BOOLEAN]

(* A process has the file open exactly while it is in a call: every error  *)
(* path of the three functions closes it.                                  *)
NoDescriptorLeak == \A p \in Procs : p \in descriptor <=> call[p] # Idle

(* A call reports an error exactly when it failed: errno is the only thing *)
(* that tells an empty file from one that cannot be read.                  *)
ErrnoTellsFailure ==
  \A p \in Procs :
    call[p] = Idle => (ret[p].ok <=> last_errno[p] = "none")

Completes(p) == call[p].at = "close" /\ call'[p] = Idle /\ ret'[p].ok
                /\ ret'[p].op # "none"

(* read_file returns the entire file (line 386), unless another process    *)
(* changed it during the call or it is longer than one read.               *)
QuietReadIsWhole ==
  [][\A p \in Procs :
       Completes(p) /\ call[p].op = "read" /\ p \in quiet
         => ret'[p].got = SubSeq(file, 1, Least(MaxRw, Len(file)))]_vars

(* A write_file that no other process interferes with leaves the file      *)
(* holding exactly what it reports to have written.                        *)
QuietWriteIsExact ==
  [][\A p \in Procs :
       Completes(p) /\ call[p].op = "write" /\ p \in quiet
         => file = ret'[p].got]_vars

StartsWith(f, c) == Len(c) <= Len(f) /\ \A i \in 1..Len(c) : f[i] = c[i]

(* A write_file that appends do interfere with, between its truncating     *)
(* open and its write or after it, still leaves what it reports to have    *)
(* written at the start of the file: only another write_file can cut it    *)
(* off or overwrite it. (What was appended before the write may be lost.)  *)
SoleWriteStands ==
  [][\A p \in Procs :
       Completes(p) /\ call[p].op = "write" /\ p \in alone
         => StartsWith(file, ret'[p].got)]_vars

(* While processes only append (and read), the file is what it was to      *)
(* begin with and what they wrote, one write after another: no append      *)
(* overwrites anything, whatever the order of their opens, writes, closes  *)
(* and crashes.                                                            *)
AppendsConcatenate == appended.only => file = appended.log

(* What every step preserves: the steps a call goes through,               *)
CallIsShaped(p) ==
  /\ call[p].op = "none" <=> call[p] = Idle
  /\ call[p].at = "none" <=> call[p] = Idle
  /\ call[p].at = "stat" => call[p].op = "read"
  /\ call[p].at \in {"stat", "data"} => call[p].got = <<>>

(* what a read or write that nobody disturbed has seen or left,            *)
CallIsQuiet(p) ==
  /\ call[p].op = "read" /\ call[p].at = "data" => call[p].len = StSize
  /\ call[p].op = "read" /\ call[p].at = "close" /\ call[p].bad = "no" =>
       call[p].got = SubSeq(file, 1, Least(MaxRw, StSize))
  /\ call[p].op = "write" /\ call[p].at = "data" => file = <<>>
  /\ call[p].op = "write" /\ call[p].at = "close" /\ call[p].bad = "no" =>
       file = call[p].got

(* what a write_file has left that only appends disturbed,                 *)
CallIsAlone(p) ==
  call[p].op = "write" /\ call[p].at = "close" /\ call[p].bad = "no" =>
    StartsWith(file, call[p].got)

(* and no write_file is under way while there were only appends.           *)
CallsAgree ==
  \A p \in Procs :
    /\ CallIsShaped(p)
    /\ p \in quiet => CallIsQuiet(p)
    /\ p \in alone => CallIsAlone(p)
    /\ call[p].op = "write" => ~appended.only

IInv ==
  /\ TypeOK
  /\ NoDescriptorLeak
  /\ ErrnoTellsFailure
  /\ CallsAgree
  /\ AppendsConcatenate
=============================================================================
