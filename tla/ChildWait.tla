------------------------------ MODULE ChildWait ------------------------------
(***************************************************************************)
(* Child processes of src/shim/aria_libc_posix.c, lines 155-235: fork,     *)
(* spawn_bg and spawn start a child, waitpid and spawn collect one, and    *)
(* last_wait_status keeps what the last of them collected.                 *)
(*                                                                         *)
(* The program is one thread; its children run beside it and end when they *)
(* like, as they like (a failed exec ends the child with status 127). The  *)
(* kernel reuses a pid as soon as its child has been collected, so what a  *)
(* pid stands for is tracked as a job: the jobs are numbered in the order  *)
(* the children are started. A child the program forks and that goes on    *)
(* running Aria code is a child like the others.                           *)
(*                                                                         *)
(* The flag-based handlers are installed with SA_RESTART (line 98), so a   *)
(* signal does not end a waitpid; it is not modelled here. Nor are the     *)
(* waitpid flags other than WNOHANG.                                       *)
(***************************************************************************)
EXTENDS Integers

(* A definition whose name has the form Action_Slip is a wrong version of  *)
(* the Action below it; the properties are checked to notice each one.     *)

CONSTANTS
  Pids,      (* the process ids the kernel hands out                       *)
  AnyChild,  (* the waitpid arguments that mean any child: -1, 0           *)
  Strays,    (* waitpid arguments that name no child of this process       *)
  MaxJobs,   (* bound: how many children are started                       *)
  Codes,     (* the exit codes of children                                 *)
  Termsigs,  (* the signals that kill children                             *)
  Free       (* the job of a pid that is not in use                        *)

ASSUME ChildAssumption ==
  /\ MaxJobs \in Nat
  /\ 0 \in Codes
  /\ 0 \notin Pids
  /\ Free \notin Nat
  /\ Pids \cap (AnyChild \cup Strays) = {}
  /\ AnyChild \cap Strays = {}
  /\ Codes \subseteq Nat
  /\ Termsigs \subseteq Nat

Jobs == 1..MaxJobs

(* A raw wait status: WIFEXITED and WEXITSTATUS, WIFSIGNALED and WTERMSIG. *)
Statuses == [kind : {"exited"}, code : Codes]
            \cup [kind : {"signaled"}, code : Termsigs]

(* The raw status 0, which a status variable starts with.                  *)
Status0 == [kind |-> "exited", code |-> 0]

NoJob == 0

VARIABLES
  last_wait_status, (* what wait_exited ... wait_termsig look at           *)
  last_errno,       (* the shim's sticky error number                      *)
  child,            (* kernel: the job of each pid and whether it has      *)
                    (* ended and waits to be collected                     *)
  sigchld,          (* kernel: whether SIGCHLD is ignored                  *)
  pc,               (* the call the program is blocked in                  *)
  alive,            (* FALSE once the program has exited or become another *)
  started,          (* history: how many jobs have been started            *)
  outcome,          (* history: how each job ended                         *)
  waited,           (* history: the job last_wait_status tells of          *)
  spawned           (* history: the jobs that spawn started                *)

kernelVars == <<child, sigchld>>
vars == <<last_wait_status, last_errno, child, sigchld, pc, alive, started,
          outcome, waited, spawned>>

FreePid == [job |-> Free, ended |-> FALSE]
Idle == [call |-> "none", pid |-> NoJob, job |-> NoJob]

Init ==
  /\ last_wait_status = Status0
  /\ last_errno = "none"
  /\ child = [p \in Pids |-> FreePid]
  /\ sigchld = "default"
  /\ pc = Idle
  /\ alive = TRUE
  /\ started = 0
  /\ outcome = [j \in Jobs |-> Status0]
  /\ waited = NoJob
  /\ spawned = {}

-----------------------------------------------------------------------------
(* The kernel.                                                             *)

InUse(p) == child[p].job # Free

(* A child ends. Its pid waits to be collected, unless SIGCHLD is ignored. *)
ChildEnds(p, status) ==
  /\ InUse(p)
  /\ ~child[p].ended
  /\ outcome' = [outcome EXCEPT ![child[p].job] = status]
  /\ child' = [child EXCEPT ![p] =
                 IF sigchld = "ignore" THEN FreePid
                 ELSE [job |-> @.job, ended |-> TRUE]]
  /\ UNCHANGED <<last_wait_status, last_errno, sigchld, pc, alive, started,
                 waited, spawned>>

(* A new child, behind a pid that is not in use.                           *)
Forks(p) ==
  /\ started < MaxJobs
  /\ ~InUse(p)
  /\ started' = started + 1
  /\ child' = [child EXCEPT ![p] = [job |-> started + 1, ended |-> FALSE]]

Matches_AnyChild(pid) == {p \in Pids : InUse(p)}

(* The children a waitpid argument stands for, ended or not.               *)
Matches(pid) == {p \in Pids : InUse(p) /\ (p = pid \/ pid \in AnyChild)}

Ended(pid) == {p \in Matches(pid) : child[p].ended}

-----------------------------------------------------------------------------
(* The calls.                                                              *)

Fails_ResultKept ==
  /\ last_errno' = "minus one"
  /\ UNCHANGED <<last_wait_status, kernelVars, alive, started, outcome,
                 waited, spawned>>

(* A call that fails leaves last_wait_status alone.                        *)
Fails ==
  /\ last_errno' = "kernel"
  /\ UNCHANGED <<last_wait_status, kernelVars, alive, started, outcome,
                 waited, spawned>>

(* fork or exec_shell refused by the kernel.                               *)
CallFails == pc = Idle /\ Fails /\ UNCHANGED pc

(* fork and spawn_bg                                                       *)
SpawnBg(p) ==
  /\ pc = Idle
  /\ Forks(p)
  /\ UNCHANGED <<last_wait_status, last_errno, sigchld, pc, alive, outcome,
                 waited, spawned>>

Spawn_NotWaiting(p) ==
  /\ pc = Idle
  /\ Forks(p)
  /\ spawned' = spawned \cup {started + 1}
  /\ UNCHANGED <<last_wait_status, last_errno, sigchld, pc, alive, outcome,
                 waited>>

(* spawn: the child is started, and the program blocks in waitpid for it.  *)
Spawn(p) ==
  /\ pc = Idle
  /\ Forks(p)
  /\ pc' = [call |-> "spawn", pid |-> p, job |-> started + 1]
  /\ spawned' = spawned \cup {started + 1}
  /\ UNCHANGED <<last_wait_status, last_errno, sigchld, alive, outcome,
                 waited>>

(* waitpid with flags 0 blocks.                                            *)
Waitpid(pid) ==
  /\ pc = Idle
  /\ pc' = [call |-> "waitpid", pid |-> pid,
            job |-> IF pid \in Pids /\ InUse(pid) THEN child[pid].job
                    ELSE NoJob]
  /\ UNCHANGED <<last_wait_status, last_errno, kernelVars, alive, started,
                 outcome, waited, spawned>>

(* waitpid collects the ended child behind p.                              *)
Collect(p) ==
  /\ last_wait_status' = outcome[child[p].job]
  /\ waited' = child[p].job
  /\ child' = [child EXCEPT ![p] = FreePid]
  /\ UNCHANGED <<last_errno, sigchld, alive, started, outcome, spawned>>

(* The blocked call returns with a child of those it asked for.            *)
WaitReturns ==
  /\ pc # Idle
  /\ \E p \in Ended(pc.pid) : Collect(p)
  /\ pc' = Idle

WaitFails_StatusStored ==
  /\ pc # Idle
  /\ Matches(pc.pid) = {}
  /\ last_errno' = "kernel"
  /\ last_wait_status' = Status0
  /\ pc' = Idle
  /\ UNCHANGED <<kernelVars, alive, started, outcome, waited, spawned>>

WaitFails_OnlyAtOnce ==
  /\ pc # Idle
  /\ pc.job = NoJob
  /\ Matches(pc.pid) = {}
  /\ Fails
  /\ pc' = Idle

(* The blocked call returns with -1: there is no such child, or no longer. *)
WaitFails ==
  /\ pc # Idle
  /\ Matches(pc.pid) = {}
  /\ Fails
  /\ pc' = Idle

(* waitpid with WNOHANG: a child that has ended is collected ...           *)
PollCollects(pid) ==
  /\ pc = Idle
  /\ \E p \in Ended(pid) : Collect(p)
  /\ UNCHANGED pc

(* ... one that has not is none, and status, still 0, is stored ...        *)
PollFindsRunning(pid) ==
  /\ pc = Idle
  /\ Matches(pid) # {}
  /\ Ended(pid) = {}
  /\ last_wait_status' = Status0
  /\ waited' = NoJob
  /\ UNCHANGED <<last_errno, kernelVars, pc, alive, started, outcome,
                 spawned>>

(* ... and asking for a child that does not exist fails.                   *)
PollFails(pid) == pc = Idle /\ Matches(pid) = {} /\ Fails /\ UNCHANGED pc

(* signal_ignore(SIGCHLD), and signal_reset or signal_trap of it.          *)
SetSigchld(d) ==
  /\ pc = Idle
  /\ sigchld' = d
  /\ UNCHANGED <<last_wait_status, last_errno, child, pc, alive, started,
                 outcome, waited, spawned>>

(* exit_now, or an exec_shell that succeeds.                               *)
Leave ==
  /\ pc = Idle
  /\ alive' = FALSE
  /\ UNCHANGED <<last_wait_status, last_errno, kernelVars, pc, started,
                 outcome, waited, spawned>>

-----------------------------------------------------------------------------

Returns == WaitReturns \/ WaitFails

Next ==
  /\ alive
  /\ \/ \E p \in Pids : SpawnBg(p) \/ Spawn(p)
     \/ \E p \in Pids, status \in Statuses : ChildEnds(p, status)
     \/ \E pid \in Pids \cup AnyChild \cup Strays :
          \/ Waitpid(pid)
          \/ PollCollects(pid)
          \/ PollFindsRunning(pid)
          \/ PollFails(pid)
     \/ Returns
     \/ \E d \in {"default", "ignore"} : SetSigchld(d)
     \/ CallFails
     \/ Leave

Spec == Init /\ [][Next]_vars

(* Every child ends at some time, and the kernel wakes a blocked waitpid.  *)
ChildrenEnd ==
  /\ \A p \in Pids :
       WF_vars(alive /\ \E status \in Statuses : ChildEnds(p, status))
  /\ WF_vars(alive /\ Returns)

FairSpec == Spec /\ ChildrenEnd

-----------------------------------------------------------------------------
(* Properties.                                                             *)

PidType == [job : Jobs, ended : BOOLEAN] \cup {FreePid}

CallType ==
  {Idle} \cup [call : {"waitpid", "spawn"}, pid : Pids \cup AnyChild \cup Strays,
               job : Jobs \cup {NoJob}]

(* Every variable has its type.                                            *)
TypeOK ==
  /\ last_wait_status \in Statuses
  /\ last_errno \in {"none", "kernel"}
  /\ child \in [Pids -> PidType]
  /\ sigchld \in {"default", "ignore"}
  /\ pc \in CallType
  /\ alive \in BOOLEAN
  /\ started \in 0..MaxJobs
  /\ outcome \in [Jobs -> Statuses]
  /\ waited \in Jobs \cup {NoJob}
  /\ spawned \subseteq Jobs

(* What wait_exited, wait_status, wait_signaled and wait_termsig tell is   *)
(* how the child ended that was collected last: a call that fails in       *)
(* between, or other children that end in between, do not change it.       *)
StatusIsTheCollected ==
  waited # NoJob => last_wait_status = outcome[waited]

(* A call that blocks for one child (spawn always does) collects that very *)
(* child, however many others have ended and whatever pids were reused.    *)
CollectsTheChildAskedFor ==
  [][pc.pid \in Pids /\ child' # child /\ pc' = Idle
       => /\ waited' = pc.job
          /\ last_wait_status' = outcome[pc.job]]_vars

(* Once spawn has returned nothing is left of its child: neither a running *)
(* process nor a pid that waits to be collected.                           *)
SpawnLeavesNoChild ==
  \A p \in Pids :
    child[p].job \in spawned => pc.call = "spawn" /\ pc.job = child[p].job

(* A program blocked in spawn or waitpid gets to go on, also when its      *)
(* child ends uncollected because SIGCHLD is ignored.                      *)
BlockedCallsReturn == pc # Idle ~> pc = Idle

(* What lines 162-164 and 178 say: the stored status is one a waited child *)
(* ended with, 0 standing for a child that is not done. It fails after a   *)
(* WNOHANG that found the child running: wait_exited then answers 1.       *)
StatusTellsOfAChild ==
  [][last_wait_status' # last_wait_status => waited' # NoJob]_vars

(* The jobs behind pids are distinct and have been started, and the one    *)
(* that was collected last is not among them.                              *)
JobsAreDistinct ==
  /\ \A p, q \in Pids : InUse(p) /\ child[p].job = child[q].job => p = q
  /\ \A p \in Pids : InUse(p) => child[p].job \in 1..started
  /\ \A p \in Pids : InUse(p) => child[p].job # waited
  /\ waited \in 0..started
  /\ spawned \subseteq 1..started

(* A call that is blocked for one child still means the child it was made  *)
(* for: nobody else can collect it and have its pid reused.                *)
CallMeansItsChild ==
  /\ pc.call = "spawn" => pc.pid \in Pids /\ pc.job \in Jobs
  /\ pc.pid \in Pids =>
       \A p \in Pids : InUse(p) => (p = pc.pid <=> child[p].job = pc.job)

(* What every step preserves.                                              *)
IInv ==
  /\ TypeOK
  /\ JobsAreDistinct
  /\ CallMeansItsChild
  /\ StatusIsTheCollected
  /\ SpawnLeavesNoChild
=============================================================================
