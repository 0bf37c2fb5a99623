-------------------------- MODULE ChildWait_proofs --------------------------
(***************************************************************************)
(* The theorems about ChildWait: the stored status is that of the child    *)
(* collected last, a blocked call collects the child it was made for, and  *)
(* spawn leaves no child, for any number of pids and children.             *)
(***************************************************************************)
EXTENDS ChildWait, TLAPS

(* No job is the number of none, and a free pid has none of them.          *)
LEMMA JobFacts ==
  /\ Jobs \subseteq Nat
  /\ NoJob \notin Jobs
  /\ NoJob \notin Pids
  /\ Free \notin Jobs
  /\ Status0 \in Statuses
BY ChildAssumption DEF Jobs, NoJob, Status0, Statuses

(* Initially there is no child and no call.                                *)
LEMMA InitIInv == Init => IInv
BY ChildAssumption, JobFacts
   DEF Init, IInv, TypeOK, JobsAreDistinct, CallMeansItsChild,
       StatusIsTheCollected, SpawnLeavesNoChild, FreePid, Idle, InUse,
       PidType, CallType, NoJob, Jobs

(* A step that changes neither the children nor what is known of them, but *)
(* perhaps the error number.                                               *)
LEMMA QuietIInv ==
  ASSUME IInv,
         last_errno' \in {"none", "kernel"},
         sigchld' \in {"default", "ignore"},
         alive' \in BOOLEAN,
         UNCHANGED <<last_wait_status, child, pc, started, outcome, waited,
                     spawned>>
  PROVE  IInv'
BY DEF IInv, TypeOK, JobsAreDistinct, CallMeansItsChild,
       StatusIsTheCollected, SpawnLeavesNoChild, InUse

(* A child that ends keeps its pid or frees it, and its outcome is not yet *)
(* the stored one.                                                         *)
LEMMA ChildEndsIInv ==
  ASSUME IInv, NEW p \in Pids, NEW status \in Statuses, ChildEnds(p, status)
  PROVE  IInv'
<1>1. child[p].job \in Jobs /\ child[p].job # waited
  BY DEF ChildEnds, IInv, TypeOK, JobsAreDistinct, PidType, InUse, FreePid
<1>2. \A q \in Pids : q # p => child'[q] = child[q]
  BY DEF ChildEnds, IInv, TypeOK
<1>3. child'[p] = FreePid \/ child'[p] = [job |-> child[p].job, ended |-> TRUE]
  BY <1>1 DEF ChildEnds, IInv, TypeOK, PidType, FreePid, InUse
<1>4. \A q \in Pids : InUse(q)' => InUse(q) /\ child'[q].job = child[q].job
  BY <1>2, <1>3 DEF InUse, FreePid, ChildEnds
<1>5. TypeOK'
  BY <1>1, <1>3, JobFacts DEF ChildEnds, IInv, TypeOK, PidType
<1>6. JobsAreDistinct'
  <2>1. ASSUME NEW q \in Pids, NEW r \in Pids, InUse(q)',
               child'[q].job = child'[r].job
        PROVE  q = r
    <3>1. InUse(r)'
      BY <2>1 DEF InUse
    <3>2. QED
      BY <1>4, <2>1, <3>1 DEF IInv, JobsAreDistinct
  <2>2. UNCHANGED <<started, waited, spawned>>
    BY DEF ChildEnds
  <2>3. \A q \in Pids :
          InUse(q)' => child'[q].job \in 1..started /\ child'[q].job # waited
    BY <1>4 DEF IInv, JobsAreDistinct
  <2>4. QED
    BY <2>1, <2>2, <2>3 DEF IInv, JobsAreDistinct
<1>7. CallMeansItsChild'
  BY <1>4 DEF ChildEnds, IInv, CallMeansItsChild
<1>8. StatusIsTheCollected'
  BY <1>1 DEF ChildEnds, IInv, TypeOK, StatusIsTheCollected
<1>9. SpawnLeavesNoChild'
  <2>1. ASSUME NEW q \in Pids, child'[q].job \in spawned
        PROVE  pc.call = "spawn" /\ pc.job = child'[q].job
    BY <1>4, <2>1, JobFacts
       DEF IInv, TypeOK, SpawnLeavesNoChild, InUse
  <2>2. QED
    BY <2>1 DEF ChildEnds, SpawnLeavesNoChild
<1>10. QED
  BY <1>5, <1>6, <1>7, <1>8, <1>9 DEF IInv

(* A new child's job is a fresh number, behind a pid nobody is waiting     *)
(* for, as only a program that is not blocked starts one.                  *)
LEMMA ForksFacts ==
  ASSUME IInv, NEW p \in Pids, Forks(p)
  PROVE  /\ started + 1 \in Jobs
         /\ started' = started + 1
         /\ started \in Nat
         /\ child' \in [Pids -> PidType]
         /\ child'[p].job = started + 1
         /\ \A q \in Pids : q # p => child'[q] = child[q]
         /\ \A q \in Pids : InUse(q)' <=> InUse(q) \/ q = p
<1>1. started + 1 \in Jobs /\ started \in Nat
  BY ChildAssumption DEF Forks, IInv, TypeOK, Jobs
<1>2. /\ child' \in [Pids -> PidType]
      /\ child'[p] = [job |-> started + 1, ended |-> FALSE]
      /\ \A q \in Pids : q # p => child'[q] = child[q]
  BY <1>1 DEF Forks, IInv, TypeOK, PidType
<1>3. QED
  BY <1>1, <1>2, JobFacts DEF Forks, InUse

(* Starting a child keeps the jobs distinct.                               *)
LEMMA ForksDistinct ==
  ASSUME IInv, NEW p \in Pids, Forks(p), waited' = waited,
         spawned' = spawned \/ spawned' = spawned \cup {started + 1}
  PROVE  JobsAreDistinct'
<1> USE ForksFacts
<1>1. ASSUME NEW q \in Pids, InUse(q)
      PROVE  child[q].job \in 1..started /\ child[q].job # started + 1
  BY <1>1 DEF IInv, JobsAreDistinct
<1>2. ASSUME NEW q \in Pids, NEW r \in Pids, InUse(q)',
             child'[q].job = child'[r].job
      PROVE  q = r
  <2>1. InUse(r)'
    BY <1>2 DEF InUse
  <2>2. CASE q = p
    BY <1>1, <1>2, <2>1, <2>2
  <2>3. CASE q # p /\ r = p
    BY <1>1, <1>2, <2>3
  <2>4. CASE q # p /\ r # p
    BY <1>2, <2>4 DEF IInv, JobsAreDistinct
  <2>5. QED
    BY <2>2, <2>3, <2>4
<1>3. ASSUME NEW q \in Pids, InUse(q)'
      PROVE  child'[q].job \in 1..started' /\ child'[q].job # waited'
  <2>1. CASE q = p
    BY <2>1 DEF IInv, JobsAreDistinct
  <2>2. CASE q # p
    BY <1>3, <2>2, <1>1 DEF IInv, JobsAreDistinct
  <2>3. QED
    BY <2>1, <2>2
<1>4. waited' \in 0..started' /\ spawned' \subseteq 1..started'
  <2>1. /\ 0..started \subseteq 0..(started + 1)
        /\ 1..started \subseteq 1..(started + 1)
        /\ started + 1 \in 1..(started + 1)
    OBVIOUS
  <2>2. QED
    BY <2>1 DEF IInv, JobsAreDistinct
<1>5. QED
  BY <1>2, <1>3, <1>4 DEF JobsAreDistinct

(* spawn_bg and fork: nobody waits for the new child yet.                  *)
LEMMA SpawnBgIInv ==
  ASSUME IInv, NEW p \in Pids, SpawnBg(p)
  PROVE  IInv'
<1>1. Forks(p) /\ pc = Idle
      /\ UNCHANGED <<last_wait_status, last_errno, sigchld, pc, alive,
                     outcome, waited, spawned>>
  BY DEF SpawnBg
<1>2. JobsAreDistinct'
  BY <1>1, ForksDistinct
<1>3. TypeOK'
  BY <1>1, ForksFacts, ChildAssumption DEF IInv, TypeOK, Jobs
<1>4. CallMeansItsChild'
  BY <1>1, JobFacts DEF CallMeansItsChild, Idle
<1>5. StatusIsTheCollected'
  BY <1>1 DEF IInv, StatusIsTheCollected
<1>6. SpawnLeavesNoChild'
  <2>1. started + 1 \notin spawned
    BY <1>1, ForksFacts DEF IInv, JobsAreDistinct
  <2>2. ASSUME NEW q \in Pids, child'[q].job \in spawned
        PROVE  pc.call = "spawn" /\ pc.job = child'[q].job
    BY <1>1, <2>1, <2>2, ForksFacts DEF IInv, SpawnLeavesNoChild
  <2>3. QED
    BY <1>1, <2>2 DEF SpawnLeavesNoChild
<1>7. QED
  BY <1>2, <1>3, <1>4, <1>5, <1>6 DEF IInv

(* spawn: the blocked call means the child it has just started.            *)
LEMMA SpawnIInv ==
  ASSUME IInv, NEW p \in Pids, Spawn(p)
  PROVE  IInv'
<1>1. /\ Forks(p)
      /\ pc = Idle
      /\ pc' = [call |-> "spawn", pid |-> p, job |-> started + 1]
      /\ spawned' = spawned \cup {started + 1}
      /\ UNCHANGED <<last_wait_status, last_errno, sigchld, alive, outcome,
                     waited>>
  BY DEF Spawn
<1>2. JobsAreDistinct'
  BY <1>1, ForksDistinct
<1>3. TypeOK'
  <2>1. pc' \in CallType
    BY <1>1, ForksFacts DEF CallType
  <2>2. started' \in 0..MaxJobs
    BY <1>1, ForksFacts, ChildAssumption DEF Jobs
  <2>3. QED
    BY <1>1, <2>1, <2>2, ForksFacts DEF IInv, TypeOK
<1>4. CallMeansItsChild'
  <2>1. ASSUME NEW q \in Pids, InUse(q)'
        PROVE  q = p <=> child'[q].job = started + 1
    BY <1>1, <2>1, ForksFacts DEF IInv, JobsAreDistinct
  <2>2. QED
    BY <1>1, <2>1, ForksFacts DEF CallMeansItsChild
<1>5. StatusIsTheCollected'
  BY <1>1 DEF IInv, StatusIsTheCollected
<1>6. SpawnLeavesNoChild'
  <2>1. \A q \in Pids : child[q].job \notin spawned
    BY <1>1 DEF IInv, SpawnLeavesNoChild, Idle
  <2>2. QED
    BY <1>1, <2>1, ForksFacts DEF SpawnLeavesNoChild
<1>7. QED
  BY <1>2, <1>3, <1>4, <1>5, <1>6 DEF IInv

(* waitpid blocks for the child that has its pid now.                      *)
LEMMA WaitpidIInv ==
  ASSUME IInv, NEW pid \in Pids \cup AnyChild \cup Strays, Waitpid(pid)
  PROVE  IInv'
<1>1. /\ pc = Idle
      /\ pc' = [call |-> "waitpid", pid |-> pid,
                job |-> IF pid \in Pids /\ InUse(pid) THEN child[pid].job
                        ELSE NoJob]
      /\ UNCHANGED <<last_wait_status, last_errno, child, sigchld, alive,
                     started, outcome, waited, spawned>>
  BY DEF Waitpid, kernelVars
<1>2. TypeOK'
  <2>1. \A q \in Pids : InUse(q) => child[q].job \in Jobs
    BY DEF IInv, TypeOK, PidType, InUse, FreePid
  <2>2. pc' \in CallType
    BY <1>1, <2>1 DEF CallType
  <2>3. QED
    BY <1>1, <2>2 DEF IInv, TypeOK
<1>3. JobsAreDistinct'
  BY <1>1 DEF IInv, JobsAreDistinct, InUse
<1>4. CallMeansItsChild'
  <2>1. ASSUME pid \in Pids, NEW q \in Pids, InUse(q)
        PROVE  q = pid <=> child[q].job = pc'.job
    <3>1. child[q].job # NoJob
      BY <2>1, JobFacts DEF IInv, TypeOK, PidType, InUse, FreePid
    <3>2. QED
      BY <1>1, <2>1, <3>1 DEF IInv, JobsAreDistinct
  <2>2. QED
    BY <1>1, <2>1 DEF CallMeansItsChild, InUse
<1>5. StatusIsTheCollected'
  BY <1>1 DEF IInv, StatusIsTheCollected
<1>6. SpawnLeavesNoChild'
  BY <1>1 DEF IInv, SpawnLeavesNoChild, Idle
<1>7. QED
  BY <1>2, <1>3, <1>4, <1>5, <1>6 DEF IInv

(* A spawned child that is left is the one the program is blocked for.     *)
LEMMA SpawnedIsAwaited ==
  ASSUME IInv, NEW q \in Pids, child[q].job \in spawned
  PROVE  pc.call = "spawn" /\ pc.pid = q /\ q \in Matches(pc.pid) /\ InUse(q)
<1>1. pc.call = "spawn" /\ pc.job = child[q].job
  BY DEF IInv, SpawnLeavesNoChild
<1>2. InUse(q)
  BY JobFacts DEF IInv, TypeOK, InUse
<1>3. pc.pid = q
  BY <1>1, <1>2 DEF IInv, CallMeansItsChild
<1>4. QED
  BY <1>1, <1>2, <1>3 DEF Matches

(* Collecting a child: its status is stored and its pid is free.           *)
LEMMA CollectIInv ==
  ASSUME IInv, NEW p \in Pids, Collect(p), InUse(p),
         pc = Idle \/ p \in Ended(pc.pid), pc' = Idle
  PROVE  IInv'
<1>1. /\ last_wait_status' = outcome[child[p].job]
      /\ waited' = child[p].job
      /\ child' = [child EXCEPT ![p] = FreePid]
      /\ UNCHANGED <<last_errno, sigchld, alive, started, outcome, spawned>>
  BY DEF Collect
<1>2. child[p].job \in Jobs
  BY DEF IInv, TypeOK, PidType, InUse, FreePid
<1>3. /\ child' \in [Pids -> PidType]
      /\ ~InUse(p)'
      /\ child'[p].job = Free
      /\ \A q \in Pids : q # p => child'[q] = child[q]
  BY <1>1 DEF IInv, TypeOK, PidType, InUse, FreePid
<1>4. TypeOK'
  BY <1>1, <1>2, <1>3 DEF IInv, TypeOK, CallType
<1>5. JobsAreDistinct'
  <2>1. ASSUME NEW q \in Pids, InUse(q)'
        PROVE  q # p /\ InUse(q) /\ child'[q] = child[q]
    BY <1>3, <2>1 DEF InUse
  <2>2. ASSUME NEW q \in Pids, NEW r \in Pids, InUse(q)',
               child'[q].job = child'[r].job
        PROVE  q = r
    <3>1. InUse(r)'
      BY <2>2 DEF InUse
    <3>2. QED
      BY <2>1, <2>2, <3>1 DEF IInv, JobsAreDistinct
  <2>3. ASSUME NEW q \in Pids, InUse(q)'
        PROVE  child'[q].job \in 1..started' /\ child'[q].job # waited'
    BY <1>1, <2>1, <2>3 DEF IInv, JobsAreDistinct
  <2>4. waited' \in 0..started' /\ spawned' \subseteq 1..started'
    <3>1. child[p].job \in 1..started
      BY DEF IInv, JobsAreDistinct
    <3>2. QED
      BY <1>1, <3>1 DEF IInv, JobsAreDistinct
  <2>5. QED
    BY <2>2, <2>3, <2>4 DEF JobsAreDistinct
<1>6. CallMeansItsChild'
  BY JobFacts DEF CallMeansItsChild, Idle
<1>7. StatusIsTheCollected'
  BY <1>1 DEF StatusIsTheCollected
<1>8. SpawnLeavesNoChild'
  <2>1. ASSUME NEW q \in Pids, child'[q].job \in spawned
        PROVE  FALSE
    <3>1. q # p /\ child[q].job \in spawned
      BY <1>3, <2>1, JobFacts DEF IInv, TypeOK
    <3>2. pc.pid = q /\ pc.call = "spawn"
      BY <3>1, SpawnedIsAwaited
    <3>3. p \in Ended(q)
      BY <3>2 DEF Idle
    <3>4. QED
      BY <3>1, <3>3, ChildAssumption DEF Ended, Matches
  <2>2. QED
    BY <1>1, <2>1 DEF SpawnLeavesNoChild
<1>9. QED
  BY <1>4, <1>5, <1>6, <1>7, <1>8 DEF IInv

(* A blocked call that fails has no child left to wait for.                *)
LEMMA WaitFailsIInv ==
  ASSUME IInv, WaitFails
  PROVE  IInv'
<1>1. /\ Matches(pc.pid) = {}
      /\ last_errno' = "kernel"
      /\ pc' = Idle
      /\ UNCHANGED <<last_wait_status, child, sigchld, alive, started,
                     outcome, waited, spawned>>
  BY DEF WaitFails, Fails, kernelVars
<1>2. TypeOK'
  BY <1>1 DEF IInv, TypeOK, CallType
<1>3. SpawnLeavesNoChild'
  <2>1. \A q \in Pids : child[q].job \notin spawned
    BY <1>1, SpawnedIsAwaited
  <2>2. QED
    BY <1>1, <2>1 DEF SpawnLeavesNoChild
<1>4. QED
  BY <1>1, <1>2, <1>3, JobFacts
     DEF IInv, JobsAreDistinct, CallMeansItsChild, StatusIsTheCollected,
         InUse, Idle

(* A poll that finds the child running forgets the stored status.          *)
LEMMA PollFindsRunningIInv ==
  ASSUME IInv, NEW pid, PollFindsRunning(pid)
  PROVE  IInv'
<1>1. /\ last_wait_status' = Status0
      /\ waited' = NoJob
      /\ UNCHANGED <<last_errno, child, sigchld, pc, alive, started, outcome,
                     spawned>>
  BY DEF PollFindsRunning, kernelVars
<1>2. JobsAreDistinct'
  <2>1. \A q \in Pids : InUse(q) => child[q].job # NoJob
    BY JobFacts DEF IInv, TypeOK, PidType, InUse, FreePid
  <2>2. NoJob \in 0..started
    BY ChildAssumption DEF IInv, TypeOK, NoJob
  <2>3. QED
    BY <1>1, <2>1, <2>2 DEF IInv, JobsAreDistinct, InUse
<1>3. QED
  BY <1>1, <1>2, JobFacts
     DEF IInv, TypeOK, CallMeansItsChild, StatusIsTheCollected,
         SpawnLeavesNoChild, InUse

(* Every step, with the children collected named.                          *)
LEMMA NextIInv == IInv /\ Next => IInv'
<1> SUFFICES ASSUME IInv, Next
             PROVE  IInv'
  OBVIOUS
<1>1. CASE \E p \in Pids : SpawnBg(p) \/ Spawn(p)
  BY <1>1, SpawnBgIInv, SpawnIInv
<1>2. CASE \E p \in Pids, status \in Statuses : ChildEnds(p, status)
  BY <1>2, ChildEndsIInv
<1>3. ASSUME NEW pid \in Pids \cup AnyChild \cup Strays,
             \/ Waitpid(pid)
             \/ PollCollects(pid)
             \/ PollFindsRunning(pid)
             \/ PollFails(pid)
      PROVE  IInv'
  <2>1. CASE PollCollects(pid)
    <3>1. PICK p \in Ended(pid) : Collect(p)
      BY <2>1 DEF PollCollects
    <3>2. p \in Pids /\ InUse(p) /\ pc = Idle /\ pc' = Idle
      BY <2>1, <3>1 DEF PollCollects, Ended, Matches
    <3>3. QED
      BY <3>1, <3>2, CollectIInv
  <2>2. CASE PollFails(pid)
    BY <2>2, QuietIInv DEF PollFails, Fails, kernelVars, IInv, TypeOK
  <2>3. QED
    BY <1>3, <2>1, <2>2, WaitpidIInv, PollFindsRunningIInv
<1>4. CASE WaitReturns
  <2>1. PICK p \in Ended(pc.pid) : Collect(p)
    BY <1>4 DEF WaitReturns
  <2>2. p \in Pids /\ InUse(p) /\ pc' = Idle
    BY <1>4, <2>1 DEF WaitReturns, Ended, Matches
  <2>3. QED
    BY <2>1, <2>2, CollectIInv
<1>5. CASE WaitFails
  BY <1>5, WaitFailsIInv
<1>6. CASE \E d \in {"default", "ignore"} : SetSigchld(d)
  BY <1>6, QuietIInv DEF SetSigchld, IInv, TypeOK
<1>7. CASE CallFails
  BY <1>7, QuietIInv DEF CallFails, Fails, kernelVars, IInv, TypeOK
<1>8. CASE Leave
  BY <1>8, QuietIInv DEF Leave, kernelVars, IInv, TypeOK
<1>9. QED
  BY <1>1, <1>2, <1>3, <1>4, <1>5, <1>6, <1>7, <1>8 DEF Next, Returns

-----------------------------------------------------------------------------

(* The strengthening: jobs behind pids are distinct and old enough, and a  *)
(* blocked call still means the child it was made for.                     *)
THEOREM InductiveInvariant == Spec => []IInv
<1>1. IInv /\ UNCHANGED vars => IInv'
  BY QuietIInv DEF vars, kernelVars, IInv, TypeOK
<1>2. IInv /\ [Next]_vars => IInv'
  BY <1>1, NextIInv
<1>3. QED
  BY InitIInv, <1>2, PTL DEF Spec

(* Every variable keeps its type.                                          *)
THEOREM TypeCorrect == Spec => []TypeOK
BY InductiveInvariant, PTL DEF IInv

(* The wait_ functions tell how the child collected last ended.            *)
THEOREM StatusStaysTheCollected == Spec => []StatusIsTheCollected
BY InductiveInvariant, PTL DEF IInv

(* spawn leaves neither a process nor a pid to collect behind.             *)
THEOREM SpawnCleansUp == Spec => []SpawnLeavesNoChild
BY InductiveInvariant, PTL DEF IInv

(* A call that blocks for one child collects that very child.              *)
THEOREM CollectsTheRightChild == Spec => CollectsTheChildAskedFor
<1> DEFINE Right == pc.pid \in Pids /\ child' # child /\ pc' = Idle
                      => /\ waited' = pc.job
                         /\ last_wait_status' = outcome[pc.job]
<1>1. IInv /\ Next => Right
  <2> SUFFICES ASSUME IInv, Next, pc.pid \in Pids, child' # child, pc' = Idle
               PROVE  /\ waited' = pc.job
                      /\ last_wait_status' = outcome[pc.job]
    OBVIOUS
  <2>1. pc # Idle
    BY JobFacts DEF Idle
  <2>2. WaitReturns
    BY <2>1 DEF Next, Returns, SpawnBg, Spawn, ChildEnds, Waitpid,
                PollCollects, PollFindsRunning, PollFails, WaitFails, Fails,
                SetSigchld, CallFails, Leave, kernelVars
  <2>3. PICK p \in Ended(pc.pid) : Collect(p)
    BY <2>2 DEF WaitReturns
  <2>4. p = pc.pid /\ InUse(p)
    BY <2>3, ChildAssumption DEF Ended, Matches
  <2>5. child[p].job = pc.job
    BY <2>4 DEF IInv, CallMeansItsChild
  <2>6. QED
    BY <2>3, <2>5 DEF Collect
<1>2. IInv /\ [Next]_vars => [Right]_vars
  BY <1>1
<1>3. QED
  BY InductiveInvariant, <1>2, PTL DEF Spec, CollectsTheChildAskedFor
=============================================================================
