------------------------- MODULE SignalFlags_proofs -------------------------
(***************************************************************************)
(* The theorems about SignalFlags: a signal that comes after trap returned *)
(* is never lost and never reported twice, for any number of signals.      *)
(***************************************************************************)
EXTENDS SignalFlags, TLAPS

(* The flags start clear and nothing is owed.                              *)
LEMMA InitIInv == Init => IInv
BY SignalAssumption
   DEF Init, IInv, TypeOK, NoSignalLost, EveryReportIsOwed, Calls, Idle,
       Signals, Flags, Trapping

(* A delivery sets the flag and is owed, or finds trap still running and   *)
(* is not, or kills the process.                                           *)
LEMMA DeliverIInv ==
  ASSUME IInv, NEW s \in Signals, Deliver(s)
  PROVE  IInv'
<1> USE DEF Signals, Flags
<1>1. CASE Caught(s)
  <2>1. s \in Flags /\ s < MaxSignal
    BY <1>1, SignalAssumption DEF Caught, IInv
  <2>2. signal_flags' = [signal_flags EXCEPT ![s] = 1]
    BY <1>1, <2>1 DEF Caught, FlagHandler
  <2>3. UNCHANGED <<last_errno, disposition, pc, alive>>
    BY <1>1 DEF Caught, Deliver
  <2>4. TypeOK'
    BY <1>1, <2>1, <2>2, <2>3 DEF IInv, TypeOK, Caught
  <2>5. NoSignalLost'
    BY <1>1, <2>1, <2>2, <2>3 DEF IInv, TypeOK, Caught, NoSignalLost
  <2>6. EveryReportIsOwed'
    BY <1>1, <2>1, <2>2, <2>3
       DEF IInv, TypeOK, Caught, EveryReportIsOwed, Trapping
  <2>7. (pc.call = "check" => signal_flags[pc.sig] = 1)'
    BY <2>1, <2>2, <2>3 DEF IInv, TypeOK, Calls
  <2>8. (pc.call = "trap" => pc.sig \notin owed)'
    BY <1>1, <2>3 DEF Caught, IInv, TypeOK, Calls, Trapping
  <2>9. QED
    BY <2>3, <2>4, <2>5, <2>6, <2>7, <2>8 DEF IInv
<1>2. CASE Kills(s)
  BY <1>2 DEF Kills, Deliver, IInv, TypeOK, NoSignalLost, EveryReportIsOwed,
              Trapping
<1>3. QED
  BY <1>1, <1>2 DEF Deliver

(* The calls, one step each.                                               *)
LEMMA ProgramIInv ==
  ASSUME IInv, Program
  PROVE  IInv'
<1> USE DEF Signals, Flags, Idle
<1>1. CASE TrapClear
  <2>1. TypeOK'
    BY <1>1, SignalAssumption DEF TrapClear, IInv, TypeOK, Calls
  <2>2. NoSignalLost'
    BY <1>1 DEF TrapClear, IInv, TypeOK, NoSignalLost, Calls
  <2>3. EveryReportIsOwed'
    BY <1>1, SignalAssumption
       DEF TrapClear, IInv, TypeOK, EveryReportIsOwed, Trapping, Calls
  <2>4. QED
    BY <1>1, <2>1, <2>2, <2>3 DEF TrapClear, IInv
<1>2. CASE CheckClear
  <2>1. TypeOK'
    BY <1>2, SignalAssumption DEF CheckClear, IInv, TypeOK, Calls
  <2>2. NoSignalLost'
    BY <1>2 DEF CheckClear, IInv, TypeOK, NoSignalLost, Calls
  <2>3. EveryReportIsOwed'
    BY <1>2, SignalAssumption
       DEF CheckClear, IInv, TypeOK, EveryReportIsOwed, Trapping, Calls
  <2>4. QED
    BY <1>2, <2>1, <2>2, <2>3 DEF CheckClear, IInv
<1>3. ASSUME NEW s \in SignalArgs, TrapInstall(s)
      PROVE  IInv'
  <2>1. s \in Flags /\ s \in Signals
    BY <1>3, SignalAssumption DEF TrapInstall, InRange, Sigaction
  <2>2. TypeOK'
    BY <1>3, <2>1 DEF TrapInstall, Sigaction, IInv, TypeOK, Calls
  <2>3. NoSignalLost'
    BY <1>3, <2>1 DEF TrapInstall, IInv, TypeOK, NoSignalLost
  <2>4. EveryReportIsOwed'
    BY <1>3, <2>1
       DEF TrapInstall, IInv, TypeOK, EveryReportIsOwed, Trapping
  <2>5. QED
    BY <1>3, <2>1, <2>2, <2>3, <2>4 DEF TrapInstall, Sigaction, IInv, TypeOK
<1>4. ASSUME NEW s \in SignalArgs, CheckTest(s)
      PROVE  IInv'
  <2>1. s \in Flags
    BY <1>4, SignalAssumption DEF CheckTest, InRange
  <2>2. QED
    BY <1>4, <2>1
       DEF CheckTest, IInv, TypeOK, NoSignalLost, EveryReportIsOwed,
           Trapping, Calls
<1>5. ASSUME NEW s \in SignalArgs, NEW d \in {"default", "ignore"},
             ResetOrIgnore(s, d)
      PROVE  IInv'
  BY <1>5
     DEF ResetOrIgnore, Sigaction, IInv, TypeOK, NoSignalLost,
         EveryReportIsOwed, Trapping
<1>6. ASSUME Fails \/ SendFails
      PROVE  IInv'
  BY <1>6
     DEF Fails, SendFails, IInv, TypeOK, NoSignalLost, EveryReportIsOwed,
         Trapping
<1>7. QED
  BY <1>1, <1>2, <1>3, <1>4, <1>5, <1>6
     DEF Program, TrapFails, ResetOrIgnoreFails

(* The strengthening of the two properties below: between the two steps of *)
(* check the flag is still set, between those of trap nothing is owed, and *)
(* the handler is only ever installed for a signal that has a flag.        *)
THEOREM InductiveInvariant == Spec => []IInv
<1>1. IInv /\ UNCHANGED vars => IInv'
  BY DEF vars, IInv, TypeOK, NoSignalLost, EveryReportIsOwed, Trapping
<1>2. IInv /\ [Next]_vars => IInv'
  BY <1>1, DeliverIInv, ProgramIInv DEF Next
<1>3. QED
  BY InitIInv, <1>2, PTL DEF Spec

(* A call in progress is always about a signal that has a flag: no call    *)
(* reads or writes past the end of signal_flags.                           *)
THEOREM TypeCorrect == Spec => []TypeOK
BY InductiveInvariant, PTL DEF IInv

(* A signal that comes once trap has returned waits in its flag until a    *)
(* check reports it.                                                       *)
THEOREM SignalsAreKept == Spec => []NoSignalLost
BY InductiveInvariant, PTL DEF IInv

(* No check reports a signal twice, or one from before the trap.           *)
THEOREM ReportsAreOwed == Spec => []EveryReportIsOwed
BY InductiveInvariant, PTL DEF IInv
=============================================================================
