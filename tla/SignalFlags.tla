----------------------------- MODULE SignalFlags -----------------------------
(***************************************************************************)
(* The flag-based signals of src/shim/aria_libc_posix.c, lines 82-149: a   *)
(* handler sets the flag of the signal it runs for, and the program polls  *)
(* the flag with signal_check. No Aria function is ever called from a      *)
(* handler.                                                                *)
(*                                                                         *)
(* The program is one thread. The handler interrupts it between any two of *)
(* its accesses to the flags: the calls that make two of them (trap        *)
(* installs the handler and then clears the flag, check tests the flag and *)
(* then clears it) are two steps. A handler runs with its own signal       *)
(* blocked and makes one store, so it is one step.                         *)
(*                                                                         *)
(* The value a call returns, the stop and continue signals, and the copy   *)
(* of the flags a fork makes are left out.                                 *)
(***************************************************************************)
EXTENDS Integers

(* A definition whose name has the form Action_Slip is a wrong version of  *)
(* the Action below it; the properties are checked to notice each one.     *)

CONSTANTS
  NumSignals,   (* the highest signal number of the kernel                 *)
  MaxSignal,    (* MAX_SIGNAL: the flags are numbered 0..MaxSignal-1       *)
  Uncatchable,  (* the signals whose disposition the kernel will not set   *)
  Harmless,     (* the signals whose default action leaves the process be  *)
  SignalArgs    (* the signal numbers the program passes                   *)

Signals == 1..NumSignals
Flags == 0..(MaxSignal - 1)
Trappable == {s \in Signals \cap Flags : s \notin Uncatchable}

ASSUME SignalAssumption ==
  /\ NumSignals \in Nat
  /\ MaxSignal \in Nat
  /\ Uncatchable \subseteq Signals
  /\ Harmless \subseteq Signals \ Uncatchable
  /\ SignalArgs \subseteq Int

VARIABLES
  signal_flags, (* the flags                                               *)
  last_errno,   (* the shim's sticky error number                          *)
  disposition,  (* kernel: what each signal does to the process            *)
  pc,           (* the call in progress, and its signal                    *)
  alive,        (* FALSE once a signal has killed the process              *)
  owed,         (* history: signals that came after trap returned and that *)
                (* no check has answered yet                               *)
  received      (* history: the same, counting those that came to the      *)
                (* handler while trap was still running                    *)

vars == <<signal_flags, last_errno, disposition, pc, alive, owed, received>>

Idle == [call |-> "none", sig |-> 0]

Init ==
  /\ signal_flags = [s \in Flags |-> 0]
  /\ last_errno = "none"
  /\ disposition = [s \in Signals |-> "default"]
  /\ pc = Idle
  /\ alive = TRUE
  /\ owed = {}
  /\ received = {}

-----------------------------------------------------------------------------
(* The kernel and the handler.                                             *)

(* flag_handler                                                            *)
FlagHandler(s) ==
  signal_flags' = IF s < MaxSignal THEN [signal_flags EXCEPT ![s] = 1]
                  ELSE signal_flags

Trapping(s) == pc = [call |-> "trap", sig |-> s]

(* The handler runs for signal s.                                          *)
Caught(s) ==
  /\ disposition[s] = "flag"
  /\ FlagHandler(s)
  /\ received' = received \cup {s}
  /\ owed' = IF Trapping(s) THEN owed ELSE owed \cup {s}
  /\ UNCHANGED alive

(* A signal nobody catches kills the process.                              *)
Kills(s) ==
  /\ disposition[s] = "default"
  /\ s \notin Harmless
  /\ alive' = FALSE
  /\ UNCHANGED <<signal_flags, owed, received>>

(* A signal reaches the process: from another process, or sent to itself   *)
(* with raise or kill, which deliver it before they return. A signal that  *)
(* is ignored, or harmless by default, has no effect.                      *)
Deliver(s) ==
  /\ Caught(s) \/ Kills(s)
  /\ UNCHANGED <<last_errno, disposition, pc>>

(* kill to another process that is refused, raise of no signal number.     *)
SendFails ==
  /\ pc = Idle
  /\ last_errno' = "kernel"
  /\ UNCHANGED <<signal_flags, disposition, pc, alive, owed, received>>

-----------------------------------------------------------------------------
(* The calls.                                                              *)

InRange_OneTooMany(s) == 0 <= s /\ s <= MaxSignal
InRange(s) == 0 <= s /\ s < MaxSignal

Sigaction(s, d) ==
  /\ s \in Signals \ Uncatchable
  /\ disposition' = [disposition EXCEPT ![s] = d]

Fails ==
  /\ last_errno' = "EINVAL"
  /\ UNCHANGED <<signal_flags, disposition, pc, alive, owed, received>>

(* signal_trap: sigaction ...                                              *)
TrapInstall(s) ==
  /\ pc = Idle
  /\ InRange(s)
  /\ Sigaction(s, "flag")
  /\ pc' = [call |-> "trap", sig |-> s]
  /\ owed' = owed \ {s}
  /\ received' = received \ {s}
  /\ UNCHANGED <<signal_flags, last_errno, alive>>

TrapClear_Forgotten ==
  /\ pc.call = "trap"
  /\ pc' = Idle
  /\ UNCHANGED <<signal_flags, last_errno, disposition, alive, owed, received>>

(* ... and then the flag is cleared.                                       *)
TrapClear ==
  /\ pc.call = "trap"
  /\ signal_flags' = [signal_flags EXCEPT ![pc.sig] = 0]
  /\ pc' = Idle
  /\ UNCHANGED <<last_errno, disposition, alive, owed, received>>

TrapFails(s) ==
  /\ pc = Idle
  /\ ~InRange(s) \/ s \notin Signals \ Uncatchable
  /\ Fails

CheckTest_LastForgotten(s) ==
  /\ pc = Idle
  /\ 0 <= s /\ s < MaxSignal - 1
  /\ signal_flags[s] = 1
  /\ pc' = [call |-> "check", sig |-> s]
  /\ UNCHANGED <<signal_flags, last_errno, disposition, alive, owed, received>>

(* signal_check finds the flag set (a check that does not changes nothing, *)
(* nor does one of a number out of range) ...                              *)
CheckTest(s) ==
  /\ pc = Idle
  /\ InRange(s)
  /\ signal_flags[s] = 1
  /\ pc' = [call |-> "check", sig |-> s]
  /\ UNCHANGED <<signal_flags, last_errno, disposition, alive, owed, received>>

CheckClear_AllFlags ==
  /\ pc.call = "check"
  /\ signal_flags' = [s \in Flags |-> 0]
  /\ pc' = Idle
  /\ owed' = owed \ {pc.sig}
  /\ received' = received \ {pc.sig}
  /\ UNCHANGED <<last_errno, disposition, alive>>

(* ... clears it and returns 1, which answers every delivery up to now.    *)
CheckClear ==
  /\ pc.call = "check"
  /\ signal_flags' = [signal_flags EXCEPT ![pc.sig] = 0]
  /\ pc' = Idle
  /\ owed' = owed \ {pc.sig}
  /\ received' = received \ {pc.sig}
  /\ UNCHANGED <<last_errno, disposition, alive>>

(* signal_reset and signal_ignore leave the flag as it is.                 *)
ResetOrIgnore(s, d) ==
  /\ pc = Idle
  /\ d \in {"default", "ignore"}
  /\ Sigaction(s, d)
  /\ UNCHANGED <<signal_flags, last_errno, pc, alive, owed, received>>

ResetOrIgnoreFails(s) ==
  /\ pc = Idle
  /\ s \notin Signals \ Uncatchable
  /\ Fails

-----------------------------------------------------------------------------

Program ==
  \/ TrapClear
  \/ CheckClear
  \/ \E s \in SignalArgs :
       \/ TrapInstall(s)
       \/ TrapFails(s)
       \/ CheckTest(s)
       \/ ResetOrIgnoreFails(s)
       \/ \E d \in {"default", "ignore"} : ResetOrIgnore(s, d)
  \/ SendFails

Next ==
  /\ alive
  /\ Program \/ \E s \in Signals : Deliver(s)

Spec == Init /\ [][Next]_vars

(* A program that keeps polling: between its other calls it checks every   *)
(* signal again and again (lines 77-79), and its calls do not hang.        *)
Polling ==
  /\ WF_vars(alive /\ (TrapClear \/ CheckClear))
  /\ \A s \in Trappable : SF_vars(alive /\ CheckTest(s))

FairSpec == Spec /\ Polling

-----------------------------------------------------------------------------
(* Properties.                                                             *)

Calls == [call : {"none", "trap", "check"}, sig : Flags \cup {0}]

(* Every variable has its type; a call in progress is about a signal that  *)
(* has a flag.                                                             *)
TypeOK ==
  /\ signal_flags \in [Flags -> {0, 1}]
  /\ last_errno \in {"none", "EINVAL", "kernel"}
  /\ disposition \in [Signals -> {"default", "flag", "ignore"}]
  /\ pc \in Calls
  /\ pc.call # "none" => pc.sig \in Flags
  /\ alive \in BOOLEAN
  /\ owed \subseteq Signals
  /\ received \subseteq Signals

(* A signal that comes after trap has returned waits in its flag until a   *)
(* check answers it, whatever other calls are made (one that comes between *)
(* the test and the clear of a check included), even if its disposition is *)
(* changed meanwhile.                                                      *)
NoSignalLost == \A s \in owed : s \in Flags /\ signal_flags[s] = 1

(* A flag that is set stands for a signal that came since the last trap of *)
(* it returned and since the last check that reported it: no check reports *)
(* a signal twice, or one from before the trap.                            *)
EveryReportIsOwed ==
  \A s \in Flags : signal_flags[s] = 1 /\ ~Trapping(s) => s \in owed

(* A signal the program is owed is answered, or the process is killed: the *)
(* polling program gets to see it. (A trap of the same signal forgives     *)
(* it.)                                                                    *)
EventuallyReported ==
  \A s \in Trappable : (s \in owed) ~> (s \notin owed \/ ~alive)

(* What lines 77-79 and 104 say: a signal the handler has run for is seen  *)
(* by the next check. It fails when the signal comes between the two steps *)
(* of trap.                                                                *)
ReceivedIsSeen ==
  \A s \in received : pc = Idle => signal_flags[s] = 1

(* What every step preserves.                                              *)
IInv ==
  /\ TypeOK
  /\ NoSignalLost
  /\ EveryReportIsOwed
  /\ pc.call = "check" => signal_flags[pc.sig] = 1
  /\ pc.call = "trap" => pc.sig \notin owed
  /\ \A s \in Signals : disposition[s] = "flag" => s \in Flags
=============================================================================
