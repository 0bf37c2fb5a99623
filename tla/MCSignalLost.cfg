\* The same instance; the one property is the claim of lines 77-79 and 104.
CONSTANTS
  NumSignals = 5
  MaxSignal = 5
  Uncatchable = {3}
  Harmless = {2}
  SignalArgs <- MCSignalArgs
SPECIFICATION Spec
INVARIANT
  ReceivedIsSeen
CHECK_DEADLOCK FALSE
