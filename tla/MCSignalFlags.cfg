CONSTANTS
  NumSignals = 5
  MaxSignal = 5
  Uncatchable = {3}
  Harmless = {2}
  SignalArgs <- MCSignalArgs
SPECIFICATION FairSpec
INVARIANTS
  TypeOK
  NoSignalLost
  EveryReportIsOwed
PROPERTY
  EventuallyReported
\* A signal may kill the process.
CHECK_DEADLOCK FALSE
