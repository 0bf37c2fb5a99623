\* Two processes, three sockets, one address, one byte in flight each way.
CONSTANTS
  Procs = {p1, p2}
  Sockets = {s1, s2, s3}
  Addresses = {a1}
  MaxBytes = 1
  DefaultLen = 2
  LengthArgs <- MCLengthArgs
  NULL = NULL
  Gone = Gone
SPECIFICATION Spec
SYMMETRY Symmetry
INVARIANTS
  TypeOK
  NothingLeaks
  EmptyMeansEnd
PROPERTY
  ErrnoIsTheFailures
\* SIGPIPE can end every process.
CHECK_DEADLOCK FALSE
