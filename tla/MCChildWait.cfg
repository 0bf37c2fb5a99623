CONSTANTS
  Pids = {p1, p2}
  AnyChild = {any}
  Strays = {stray}
  MaxJobs = 3
  Codes = {0, 127}
  Termsigs = {9}
  Free = Free
SPECIFICATION FairSpec
INVARIANTS
  TypeOK
  StatusIsTheCollected
  SpawnLeavesNoChild
PROPERTIES
  CollectsTheChildAskedFor
  BlockedCallsReturn
\* The program may exit.
CHECK_DEADLOCK FALSE
