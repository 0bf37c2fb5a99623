\* The same instance; the one property is the claim of lines 162-164 and 178.
CONSTANTS
  Pids = {p1, p2}
  AnyChild = {any}
  Strays = {stray}
  MaxJobs = 3
  Codes = {0, 127}
  Termsigs = {9}
  Free = Free
SPECIFICATION Spec
PROPERTY
  StatusTellsOfAChild
CHECK_DEADLOCK FALSE
