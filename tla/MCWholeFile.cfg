CONSTANTS
  Procs = {p1, p2}
  MaxFile = 3
  Lengths <- MCLengths
  Initially <- MCInitially
  MaxRw = 2
  HasSize = TRUE
SPECIFICATION Spec
SYMMETRY Symmetry
INVARIANTS
  TypeOK
  NoDescriptorLeak
  ErrnoTellsFailure
  AppendsConcatenate
PROPERTIES
  QuietReadIsWhole
  QuietWriteIsExact
  SoleWriteStands
