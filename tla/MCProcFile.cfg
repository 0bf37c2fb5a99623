\* A file without a st_size; the one property is the claim of line 386.
CONSTANTS
  Procs = {p1}
  MaxFile = 3
  Lengths <- MCLengths
  Initially <- MCInitially
  MaxRw = 2
  HasSize = FALSE
SPECIFICATION Spec
PROPERTY
  QuietReadIsWhole
