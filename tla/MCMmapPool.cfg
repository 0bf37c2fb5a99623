\* 2 slots, 3 address ranges, lengths up to 2 bytes, int64 of 16 values.
CONSTANTS
  Clients = {c1, c2}
  PoolSize = 2
  Regions = {r1, r2, r3}
  MaxLength = 2
  WordBytes = 2
  Half = 8
  IntHalf = 4
  LengthArgs <- MCLengthArgs
  OffsetArgs <- MCOffsetArgs
  SizeArgs <- MCSizeArgs
  StringLengths <- MCStringLengths
  StrayHandles <- MCStrayHandles
  NULL = NULL
  Zero = Zero
SPECIFICATION Spec
SYMMETRY Symmetry
INVARIANTS
  TypeOK
  HandlesAreOwn
  AccessStaysInside
  BytesAreTheOwners
  EveryMappingAccounted
PROPERTY
  ImplementsHandleTable
\* A protection fault ends the process.
CHECK_DEADLOCK FALSE
