CONSTANTS
  Clients = {c1, c2}
  MaxBuffers = 2
  MaxDirs = 2
  Blocks = {b1, b2, b3}
  MaxSize = 2
  DefaultBuf = 2
  Streams = {d1, d2, d3}
  Bytes = {x, y}
  CapacityArgs <- MCCapacityArgs
  CountArgs <- MCCountArgs
  StrayHandles <- MCStrayHandles
  NULL = NULL
  Junk = Junk
SPECIFICATION Spec
SYMMETRY Symmetry
INVARIANTS
  TypeOK
  HandlesAreOwn
  BuffersAreNotOverrun
  OnlyTheLastReadGoesOut
PROPERTIES
  BuffersImplementTable
  DirsImplementTable
