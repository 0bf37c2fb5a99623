\* Two blocks of at most three bytes, two letters.
CONSTANTS
  Blocks = {b1, b2}
  MaxSize = 3
  Letters = {x, y}
  NUL = NUL
  Guard = Guard
  Unknown = Unknown
SPECIFICATION Spec
SYMMETRY Symmetry
INVARIANTS
  TypeOK
  StringsAreKept
