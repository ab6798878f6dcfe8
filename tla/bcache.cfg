SPECIFICATION BCSpec
CONSTANTS
  Blocks = {b1, b2, b3}
  Values = {0, 1}
  Zero = 0
  block_count = 2
  MaxPins = 1
  MaxRefs = 2
SYMMETRY BlockSymmetry
INVARIANTS
  BCInv
  NullOnlyOnWriteError
PROPERTIES
  CacheIsTransparent
CHECK_DEADLOCK FALSE
