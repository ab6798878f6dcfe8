SPECIFICATION HeapSpec
CONSTANTS
  HEAP_START = 2
  HEAP_LEN = 48
  WORD = 2
  HEADER = 6
  CHUNK = 6
  MIN_ALIGN = 8
  Sizes = {0, 5, 13}
  Alignments = {0, 4, 16}
  MaxDoomed = 1
INVARIANTS
  HeapInv
  Aligned
  HolesWhole
  AllFreedIsInitial
