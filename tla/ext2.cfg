SPECIFICATION Ext2Spec
CONSTANTS
  Blocks = {1, 2, 3, 4, 5, 6, 7, 8, 9, 10, 11}
  Values <- MCValues
  Zero <- MCZero
  block_count = 2
  MaxPins = 1
  MaxRefs = 1
  EXT2_NDIR_BLOCKS = 1
  EXT2_ADDR_PER_BLOCK = 2
  EXT2_ROOT_INO = 2
  MAX_RECURSE = 4
  Inodes <- MCInodes
  Images <- MCImages
  Paths <- MCPaths
  Reads <- MCReads
INVARIANTS
  PinsBalanced
  ReadsFile
  WalkIsReference
PROPERTIES
  CallsReturn
CHECK_DEADLOCK FALSE
