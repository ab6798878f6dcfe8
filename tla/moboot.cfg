SPECIFICATION MobootSpec
CONSTANTS
  KeySets <- MCKeySets
  Header <- MCHeader
  Number <- MCNumber
  Word = 16
  Beyond = "none"
  Configs <- MCConfigs
  Files <- MCFiles
  Extras <- MCExtras
  MaxEntries = 6
  Memory = {0, 1, 2, 3, 4, 5, 6, 7, 8, 9, 10, 11}
  SCRATCH_ADDR = 4
  SCRATCH_SIZE = 8
  RAMDISK_ADDR = 3
  TAGS_ADDR = 0
  BlockWords = 3
  Junk = "junk"
  MaxAttempts = 3
INVARIANTS
  MenuIsDirectory
  UnattendedOnce
  LinuxGetsFile
  FreesOnce
PROPERTIES
  CountdownEnds
CHECK_DEADLOCK FALSE
