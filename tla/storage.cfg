SPECIFICATION StorageSpec
CONSTANTS
  a1 = a1
  a2 = a2
  m1 = m1
  m2 = m2
  f1 = f1
  f2 = f2
  Addrs = {mmc, a1, a2}
  Roots = {mmc}
  Parts = {0, 1, 2}
  Holders = {scan, m1, m2, c1}
  NULL = NULL
  RootBlocks = 10
  BlockSize = 4
  Word = 16
  MaxLost = 1
  Scan = scan
  Entries <- MCEntries
  MbrEntries = 2
  Unpublished = 2
  MmcEntries = 2
  Mounts = {m1, m2}
  Files = {f1, f2}
  MountPaths <- MCMountPaths
  FilePaths <- MCFilePaths
  Clients = {c1}
SYMMETRY Symm
INVARIANTS
  RefsExact
  NamesUnique
  FilesKeepMount
PROPERTIES
  DevicesStay
