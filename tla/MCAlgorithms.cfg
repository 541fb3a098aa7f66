CONSTANTS
  PRIME = 11
  Width = 7
  minShares = 3
  nSharesTotal = 5
  ChunkBytes = 3
  BufferBytes = 6
  MaxByte = 7
  KeyBytes = 5
  MaxFileSize = 14
  Unset = Unset
  a = a
  b = b
  c = c
  Blocks = {a, b, c}
  BlockSize = 2
  MaxHeight = 5
  NumberRange = 16
  MaxZ = 4
SPECIFICATION Spec
INVARIANTS
  PathIsBranch
  CanIncludeIsShared
  LeavesAreThoseBelow
  LoadFillsBuckets
  SharesRestore
  FilesComeBack
  StashComesBack
