CONSTANTS
  a = a
  b = b
  Blocks = {a, b}
  Data = {"empty", "zeros", "v"}
  Empty = "empty"
  Oversized = {}
  Padded <- MCPadded
  Leaves <- MCLeaves
  Locations <- MCLocations
  Height = 2
  BucketFor <- MCBucketFor
  Z = 1
  StashCapacity = 1
  BatchSize = 1
  StorageFaults = {"get", "set"}
  NoLeaf = NoLeaf
  NoResponse = NoResponse
SPECIFICATION Spec
SYMMETRY Symmetry
INVARIANTS
  TypeOK
  OnMappedPath
  CopiesAgree
PROPERTIES
  KeepsPromise
