CONSTANTS
  a = a
  b = b
  c = c
  d = d
  Blocks = {a, b, c, d}
  Data = {"empty", "zeros", "v"}
  Empty = "empty"
  Oversized = {}
  Padded <- MCPadded
  Leaves <- MCLeaves
  Locations <- MCLocations
  Height = 2
  BucketFor <- MCBucketFor
  Z = 1
  StashCapacity = 2
  BatchSize = 1
  StorageFaults = {}
  NoLeaf = NoLeaf
  NoResponse = NoResponse
  NumberRange = 16
  StorageCapacity = 5
  Loadable = {"v"}
SPECIFICATION LoadSpec
INVARIANTS
  LoadPreservesInvariant
