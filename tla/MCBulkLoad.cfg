CONSTANTS
  a = a
  b = b
  c = c
  d = d
  e = e
  Blocks = {a, b, c, d, e}
  Data = {"zeros", "v"}
  Empty = "zeros"
  Oversized = {}
  Padded <- MCPadded
  Leaves <- MCLeaves
  Locations <- MCLocations
  Height = 2
  BucketFor <- MCBucketFor
  Z = 1
  StashCapacity = 1
  BatchSize = 1
  StorageFaults = {}
  NoLeaf = NoLeaf
  NoResponse = NoResponse
  NumberRange = 16
  StorageCapacity = 4
  Loadable = {"v"}
SPECIFICATION LoadSpec
SYMMETRY Symmetry
INVARIANTS
  LoadPreservesInvariant
  LoadedIsServed
