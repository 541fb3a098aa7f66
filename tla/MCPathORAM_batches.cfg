CONSTANTS
  a = a
  b = b
  Blocks = {a, b}
  Data = {"empty", "zeros", "big"}
  Empty = "empty"
  Oversized = {"big"}
  Padded <- MCPadded
  Leaves <- MCLeaves
  Locations <- MCLocations
  Height = 2
  BucketFor <- MCBucketFor
  Z = 1
  StashCapacity = 2
  BatchSize = 2
  StorageFaults = {}
  NoLeaf = NoLeaf
  NoResponse = NoResponse
SPECIFICATION Spec
SYMMETRY Symmetry
INVARIANTS
  WithinCapacity
  PrefetchCovers
  NothingOversizedStored
PROPERTIES
  KeepsPromise
