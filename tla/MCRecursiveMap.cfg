CONSTANTS
  a = a
  b = b
  Blocks = {a, b}
  Data = {"zeros", "v"}
  Empty = "zeros"
  Oversized = {}
  Padded <- MCPadded
  Leaves <- MCLeaves
  Locations <- MCLocations
  Height = 2
  BucketFor <- MCBucketFor
  Z = 1
  StashCapacity = 1
  BatchSize = 2
  Batches <- MCBatches
  StorageFaults = {}
  NoLeaf = NoLeaf
  NoResponse = NoResponse
SPECIFICATION SpecRecursive
INVARIANTS
  OnPathOfEntry
PROPERTIES
  KeepsPromiseRecursively
  CallsEnd
