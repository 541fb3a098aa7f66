CONSTANTS
  a = a
  b = b
  c = c
  Blocks = {a, b, c}
  Data <- MCData
  Empty <- MCEmpty
  Oversized = {}
  Padded <- MCPadded
  Leaves <- MCLeaves
  Locations <- MCLocations
  Height = 2
  BucketFor <- MCBucketFor
  Z = 1
  StashCapacity = 2
  BatchSize = 1
  StorageFaults = {"get", "set"}
  NoLeaf = NoLeaf
  NoResponse = NoResponse
  BlockSize = 2
  Zeros <- MCZeros
  Containers <- OneContainer
  NoContainer = NoContainer
  Populated = FALSE
  MacsRestored = {TRUE, FALSE}
  SameKey = TRUE
  MaxRestarts = 1
  KeepOutdated = FALSE
SPECIFICATION CloakSpec
SYMMETRY Symmetry
INVARIANTS
  MacsMatch
  RestoredOnPath
