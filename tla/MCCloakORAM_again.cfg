CONSTANTS
  a = a
  b = b
  Blocks = {a, b}
  Data <- MCData
  Empty <- MCEmpty
  Oversized = {}
  Padded <- MCPadded
  Leaves <- MCLeaves
  Locations <- MCLocations
  Height = 2
  BucketFor <- MCBucketFor
  Z = 1
  StashCapacity = 4
  BatchSize = 1
  StorageFaults = {}
  NoLeaf = NoLeaf
  NoResponse = NoResponse
  BlockSize = 2
  Zeros <- MCZeros
  Containers <- OneContainer
  NoContainer = NoContainer
  Populated = FALSE
  MacsRestored = {TRUE}
  SameKey = TRUE
  MaxRestarts = 1
  KeepOutdated = TRUE
SPECIFICATION CloakSpec
INVARIANTS
  SharesAreReturned
