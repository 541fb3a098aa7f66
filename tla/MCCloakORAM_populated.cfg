CONSTANTS
  Blocks = {1, 2, 3}
  Data <- MCData
  Empty <- MCEmpty
  Oversized = {}
  Padded <- MCPadded
  Leaves <- MCLeaves
  Locations <- MCLocations
  Height = 2
  BucketFor <- MCBucketFor
  Z = 1
  StashCapacity = 4
  BatchSize = 1
  StorageFaults = {}
  NoLeaf = NoLeaf
  NoResponse = NoResponse
  BlockSize = 2
  Zeros <- MCZeros
  Containers <- OneContainer
  NoContainer = NoContainer
  Populated = TRUE
  MacsRestored = {TRUE}
  SameKey = TRUE
  MaxRestarts = 0
  KeepOutdated = FALSE
SPECIFICATION CloakSpec
INVARIANTS
  SharesAreReturned
