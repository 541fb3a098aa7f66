SPECIFICATION Spec
CONSTANTS
  Capacity = 2
  Buckets = {b1, b2}
  Zeroed = zeroed
  Noise = noise
  Key = key
  RandomKeys = {random1, random2}
  NoKey = none
  Adapters = {a1, a2}
  MaxRequests = 2
  MaxRuns = 3
  DeviceFails = TRUE
PROPERTIES
  KeepsBuckets
