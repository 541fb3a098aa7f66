CONSTANTS

  Capacity = 2
  BatchLimits = {0, 2}
  BackEnds <- MCBackEnds
  Buckets = {"zeroed", "x", "bad"}
  Malformed = {"bad"}
  Zeroed = "zeroed"
  MaxRequests = 3
SPECIFICATION Spec
INVARIANTS
  TypeOK
  WritesPrefix
  AnswersInOrder
  NothingMalformedStored
  AllTrafficReported
PROPERTIES
  CallsEnd
