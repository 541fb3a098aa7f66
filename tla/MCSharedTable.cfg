CONSTANTS
  K = 2
  Coefficient <- MCCoefficient
  NumServers = 4
  Attributes = {"mode", "status", "quantity"}
  Rows <- MCRows
  Queries <- MCQueries
  MaxRows = 2
  MaxFaults = 1
  NotLoaded = NotLoaded
  NotAnswered = NotAnswered
  NoRow = NoRow
SPECIFICATION Spec
INVARIANTS
  TypeOK
  Aligned
  FilesInStep
  RowsSurvive
  ResultsReconstruct
  SumReconstructs
  CountsAreExact
CHECK_DEADLOCK FALSE
