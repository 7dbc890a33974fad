SPECIFICATION Spec
CONSTANTS
  Batches <- MCBatches
  Length <- MCLength
  NumWorkers = 2
  FailureIsPossible = TRUE
INVARIANTS
  StreamComplete
  StopsAfterClose
PROPERTY WaitsEnd
CHECK_DEADLOCK FALSE
