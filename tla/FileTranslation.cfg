SPECIFICATION Spec
CONSTANTS
  Inputs <- MCInputs
  Calls <- FileCalls
  MaxBatchSize = 2
  ReadSizes = {0, 3}
  Workers = {w1, w2}
  Jobs = {1, 2, 3, 4}
  MaxQueue = 1
  NoJob = NoJob
  BatchMayFail = TRUE
INVARIANTS
  OutputInOrder
  DoneMeansComplete
PROPERTIES
  CallReturns
CHECK_DEADLOCK FALSE
