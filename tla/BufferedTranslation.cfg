SPECIFICATION Spec
CONSTANTS
  Clients = {c1, c2}
  Requests = {1, 2, 3, 4}
  MaxBatchSize = 2
  MaxBufferSize = 3
  Workers = {w1, w2}
  Jobs = {1, 2, 3, 4}
  MaxQueue = 1
  NoJob = NoJob
  BatchMayFail = TRUE
INVARIANTS
  OwnResult
  NoLostFlush
PROPERTIES
  EveryRequestAnswered
  DestructorReturns
CHECK_DEADLOCK FALSE
