SPECIFICATION Spec
CONSTANTS
  Callers = {t1, t2}
  Workers = {w1, w2}
  Jobs = {j1, j2}
  MaxQueue = 1
  MaxBatches = 2
  NoJob = NoJob
  NoCaller = NoCaller
  Asynchronous = {TRUE, FALSE}
  CloneMayFail = TRUE
INVARIANTS
  SyncBatchSucceeds
  FlagTellsReplicas
PROPERTIES
  CallsAnswered
CHECK_DEADLOCK FALSE
