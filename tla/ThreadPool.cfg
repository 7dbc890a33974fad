SPECIFICATION Spec
CONSTANTS
  Clients = {c1, c2}
  Workers = {w1, w2}
  Jobs = {j1, j2, j3, j4}
  MaxQueue = 2
  NoJob = NoJob
INVARIANTS
  TypeOK
  CounterExact
  Ownership
  ClosingOrder
  NoLostGetWakeup
  NoLostPutWakeup
PROPERTIES
  PostedJobsRun
  ImplementsJobPool
CHECK_DEADLOCK FALSE
