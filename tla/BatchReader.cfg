SPECIFICATION ReaderSpec
CONSTANTS
  Inputs <- MCInputs
  Calls <- MCCalls
INVARIANTS
  NothingSkipped
  BatchesFull
  EndedMeansComplete
CHECK_DEADLOCK FALSE
