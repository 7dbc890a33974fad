SPECIFICATION Spec
CONSTANTS
  VocabularySize = 4
  Cost <- MCCost
  Calls <- MCCalls
INVARIANTS
  RowsAligned
  ResultsComplete
  BatchIndependent
  WideBeamIsExact
CHECK_DEADLOCK FALSE
