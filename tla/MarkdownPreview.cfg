SPECIFICATION PreviewSpec
CONSTANT Documents <- MCDocuments
INVARIANTS
  LinesShownOnce
PROPERTY StopsOnlyAtIndentedBlocks
CHECK_DEADLOCK FALSE
