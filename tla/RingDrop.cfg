SPECIFICATION Spec
CONSTANTS
  LastSeq = 4
  Duplicates = FALSE
  Size = 3
  NULL = NULL
  MaxStatus = 0
  MaxRequests = 0
CHECK_DEADLOCK FALSE
INVARIANT NothingForgotten
