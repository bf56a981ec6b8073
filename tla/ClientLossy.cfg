SPECIFICATION FairSpec
CONSTANTS
  LastSeq = 2
  Duplicates = FALSE
  Size = 4
  NULL = NULL
  MaxStatus = 0
  MaxRequests = 0
CHECK_DEADLOCK FALSE
PROPERTY ClientEnds
