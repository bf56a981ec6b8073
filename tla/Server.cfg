SPECIFICATION FairSpec
CONSTANTS
  LastSeq = 4
  Duplicates = TRUE
  Capacity = 5
  MaxAccepted = 5
CHECK_DEADLOCK FALSE
INVARIANT TypeOK
INVARIANT FileInOrder
INVARIANT AckedIsInFile
INVARIANT UnsetOnlyWithoutName
PROPERTY FtpsEnds
