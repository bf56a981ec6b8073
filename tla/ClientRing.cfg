SPECIFICATION Spec
CONSTANTS
  LastSeq = 3
  Duplicates = FALSE
  Size = 3
  NULL = NULL
  MaxStatus = 1
  MaxRequests = 0
CHECK_DEADLOCK FALSE
INVARIANTS FullHoldsPacket HoldIsLifted
PROPERTY FreedByOwnSlot
