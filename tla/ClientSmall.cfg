SPECIFICATION Spec
CONSTANTS
  LastSeq = 3
  Duplicates = TRUE
  Size = 5
  NULL = NULL
  MaxStatus = 0
  MaxRequests = 0
CHECK_DEADLOCK FALSE
INVARIANT TypeOK
INVARIANT NothingLost
INVARIANT EveryPacketIsTimed
INVARIANT TimersHavePackets
INVARIANT OneTimerEach
INVARIANT ShutdownOrder
PROPERTY SpeaksProtocol
