SPECIFICATION FairSpec
CONSTANTS
  Numbers = {1, 2, 3}
  Times = {3, 4}
  MaxRequests = 4
CHECK_DEADLOCK FALSE
INVARIANT TypeOK
INVARIANT SelectNeverFails
INVARIANT DueIsExact
INVARIANT OverdueOnlyIfForgotten
PROPERTY EveryTimerEnds
PROPERTY ImplementsService
