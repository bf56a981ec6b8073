SPECIFICATION Spec
CONSTANTS
  LastSeq = 3
  Duplicates = FALSE
  Capacity = 5
  MaxAccepted = 9
INVARIANT TypeOK
INVARIANT DeliveredInOrder
INVARIANT AckedIsSafe
INVARIANT AckedIsDelivered
INVARIANT StaysInBounds
PROPERTY ImplementsDelivery
PROPERTY ImplementsReceiver
