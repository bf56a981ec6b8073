SPECIFICATION Spec
CONSTANTS
  LastSeq = 2
  Delays = {1500, 5000}
  MaxNow = 8000
  MaxCalibrations = 4
CHECK_DEADLOCK FALSE
INVARIANT TypeOK
INVARIANT EstimatesInRange
INVARIANT TimerIsBounded
PROPERTY TimerOutlastsSample
