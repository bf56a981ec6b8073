SPECIFICATION Spec
CONSTANTS
  Bytes = {{}, {0, 6}}
  Flips = {{0}, {4}, {5}, {0, 7}, {1, 3}, {0, 1, 2, 3, 4, 5, 6, 7}}
  MaxLength = 4
CHECK_DEADLOCK FALSE
INVARIANT TypeOK
INVARIANT FastIsSlow
INVARIANT DamageDetected
INVARIANT OddDamageDetected
INVARIANT BlankIsNeverGood
