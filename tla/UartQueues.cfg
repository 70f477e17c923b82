CONSTANTS
  OutSize = 3
  InSize = 4
  Low = 2
  High = 2
  MaxBytes = 6
  Late = 1
  Troubles = 1
SPECIFICATION FairSpec
INVARIANTS EmptyIsEmpty StoppedForAReason
PROPERTIES SendsInOrder ReadsInOrder Drains
CHECK_DEADLOCK FALSE
