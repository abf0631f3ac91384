SPECIFICATION Spec
CONSTANTS
  Interval = 3
  MaxStart = 2
  MaxTime = 13
INVARIANTS
  OneSamplePerSlot
  NextSlotIsDeadline
  RateHonest
CHECK_DEADLOCK FALSE
