\* A router or an LFN; the period is changed, also to one beyond its range.
CONSTANTS
  PeriodLimit = 4
  SecondsLimit = 32
  LongestDelay = 32
  IdleDelay = 2
  FirstPeriod = 2
  Periods = {0, 1, 5}
  MaxRequests = 2
  MaxLosses = 1
  MaxTime = 6
  None = None
SPECIFICATION Spec
INVARIANTS
  StatusInTime
  AsapInTime
PROPERTY WholeAndInOrder
CHECK_DEADLOCK FALSE
