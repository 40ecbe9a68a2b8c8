\* A periodic action stopped while its callback runs.
CONSTANTS
  Clients = {c1}
  Fns = {f, g}
  None = None
  MaxSlots = 2
  Delays = {0, 1}
  Periods = {0, 1}
  TimerSlack = 0
  MaxCalls = 3
  MaxTime = 2
SPECIFICATION HSpec
INVARIANT StopIsFinal
CHECK_DEADLOCK FALSE
