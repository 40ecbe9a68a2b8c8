\* One caller, an array of two slots, three entries: full, stopped and requeued cases all occur.
CONSTANTS
  Clients = {c1}
  Fns = {f, g}
  None = None
  MaxSlots = 2
  Delays = {0, 1}
  Periods = {0, 1}
  TimerSlack = 1
  MaxCalls = 3
  MaxTime = 2
SPECIFICATION FairSpec
PROPERTIES
  ImplementsAgenda
  PendingActionsLeave
CHECK_DEADLOCK FALSE
