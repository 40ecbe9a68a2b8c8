\* Two threads, two callbacks, an array of two slots, one-shot and periodic actions.
CONSTANTS
  c1 = c1
  c2 = c2
  f = f
  g = g
  None = None
  Clients <- MCClients
  Fns <- MCFns
  MaxSlots = 2
  Delays = {0, 1}
  Periods = {0, 1}
  TimerSlack = 1
  MaxCalls = 3
  MaxTime = 2
SYMMETRY Symmetry
SPECIFICATION HSpec
INVARIANTS
  TypeOK
  WakeupPending
  QueueInOrder
  StopSettles
PROPERTIES
  EarliestFirst
  PeriodicLostOnlyWhenFull
CHECK_DEADLOCK FALSE
