\* Four join states; a connection, losses to any state and reconnections; one reset.
CONSTANTS
  Operational = 3
  PanConfig = 1
  MaxEvents = 2
  MaxMoves = 6
  MaxResets = 1
  MaxTime = 3
  None = None
SPECIFICATION Spec
INVARIANTS
  JoinStateSettles
  ConnectionsCounted
  TotalsAddUpUnlessForgotten
  DelaysAddUp
CHECK_DEADLOCK FALSE
