\* Two networks, three firmwares, two kinds of crash, three resets, a write failure, a deletion.
CONSTANTS
  MaxNetworks = 2
  Firmwares <- ThreeFirmwares
  MaxResets = 3
  MaxFailures = 1
  MaxDeletes = 1
  CrashTypes = {assert, fault}
  NoCrash = none
  Garbage = garbage
  None = None
SPECIFICATION Spec
INVARIANTS
  InitialisedUnlessDeleted
  SettingsOfThisFirmwareUnlessTorn
  CrashesNotOvercounted
PROPERTIES
  SavedSurvivesRestart
  ReportsEachCrashOnce
CHECK_DEADLOCK FALSE
