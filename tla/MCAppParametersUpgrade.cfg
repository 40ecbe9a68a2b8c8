\* An update of the firmware, and one reset.
CONSTANTS
  MaxNetworks = 2
  Firmwares <- ThreeFirmwares
  MaxResets = 2
  MaxFailures = 0
  MaxDeletes = 0
  CrashTypes = {assert}
  NoCrash = none
  Garbage = garbage
  None = None
SPECIFICATION Spec
INVARIANT SettingsOfThisFirmware
CHECK_DEADLOCK FALSE
