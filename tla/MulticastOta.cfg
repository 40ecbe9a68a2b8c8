\* The documented use: two files of two chunks, every index of the arrays used, two disturbances.
CONSTANTS
  MaxChunks = 3
  ImageChunks = 2
  Files = {a, b}
  ClearNvm = {no, full}
  KeepNvm = no
  MaxInstalls = 1
  MaxUpsets = 2
  None = None
SPECIFICATION FairQuietSpec
INVARIANTS
  StoredAtItsPlace
  ZeroMissedMeansRecorded
  RecordedWasWritten
  InstallsVerifiedImage
PROPERTIES
  RetransmissionCompletes
CHECK_DEADLOCK FALSE
