\* A chunk arrives while a CoAP query of the missed chunks runs.
CONSTANTS
  MaxChunks = 4
  ImageChunks = 3
  Files = {a}
  ClearNvm = {no}
  KeepNvm = no
  MaxInstalls = 1
  MaxUpsets = 1
  None = None
SPECIFICATION Spec
INVARIANT StoredAtItsPlace
CHECK_DEADLOCK FALSE
