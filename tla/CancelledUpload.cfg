SPECIFICATION Spec
CONSTANTS
  Id = {i1, i2}
  Key = {k1, k2}
  Data = {d1}
  None = None
  MaxItems = 1
  MaxAttempts = 2
  DeleteOn = {"completed", "expired"}
  Guarded = TRUE
  Faults = {}
INVARIANT
  UploadedOnce
SYMMETRY Symmetry
CHECK_DEADLOCK FALSE
