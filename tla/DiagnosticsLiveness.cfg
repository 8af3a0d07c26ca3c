SPECIFICATION FairSpec
CONSTANTS
  Id = {i1, i2}
  Key = {k1, k2}
  Data = {d1}
  None = None
  MaxItems = 2
  MaxAttempts = 1
  DeleteOn = {"completed", "expired"}
  Guarded = TRUE
  Faults = {"rot"}
INVARIANT
  NoOrphans
PROPERTY
  EntriesEnd
CHECK_DEADLOCK FALSE
