SPECIFICATION FairSpec
CONSTANTS
  Policy = {p, q}
  InitialPolicy = p
  None = None
  MaxEpoch = 2
  MaxRevision = 2
  MaxFault = 1
  RetryModes = {TRUE}
PROPERTY MirrorsHeal
CHECK_DEADLOCK FALSE
