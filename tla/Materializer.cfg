SPECIFICATION Spec
CONSTANTS
  Policy = {p, q}
  InitialPolicy = p
  None = None
  MaxEpoch = 3
  MaxRevision = 3
  MaxFault = 4
  RetryModes = {TRUE, FALSE}
INVARIANTS
  TypeOK
  LKGIsProven
  LateCallbackIsCurrent
  LKGFollowsJournal
  RuntimeIsRecorded
  RestIsConsistent
CHECK_DEADLOCK FALSE
