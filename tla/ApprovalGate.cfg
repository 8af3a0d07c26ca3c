SPECIFICATION Spec
CONSTANTS
  Gate = {g1, g2}
  Handler = {h1}
  Request = {r1}
  Conf = {c1}
  Approver = {a1, a2}
  Kinds = {"preapproved", "plain", "third"}
  None = None
  MaxEpoch = 2
  MaxEvents = 4
  MaxRejected = 0
  SameInstant = FALSE
INVARIANTS
  TypeOK
  MemoryIsDurable
  GrantIsConfirmed
  SingleUse
PROPERTIES
  EpochFenced
  GrantSpec
SYMMETRY Symmetry
CHECK_DEADLOCK FALSE
CONSTRAINT OneAtATime
