SPECIFICATION Spec
CONSTANTS
  Gate = {g1}
  Handler = {h1}
  Request = {r1, r2}
  Conf = {c1}
  Approver = {a1}
  Kinds = {"third"}
  None = None
  MaxEpoch = 1
  MaxEvents = 5
  MaxRejected = 0
  SameInstant = FALSE
INVARIANTS
  AlwaysSingleUse
SYMMETRY Symmetry
CHECK_DEADLOCK FALSE
