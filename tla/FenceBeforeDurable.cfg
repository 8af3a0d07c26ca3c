SPECIFICATION Spec
CONSTANTS
  Node = {n1, n2}
  NoNode = NoNode
  Nonce = {1, 2}
  Payload = {p}
  NoPayload = NoPayload
  MaxTerm = 2
  MaxEpoch = 2
  MaxRevision = 2
  MaxCrash = 0
INVARIANT FenceImpliesDurable
CHECK_DEADLOCK FALSE
