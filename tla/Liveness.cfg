SPECIFICATION FairSpec
CONSTANTS
  Node = {n1}
  NoNode = NoNode
  Nonce = {1, 2, 3}
  Payload = {p}
  NoPayload = NoPayload
  MaxTerm = 4
  MaxEpoch = 4
  MaxRevision = 3
  MaxCrash = 1
PROPERTY CallsReturn
CHECK_DEADLOCK FALSE
