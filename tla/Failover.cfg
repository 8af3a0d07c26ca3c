SPECIFICATION Spec
CONSTANTS
  Node = {n1, n2}
  NoNode = NoNode
  Nonce = {1, 2, 3}
  Payload = {p}
  NoPayload = NoPayload
  MaxTerm = 3
  MaxEpoch = 3
  MaxRevision = 3
  MaxCrash = 1
SYMMETRY Symmetry
INVARIANTS
  TypeOK
  DurableIsReplicated
  ConsensusAgrees
  AckedIsKept
  PublishedIsDurable
  FencesAgree
CHECK_DEADLOCK FALSE
CONSTRAINT OneBoot
