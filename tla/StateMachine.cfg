SPECIFICATION Spec
CONSTANTS
  Node = {n1, n2}
  NoNode = NoNode
  Nonce = {a, b, c, d}
  Payload = {p, q}
  NoPayload = NoPayload
  MaxTerm = 3
  MaxEpoch = 2
  MaxRevision = 3
SYMMETRY Symmetry
INVARIANTS
  TypeOK
  PendingIsOneProposal
  LedgersComplete
  FencesAreCommitted
  ProposalsAreCurrent
  ContentHasRevision
PROPERTIES
  CommittedAdvances
  CommittedIsImmutable
  FenceDigestIsStable
