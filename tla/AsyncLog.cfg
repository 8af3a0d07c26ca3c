SPECIFICATION FairSpec
CONSTANTS
  FlushCall = {f1, f2, f3}
  CloseCall = {c1}
  NoBarrier = NoBarrier
  QueueSize = 1
  QueueBytes = 3
  BatchSize = 2
  Size = {1, 2}
  MaxWrites = 2
INVARIANTS
  TypeOK
  CapacityIsExact
  BarrierIsExact
  FailuresAreReported
  AcknowledgedIsNotRepeated
PROPERTY CallsEnd
CHECK_DEADLOCK FALSE
