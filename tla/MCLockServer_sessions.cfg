SPECIFICATION Spec
CONSTANTS
  Conns = {c1, c2}
  QueueCapacity = 1
  RespCapacity = 1
  MaxRequests = 1
SYMMETRY Symmetry
INVARIANTS HalfClosedGetsAnswers StoppedShardIsDrained
PROPERTIES LifecycleForward
CHECK_DEADLOCK FALSE
