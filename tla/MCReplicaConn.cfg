SPECIFICATION FairSpec
CONSTANTS
  Replicas = {r1}
  Callers = {c1}
  ReqCapacity = 1
  RespCapacity = 1
  MaxCalls = 2
  MaxSessions = 2
INVARIANTS OneResultPerWait OneConsumer ClosedForGood
PROPERTIES EveryCallEnds CloseEnds
CHECK_DEADLOCK FALSE
