SPECIFICATION FairSpec
CONSTANTS
  Conns = {c1}
  QueueCapacity = 1
  RespCapacity = 1
  MaxRequests = 3
PROPERTIES CloseReturns FailureHandled
CHECK_DEADLOCK FALSE
