SPECIFICATION Spec
CONSTANTS
  Replicas = {r1, r2, r3}
  Quorum = 2
INVARIANTS NoLostWakeup
PROPERTIES WaitReadyReturns
CHECK_DEADLOCK FALSE
