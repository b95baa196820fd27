SPECIFICATION FairSpec
CONSTANTS
  Replicas = {r1, r2, r3}
  Quorum = 2
  TTL = 2
  MaxTime = 3
  MaxRenews = 1
PROPERTIES HealingStopsWithClient
CHECK_DEADLOCK FALSE
