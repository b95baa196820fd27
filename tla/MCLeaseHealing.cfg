SPECIFICATION FairSpec
CONSTANTS
  Replicas = {r1, r2, r3}
  Quorum = 2
  TTL = 2
  MaxTime = 3
  MaxRenews = 1
INVARIANTS OneHealer HealingNotForgotten DelayDoublesToMaximum
PROPERTIES AcquireNeverFollowsRelease HealingEnds
CHECK_DEADLOCK FALSE
