SPECIFICATION Spec
CONSTANTS
  Launchers = {l1}
  SlotCount = 2
  LeaseTTL = 3
  KeepAlivePeriod = 1
  OperationTimeout = 2
  RetryDelay = 1
  Quarantine = 5
  MaxTime = 7
  MaxGrants = 2
  MaxRestarts = 1
INVARIANTS ActiveHoldsSlot WatchSeesDeletion
CHECK_DEADLOCK FALSE
