SPECIFICATION FairSpec
CONSTANTS
  Keys = {"k1", "k2", "k3"}
  ShardOf <- Shards
  ShardCount = 2
  Requests <- SomeRequests
  MaxKeys = 2
  MaxTime = 1
  MaxOps <- Ops
INVARIANTS KeysAccounted HeapAgrees HeapOperationsKeepOrder
PROPERTIES EntryDiscipline SweepIsComplete EveryOperationAnswered
CHECK_DEADLOCK FALSE
