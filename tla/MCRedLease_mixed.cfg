SPECIFICATION Spec
CONSTANTS
  TicksPerMS = 1
  MaxTTLMS = 2
  SafetyMarginMS = 0
  Servers = {s1}
  Clients = {c1, c2}
  Singles = {c2}
  QuorumSize = 1
  NoLease = NoLease
  RequestTTLs = {0, 2}
  ConfiguredTTLs = {2}
  Drift = 0
  MaxSequence = 1
  MaxBatches = 3
  MaxSingleCalls = 2
  MaxFaults = 1
  MaxTime = 4
INVARIANTS MutualExclusion ConfirmedReplicaHolds
PROPERTIES LiveEntryKept ValidityMovesForward
CHECK_DEADLOCK FALSE
