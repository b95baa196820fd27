SPECIFICATION Spec
CONSTANTS
  TicksPerMS = 1
  MaxTTLMS = 2
  SafetyMarginMS = 0
  Servers = {s1, s2, s3}
  Clients = {c1, c2}
  Singles = {}
  QuorumSize = 2
  NoLease = NoLease
  RequestTTLs = {2}
  ConfiguredTTLs = {1, 2}
  Drift = 0
  MaxSequence = 1
  MaxBatches = 1
  MaxSingleCalls = 0
  MaxFaults = 0
  MaxTime = 2
SYMMETRY Symmetry
INVARIANTS Protection
PROPERTIES NoQuorumGivenUp ImplementsLeaseService
CHECK_DEADLOCK FALSE
