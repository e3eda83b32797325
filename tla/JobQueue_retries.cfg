SPECIFICATION Spec
CONSTANTS
  Worker = {w1, w2}
  Handler = {h1, h2}
  Request = {r1, r2, r3}
  LateRequests = {r2}
  EmptyRequests = {r3}
  NoJob = NoJob
  HeartbeatInterval = 1
  StuckMaxAge = 2
  MaxMisses = 1
  Faults = {"concurrent_retry"}
  MaxFaults = 0
  MaxRetries = 2
SYMMETRY Symmetry
INVARIANTS
  SkippedIsNotPredicted
  PredictionsAreExplained
