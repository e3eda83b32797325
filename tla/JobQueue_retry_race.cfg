SPECIFICATION Spec
CONSTANTS
  Worker = {w1, w2}
  Handler = {h1, h2}
  Request = {r1}
  LateRequests = {}
  EmptyRequests = {}
  NoJob = NoJob
  HeartbeatInterval = 1
  StuckMaxAge = 2
  MaxMisses = 1
  Faults = {"concurrent_retry"}
  MaxFaults = 0
  MaxRetries = 2
SYMMETRY Symmetry
PROPERTIES
  FinalStays
