SPECIFICATION FairSpec
CONSTANTS
  Worker = {w1, w2}
  Handler = {h1}
  Request = {r1, r2}
  LateRequests = {}
  EmptyRequests = {}
  NoJob = NoJob
  HeartbeatInterval = 1
  StuckMaxAge = 2
  MaxMisses = 1
  Faults = {}
  MaxFaults = 1
  MaxRetries = 1
INVARIANTS
  TypeOK
  OneWorkerPerJob
  HeldIsFresh
  PredictionsAreExplained
PROPERTIES
  FinalStays
  ImplementsLifecycle
  EveryJobSettles
