SPECIFICATION Spec
CONSTANTS
  Worker = {w1, w2}
  Handler = {h1}
  Request = {r1}
  LateRequests = {}
  EmptyRequests = {}
  NoJob = NoJob
  HeartbeatInterval = 1
  StuckMaxAge = 2
  MaxMisses = 1
  Faults = {"stall", "lost_ack"}
  MaxFaults = 2
  MaxRetries = 0
SYMMETRY Symmetry
INVARIANTS
  DoneIsDelivered
  CausesFollowAsset
  OneClaimant
