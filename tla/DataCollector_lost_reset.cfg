SPECIFICATION Spec
CONSTANTS
  Metric <- TwoMetrics
  Item <- NoItem
  Bad <- NoItem
  Stray <- NoItem
  Overlap = 1
  RefreshInterval = 2
  PageSize = 1
  MaxDelay = 1
  Races = TRUE
  MaxTime = 2
  MaxFailures = 0
INVARIANTS
  MappingIsNoticed
