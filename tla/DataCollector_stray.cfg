SPECIFICATION Spec
CONSTANTS
  Metric <- TwoMetrics
  Item <- OtherValues
  Bad <- Refused
  Stray <- Foreign
  Overlap = 1
  RefreshInterval = 2
  PageSize = 2
  MaxDelay = 1
  Races = FALSE
  MaxTime = 3
  MaxFailures = 1
INVARIANTS
  StoredOnce
  OnlyMapped
  NoGap
  MappingIsNoticed
