SPECIFICATION FairSpec
CONSTANTS
  Metric <- OneMetric
  Item <- PumpValues
  Bad <- NoItem
  Stray <- NoItem
  Overlap = 2
  RefreshInterval = 2
  PageSize = 1
  MaxDelay = 2
  Races = TRUE
  MaxTime = 4
  MaxFailures = 1
INVARIANTS
  TypeOK
  StoredOnce
  NoGap
PROPERTIES
  EveryValueStored
