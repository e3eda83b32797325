SPECIFICATION FairSpec
CONSTANTS
  Import = {i1, i2}
  Worker = {w1}
  CmmsId = {1}
  DcId = {"x", "y"}
  None = None
  Batches <- MixedBatches
  RowId = {1, 2, 3, 4}
INVARIANTS
  TypeOK
  AnswersHold
  NothingReplaced
PROPERTIES
  ImplementsRegistry
  EveryBatchEnds
