SPECIFICATION Spec
CONSTANTS
  Import = {i1, i2}
  Worker = {w1}
  CmmsId = {1, 2}
  DcId = {"x", "y"}
  None = None
  Batches <- RivalBatches
  RowId = {1, 2, 3, 4}
INVARIANTS
  AnswersHold
