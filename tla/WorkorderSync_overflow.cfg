SPECIFICATION Spec
CONSTANTS
  Worker = {w1, w2}
  Asset <- OneAsset
  Slot = {"may", "june"}
  Cause = {"wear", "leak", "heat"}
  Link = {11, 12, 13, 21, 22}
  Code = {"code", "new code"}
  Operation = {"oil", "belt"}
  None = None
  Orders <- TwoOrders
  Answers <- OverflowAnswers
  SheetNo = {1, 2}
  Overlap = FALSE

INVARIANTS
  NoPartialSync
