SPECIFICATION FairSpec
CONSTANTS
  Worker = {w1, w2}
  Asset <- TwoAssets
  Slot = {"may", "june"}
  Cause = {"wear", "leak", "heat"}
  Link = {11, 12, 13, 21, 22}
  Code = {"code", "new code"}
  Operation = {"oil", "belt"}
  None = None
  Orders <- SharedOrders
  Answers <- SharedAnswers
  SheetNo = {1, 2, 3}
  Overlap = FALSE
INVARIANTS
  TypeOK
  WorksheetKeepsCause
  NoPartialSync
PROPERTIES
  ImplementsStore
  EverySyncEnds
