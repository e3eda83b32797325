SPECIFICATION Spec
CONSTANTS
  Job = {"j1", "j2"}
  Asset = {"pump", "fan"}
  AssetOf <- Owners
  Link = {11, 12, 21, 22}
  RowsOf <- Rows
  Id = {1, 2}
  Results <- Refused
  None = None
INVARIANTS
  TypeOK
  CausesArePredicted
  NoHalfPrediction
PROPERTIES
  OnlyMovedAreStale
