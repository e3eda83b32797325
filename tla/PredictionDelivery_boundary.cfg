SPECIFICATION Spec
CONSTANTS
  Job = {"j1", "j2"}
  Asset = {"pump", "fan"}
  AssetOf <- Owners
  Link = {11, 12, 21, 22}
  RowsOf <- Rows
  Id = {1, 2}
  Results <- Boundary
  None = None
INVARIANTS
  ValidIsSendable
