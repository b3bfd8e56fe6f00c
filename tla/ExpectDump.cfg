CONSTANTS
  None = None
  Id <- MCId
  Address <- MCAddress
  Hash <- MCHash
  Helper <- MCHelper
  Names = {"ftp", "sip"}
  Exps = {e1, e2}
  Masters = {m1}
  Tuples = {"t1", "t2"}
  Wanted = {"t1", "t2"}
  Size = 1
  Requests <- DumpRequests
  MaxRoom = 1
SPECIFICATION Spec
INVARIANTS RefCount ReportedOnce
SYMMETRY ExpSymmetry
