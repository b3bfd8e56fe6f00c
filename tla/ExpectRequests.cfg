CONSTANTS
  None = None
  Id <- MCId
  Address <- MCAddress
  Hash <- MCHash
  Helper <- MCHelper
  Names = {"ftp", "sip"}
  Exps = {e1, e2}
  Masters = {m1, m2}
  Tuples = {"t1"}
  Wanted = {"t1"}
  Size = 1
  Requests <- MCRequests
  MaxRoom = 1
SPECIFICATION LiveSpec
INVARIANTS TypeOK MastersAlive
PROPERTY DeletedLeaves
