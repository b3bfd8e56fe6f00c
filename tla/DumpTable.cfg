CONSTANTS
  c1 = c1
  c2 = c2
  c3 = c3
  None = None
  Conns = {c1, c2, c3}
  SameNet = {c1, c2, c3}
  Match = {c1, c2, c3}
  Fickle = {c3}
  Hash <- MCHash
  Sizes <- TwoSizes
  EvictMax = 2
  MaxRoom = 1
  MaxChanges = 2
  MaxResizes = 1
SPECIFICATION FairSpec
INVARIANTS TypeOK RefsBalanced ReportedOnce
PROPERTY DumpEnds
