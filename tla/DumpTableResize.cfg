CONSTANTS
  c1 = c1
  c2 = c2
  c3 = c3
  None = None
  Conns = {c1, c2, c3}
  SameNet = {c1, c2, c3}
  Match = {c1, c2, c3}
  Fickle = {}
  Hash <- ResizeHash
  Sizes <- TwoSizes
  EvictMax = 2
  MaxRoom = 2
  MaxChanges = 3
  MaxResizes = 1
SPECIFICATION Spec
INVARIANT NothingLeftOver
