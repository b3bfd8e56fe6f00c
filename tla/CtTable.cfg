CONSTANTS
  f1 = f1
  f2 = f2
  None = None
  Conns = {c1, c2}
  Flows = {f1, f2}
  Family <- MCFamily
  Attrs = {"seqadj", "timeout", "status", "mark", "labels"}
  Requests <- TableRequests
SYMMETRY Symmetry
SPECIFICATION Spec
INVARIANTS TypeOK RefCount TuplesUnique EventsTell FlushComplete
