CONSTANTS
  None = None
  Cmds = {c1, c2}
  Asks <- MCAsks
  MaxSeq = 3
SYMMETRY Symmetry
SPECIFICATION Spec
INVARIANTS TypeOK
PROPERTIES QuietMeansGranted ResetCloses
