SPECIFICATION Spec
CONSTANTS
  p = p
  g = g
  h = h
  None = None
  Runs = {p, g}
  Kind <- PyPIGenerate
  Editors = {}
  Removers = {d1}
  MaxLate = 1
  MaxLost = 1
INVARIANT TypeOK
INVARIANT NoOrphanArtifact
CHECK_DEADLOCK FALSE
