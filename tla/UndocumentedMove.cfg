SPECIFICATION Spec
CONSTANTS
  p = p
  g = g
  h = h
  None = None
  Runs = {p, g}
  Kind <- ParseGenerate
  Editors = {}
  Removers = {}
  MaxLate = 0
  MaxLost = 0
PROPERTY DocumentedMoves
CHECK_DEADLOCK FALSE
