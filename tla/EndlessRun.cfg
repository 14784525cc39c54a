SPECIFICATION FairSpec
CONSTANTS
  p = p
  g = g
  h = h
  None = None
  Runs = {p}
  Kind <- ParseOnly
  Editors = {}
  Removers = {d1}
  MaxLate = 0
  MaxLost = 0
PROPERTY EveryRunEnds
CHECK_DEADLOCK FALSE
