SPECIFICATION FairSpec
CONSTANTS
  p = p
  g = g
  h = h
  None = None
  Runs = {p, g}
  Kind <- ParsePublish
  Editors = {e1}
  Removers = {d1}
  MaxLate = 0
  MaxLost = 0
INVARIANT GraphBeforeGeneration
PROPERTY LostOnlyToStaleReads
PROPERTY Settles
PROPERTY RunsEnd
CHECK_DEADLOCK FALSE
