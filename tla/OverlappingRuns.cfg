SPECIFICATION Spec
CONSTANTS
  p = p
  g = g
  h = h
  None = None
  Runs = {p, g, h}
  Kind <- GenerateTwice
  Editors = {}
  Removers = {}
  MaxLate = 0
  MaxLost = 1
INVARIANT InProgressHasWorker
INVARIANT ArtifactIntact
INVARIANT StatusTracksRun
PROPERTY StatusMoves
CHECK_DEADLOCK FALSE
