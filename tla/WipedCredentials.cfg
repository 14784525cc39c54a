SPECIFICATION Spec
CONSTANTS
  None = None
  Ids = {i1}
  Connects = {c1, c2}
  Disconnects = {d1}
INVARIANT RevokedIsWiped
