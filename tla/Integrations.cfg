SPECIFICATION Spec
CONSTANTS
  None = None
  Ids = {i1, i2, i3}
  Connects = {c1, c2, c3}
  Disconnects = {d1, d2}
INVARIANT TypeOK
INVARIANT OneActive
PROPERTY ImplementsVault
