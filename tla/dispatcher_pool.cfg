CONSTANTS
  CIDs = {c1, c2, c3}
  Isolates = {i1, i2, i3}
  Handlers = {h1, h2, h3}
  ExtraBusy = 2
  MaxConcurrent = 2
  HostSends = {"bad"}
  EofWhen = "any"
  None = None
SPECIFICATION Spec
SYMMETRY Symmetry
CONSTRAINT OneStrangerBeforeEnd
INVARIANT TypeOK
INVARIANT IsolateOwnership
INVARIANT PoolAccounting
INVARIANT BoundedIsolates
CHECK_DEADLOCK FALSE
