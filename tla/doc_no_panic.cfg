CONSTANTS
  CIDs = {c1}
  Isolates = {i1}
  Handlers = {h1}
  ExtraBusy = 2
  MaxConcurrent = 1
  HostSends = {}
  EofWhen = "any"
  None = None
SPECIFICATION Spec
SYMMETRY Symmetry
INVARIANT NoPanic
