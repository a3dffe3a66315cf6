CONSTANTS
  CIDs = {c1, c2}
  Isolates = {i1, i2}
  Handlers = {h1, h2, h3}
  ExtraBusy = 2
  MaxConcurrent = 2
  HostSends = {"bad", "malformed", "version", "truncated"}
  EofWhen = "any"
  None = None
SPECIFICATION Spec
SYMMETRY Symmetry
CONSTRAINT OneStranger
INVARIANT NoTokenStranded
INVARIANT SingleInFlight
INVARIANT OutboundProtocol
CHECK_DEADLOCK FALSE
