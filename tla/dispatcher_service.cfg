CONSTANTS
  CIDs = {c1, c2, c3}
  Isolates = {i1, i2}
  Handlers = {h1, h2, h3}
  ExtraBusy = 2
  MaxConcurrent = 1
  HostSends = {"version"}
  EofWhen = "quiescent"
  None = None
SPECIFICATION FairSpec
PROPERTY ImplementsService
PROPERTY RequestsAnswered
PROPERTY GracefulShutdown
