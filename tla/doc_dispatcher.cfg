\* Three statements of docs and comments that the code violates, one at a time:
\*   OneBorrower      as below
\*   ExitCodeIsStatus HostSends = {"malformed"}, EofWhen = "quiescent"
\*   ShutdownReturns  HostSends = {}, EofWhen = "any", MaxConcurrent = 1, under FairSpec
CONSTANTS
  CIDs = {c1, c2}
  Isolates = {i1, i2}
  Handlers = {h1, h2, h3}
  ExtraBusy = 2
  MaxConcurrent = 2
  HostSends = {"duplicate"}
  EofWhen = "never"
  None = None
SPECIFICATION Spec
\* SPECIFICATION FairSpec
SYMMETRY Symmetry
INVARIANT OneBorrower
\* INVARIANT ExitCodeIsStatus
\* PROPERTY ShutdownReturns
