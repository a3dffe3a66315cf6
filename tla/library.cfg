CONSTANTS
  PayloadBits = 3
  MaxLength = 7
  MaxRepetitions = 2
  Shift = 2
  PxPerInch = 4
  InverseEpsilon = 60
  Precision = 2
  Ids = {"i"}
  Types = {"e"}
  PseudoClasses = {}
  Rootish = {}
  PseudoElements = {}
  Placeholders = {}
  Universal = "*"
  Parent = "&"
  SuffixNames = {"-s", "e"}
SPECIFICATION Spec
INVARIANT VarintsExact
INVARIANT MergeIsIntersection
INVARIANT SelectorsMean
INVARIANT HostKeepsValues
INVARIANT NumbersHold
INVARIANT MapInStep
INVARIANT RepetitionsCounted
INVARIANT ClearReachesEveryChange
INVARIANT MapIsFaithful
INVARIANT ArgumentsArrive
INVARIANT SyntaxKept
CHECK_DEADLOCK FALSE
\* each violated by the code
\* INVARIANT MapOrderKept
\* INVARIANT CommaNeverDivides
\* INVARIANT ParenthesesDivide
\* INVARIANT MalformedReported
