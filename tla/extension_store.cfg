CONSTANTS
  Ids = {"i", "i2"}
  Types = {"e", "f"}
  PseudoClasses = {"root"}
  Rootish = {"root"}
  PseudoElements = {"before"}
  Placeholders = {"%p"}
  Universal = "*"
  NoMedia = NoMedia
  Sheets <- AllSheets
SPECIFICATION Spec
INVARIANT ExtendIsExact
INVARIANT OriginalsStay
CHECK_DEADLOCK FALSE
\* violated by the code, with Sheets <- SpecificOnly
\* INVARIANT SecondLaw
