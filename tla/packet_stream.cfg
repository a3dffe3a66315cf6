CONSTANTS
  PayloadBits = 2
  Writers = {w1, w2}
  Payloads <- SmallPayloads
  MaxPackets = 3
  WordBits = 4
  MaxLength = 5
SPECIFICATION FairSpec
INVARIANT PacketsWhole
INVARIANT EndIsOrderly
PROPERTY PacketsArrive
CHECK_DEADLOCK FALSE
