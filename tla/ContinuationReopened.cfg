SPECIFICATION FairSpec
CONSTANTS
  Calls = {c1, c2}
  Ids = {i1}
  NoId = NoId
  Ttls = {1}
  MaxCalls = 4
  MaxTime = 1
  MaxLosses = 0
  MaxAttempts = 2
  HasDelivery = TRUE
  Exclusive = FALSE
CHECK_DEADLOCK FALSE
PROPERTY TerminalIsFinal
