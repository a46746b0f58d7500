SPECIFICATION ConversationSpec
CONSTANTS
  Calls = {c1, c2}
  Ids = {i1}
  NoId = NoId
  Ttls = {1}
  MaxCalls = 5
  MaxTime = 2
  MaxLosses = 1
  MaxAttempts = 2
  HasDelivery = TRUE
  Exclusive = TRUE
  TurnRequests = {r1, r2}
  Conts = {x1, x2}
  TriggerKeys = {k1, k2}
  MaxStoreCalls = 2
CHECK_DEADLOCK FALSE
INVARIANTS
  AtMostOneReply
  ReplyRecorded
  TurnsStayApart
  FindsWhatWaits
  WakesAreKept
PROPERTIES
  LifeRefined
  TurnSettles
  EveryRequestHasItsTurn
