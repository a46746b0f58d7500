SPECIFICATION ProactiveSpec
CONSTANTS
  Operators = {o1}
  MaxEvaluations = 2
  MaxRecords = 2
  MaxLive = 2
  Signals = {s1, s2, s3}
  Workers = {w1, w2}
  MaxPerRun = 2
  Ttl = 1
  LastHour = 1
  Posts = {m1, m2, m3}
  BotChannels = {b1, b2}
  AutoConfirmAfter = 2
  MaxReplies = 1
CHECK_DEADLOCK FALSE
INVARIANTS
  ActiveIsWatched
  RunAccountsForAll
  UserSettlesChannel
PROPERTIES
  StoppedFallsSilent
  DuplicatesDieOut
