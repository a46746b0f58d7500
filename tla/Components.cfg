SPECIFICATION ComponentsSpec
CONSTANTS
  Calls = {c1, c2}
  Ids = {i1}
  NoId = NoId
  Ttls = {1}
  MaxCalls = 3
  MaxTime = 1
  MaxLosses = 1
  MaxAttempts = 2
  HasDelivery = TRUE
  Exclusive = FALSE
  SessionCallers = {k1, k2}
  SessionIds = {s1, s2}
  Channels = {x1, x2}
  Ttl = 0
  LastTime = 1
  MaxOps = 4
  Scopes <- SessionAndUser
  MemoryCallers = {m1, m2}
  MaxEntries = 3
  MaxFacts = 2
  LastDay = 1
  Evaluations = {e1, e2}
  Rules = {p1, p2}
  MaxReminders = 2
  ReminderCooldown = 1
  LastInstant = 2
  CloneCalls = {q1, q2}
  CacheTtl = 1
  Cooldown = 1
  LastTick = 2
  ToolCalls = {k1, k2, k3}
  GuardTurns = {t1, t2}
  ToolInputs = {i1, i2}
  MaxTurns = 1
  Keys = {k1}
  Subscribers = {c1}
  MaxSignals = 3
  MaxStep = 2
  MaxDepth = 2
  Threads = {t1}
  TurnId = t1
  Policies <- SomePolicies
  Contexts <- RoutingContexts
  MaxCost = 2
  MaxSteps = 2
  QueryLimit = 1
  SweepLimit = 1
  MaxRaised = 2
  Plans <- SomePlans
  Outcomes <- SomeOutcomes
  Specialists = {"writer", "critic"}
CHECK_DEADLOCK FALSE
INVARIANTS
  DeliveryHonest
  KeepsPromises
  KnowledgeKept
  RemindersKeepPolicy
  StatusIsRecent
  RepeatsAreBlocked
  EveryoneHears
  ExpiresOnTime
  NoLiveDuplicates
  UrgencyWins
  AnswerIsEarned
PROPERTY EndedStaysEnded
