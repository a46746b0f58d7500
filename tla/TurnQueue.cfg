SPECIFICATION MCSpec
CONSTANTS
  d1 = d1
  Deliveries = {d1, d2}
  Events = {e1, e2}
  Unkeyed = {e2}
  NoEvent = NoEvent
  Consumers = {k1, k2}
  MaxBatch = 2
  MaxTries = 2
  MaxJobs = 2
CHECK_DEADLOCK FALSE
INVARIANTS
  TwiceOnlyIfRaced
  AckMeansSettled
PROPERTY EventIsHandled
