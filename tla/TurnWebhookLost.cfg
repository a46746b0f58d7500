SPECIFICATION FairSpec
CONSTANTS
  Deliveries = {d1, d2}
  Events = {e1}
  Unkeyed = {}
  NoEvent = NoEvent
  Consumers = {k1}
  MaxBatch = 2
  MaxTries = 2
  MaxJobs = 1
CHECK_DEADLOCK FALSE
INVARIANT RetryMakesGood
