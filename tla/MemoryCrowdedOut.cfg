SPECIFICATION MemorySpec
CONSTANTS
  Scopes <- TwoSessions
  MemoryCallers = {m1}
  MaxEntries = 4
  MaxFacts = 4
  LastDay = 0
CHECK_DEADLOCK FALSE
INVARIANT RetrieveFindsOwn
