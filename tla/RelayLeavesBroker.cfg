SPECIFICATION AssistantSpec
CONSTANTS
  MaxMessages = 1
  MaxConcurrent = 2
  HandlerTimeout = 1
  DrainMargin = 1
  ErrorHookThrows = TRUE
  Attempts = {a1, a2}
  Turns = {t1}
  Setups <- TwoSetups
CHECK_DEADLOCK FALSE
INVARIANT NoBrokerLeft
