SPECIFICATION FairSpec
CONSTANTS
  MaxIterations = 3
  MaxToolCalls = 3
  MaxInvalid = 2
  BudgetLimit = 3
  MaxRetries = 1
  MaxBatch = 2
  Costs = {0, 1}
  Outputs = {o1}
  NoOutput = NoOutput
CHECK_DEADLOCK FALSE
INVARIANTS
  LimitsHold
  ModelSeesResults
  CancelWins
  NoCallOutlivesTurn
PROPERTY TurnEnds
