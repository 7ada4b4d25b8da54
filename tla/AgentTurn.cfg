CONSTANTS
  MaxIterations = 2
  MaxRetries = 1
  MaxCalls = 2
SPECIFICATION FairSpec
INVARIANTS Mirrored ActsAreOnRecord Paired CostIsBounded
PROPERTY EveryTurnEnds
CHECK_DEADLOCK FALSE
