CONSTANTS
  w1 = w1
  w2 = w2
  Writers <- TwoWriters
  MaxAttempts = 3
  MaxAppends = 3
  Snapshots = TRUE
SPECIFICATION FairSpec
INVARIANTS
  OncePerAppendInOrder
  GivesUpOnlyUnderContention
PROPERTIES
  IsALog
  EveryCallEnds
CHECK_DEADLOCK FALSE
