CONSTANTS
  a1 = a1
  a2 = a2
  u = u
  r = r
  f = f
  k = k
  None = None
  Calls <- AllCalls
  Kind <- KindOf
SPECIFICATION FairSpec
PROPERTY EveryCallEnds
INVARIANTS TornCostsOne StaysForgotten
CHECK_DEADLOCK FALSE
