CONSTANTS
  c1 = c1
  c2 = c2
  c3 = c3
  s1 = s1
  s2 = s2
  Calls <- ThreeCalls
  Stores <- TwoStores
  StoreOf <- TwoAndOne
  MaxAttempts = 2
  MaxForeign = 1
SPECIFICATION FairSpec
INVARIANTS SafeKeptApart NothingLeftOpen
PROPERTY EveryCallEnds
CHECK_DEADLOCK FALSE
