CONSTANTS
  c1 = c1
  c2 = c2
  c3 = c3
  s1 = s1
  s2 = s2
  Calls <- TwoCalls
  Stores <- TwoStores
  StoreOf <- OneEach
  MaxAttempts = 2
  MaxForeign = 1
SPECIFICATION Spec
INVARIANT AckedIsCommitted
CHECK_DEADLOCK FALSE
