CONSTANTS
  a1 = a1
  a2 = a2
  u = u
  r = r
  f = f
  l = l
  g = g
  alice = alice
  sync = sync
  pool = pool
  None = None
  Calls <- AllCalls
  Request <- RequestOf
  User <- UserOf
  Store <- StoreOf
  Pooled = {pool}
  MaxCalls = 4
  MaxFaults = 1
  Dialects = {"postgresql", "mysql"}
SPECIFICATION FairSpec
INVARIANTS ListedInOrder ReadsAreCurrent
PROPERTIES WritesLeaveNothingOpen IsAMemoryStore EveryCallEnds
CHECK_DEADLOCK FALSE
