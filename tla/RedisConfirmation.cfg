CONSTANTS
  s1 = s1
  r1 = r1
  r2 = r2
  Streams <- MCStreams
  Requests <- MCRequests
  StreamOf <- MCStreamOf
  WorkflowRequests <- MCWorkflowRequests
  OnTimeout = "confirm"
  MaxPosts = 2
SPECIFICATION FairSpec
INVARIANT FirstAckWins
PROPERTIES KeepsThePromise EveryPauseEnds
CHECK_DEADLOCK FALSE
