CONSTANTS
  s1 = s1
  s2 = s2
  r1 = r1
  r2 = r2
  r3 = r3
  Streams <- MCStreams
  Requests <- MCRequests
  StreamOf <- MCStreamOf
  WorkflowRequests <- MCWorkflowRequests
  OnTimeout = "decline"
SPECIFICATION FairSpec
INVARIANTS VerdictIsTheAck OnlyCutShortStaysRegistered
PROPERTIES RefusedMeansNobodyWaits KeepsThePromise EveryPauseEnds
CHECK_DEADLOCK FALSE
