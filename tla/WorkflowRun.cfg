CONSTANTS
  MaxEvents = 4
  Stampings <- MCStampings
SPECIFICATION FairSpec
INVARIANTS ReportedMeansRecorded FooterNeverOverstates DiagramsTellTheRun
PROPERTIES IsARecord NeitherIsLeftBehind
CHECK_DEADLOCK FALSE
