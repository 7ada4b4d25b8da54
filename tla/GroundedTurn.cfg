CONSTANTS
  ToolReplies <- SomeReplies
  AnswerTexts <- SomeTexts
  Paths <- SomePaths
  Shown <- SomeShown
  Json <- SomeJson
  Outcomes <- SomeOutcomes
  Settings <- SomeSettings
  MaxRevisions = 1
  MaxToolUses = 2
  MaxAsks = 3
  MaxCitations = 1
SPECIFICATION GroundedSpec
INVARIANTS RepliesArriveWhole RequestsAreAcceptable PassedIsTrue
CHECK_DEADLOCK FALSE
