SPECIFICATION MCSpec
CONSTANTS
  Skills <- MCSkills
  HandingBack = {"recover_grasp"}
  Rules <- MCRules
  FailingSteps <- MCFailingSteps
  ToolOf <- MCToolOf
  Instructions = {"pickup", "redo"}
  Tokens <- MCTokens
  InstructionText <- MCInstructionText
  Words <- MCWords
  Names <- MCNames
  Notes <- MCNotes
  ContextFiles <- MCContextFiles
  Reasons <- MCReasons
  Chains <- MCChains
  RecallLimit = 2
  Snippet = 6
  MaxReplans = 1
  MaxNotes = 1
  MaxRuns = 2
  MaxClock = 2
INVARIANTS NotesSurvive ContextOnce RecoveryOnTarget OwnLogsNarrowNothing
CHECK_DEADLOCK FALSE
