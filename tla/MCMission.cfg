SPECIFICATION FairSpec
CONSTANTS
  Skills <- MCSkills
  Steps <- MCSteps
  MaxRetries <- MCMaxRetries
  Checkpoint <- MCCheckpoint
  Resumable <- MCResumable
  HandingBack <- MCHandingBack
  Denied <- MCDenied
  MaxReplans = 2
  Planners = 2
\* The mission ends.
CHECK_DEADLOCK FALSE
INVARIANTS
  ReportsBounded
  OneLateCall
  ResumeSkipsOnlyDone
  CompletedMeansDone
PROPERTIES
  Terminates
