SPECIFICATION TrialSpec
CONSTANTS
  Skills <- MCSkills
  Steps <- MCSteps
  MaxRetries <- MCMaxRetries
  Checkpoint <- MCCheckpoint
  Resumable <- MCResumable
  HandingBack <- MCHandingBack
  Denied = {}
  MaxReplans = 1
  Planners = 1
  Scenarios = {"baseline", "sensor-glitch", "sensor-outage", "grasp-stall", "persistent-stall",
               "sensor-timeout"}
  Custom <- MCCustom
  Providers = {"mock", "model"}
  Order <- MCOrder
  Input <- MCInput
  Expect <- MCExpect
  RecoveryFor <- MCRecoveryFor
\* A trial ends.
CHECK_DEADLOCK FALSE
INVARIANTS
  StockScores
  PassIsEarned
PROPERTIES
  RobotStaysInStep
  TrialIsMission
