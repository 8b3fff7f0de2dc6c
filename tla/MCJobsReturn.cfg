SPECIFICATION Spec
CONSTANTS
  j1 = j1
  j2 = j2
  r1 = r1
  r2 = r2
  JobIds <- MCJobIds
  Runners <- OneRunner
  CronSlots <- MCCronSlots
  Modes = {"serve", "batch"}
  Interval = 1
  EndOfTime = 2
  DueTimes = {0}
  Results = {"completed"}
  Endless = {}
  Limit = 2
  MaxRuns = 2
  ClockMayStepBack = TRUE
INVARIANT
  SuccessfulRepeatingJobReturns
