SPECIFICATION LiveSpec
CONSTANTS
  j1 = j1
  j2 = j2
  r1 = r1
  r2 = r2
  JobIds <- MCJobIds
  Runners <- OneRunner
  CronSlots = {}
  Modes = {"serve"}
  Interval = 1
  EndOfTime = 2
  DueTimes = {0}
  Results = {"completed"}
  Endless = {j1}
  Limit = 2
  MaxRuns = 3
  ClockMayStepBack = FALSE
PROPERTIES
  DueJobDispatched
  StopsTakeEffect
