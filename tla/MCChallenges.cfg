SPECIFICATION FairSpec
CONSTANTS
  c1 = c1
  c2 = c2
  r1 = r1
  Ids <- MCIds
  Runners <- MCRunners
  N = 2
  Modes = {"serve", "once"}
  Results = {"completed"}
  ReadsMayFail = TRUE
INVARIANTS
  LoopMatchesFile
  ReportCoherent
PROPERTIES
  CancelStopsTrials
  TrialsKeepPromise
  ComparisonsMoveOn
