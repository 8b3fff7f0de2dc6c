SPECIFICATION FairSpec
CONSTANTS
  j1 = j1
  j2 = j2
  c1 = c1
  H = 2
  Jobs <- MCJobs
  Repeating <- MCRepeating
  Stored <- MCStored
  Endless <- MCEndless
  Withheld <- MCWithheld
  Comparisons <- MCComparisons
  Reads = {}
  Notifies = TRUE
  MayFail = {"worker", "notifier", "handler"}
INVARIANTS
  LeaseCovers
  OneLateClaim
  ResultHonest
PROPERTIES
  EndsWhole
  ComparisonServed
  RequestServed
