CONSTANTS
  Published <- MCPublished
  MaxRuns = 2
  MaxEdits = 1
SPECIFICATION ProgramSpec
INVARIANTS
  DocsMatch
  DocsAgree
CHECK_DEADLOCK FALSE
