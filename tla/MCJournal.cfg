SPECIFICATION Spec
CONSTANTS
  p1 = p1
  p2 = p2
  i1 = i1
  i2 = i2
  m1 = m1
  m2 = m2
  Procs <- MCProcs
  Sessions <- MCSessions
  Memories <- MCMemories
  DefaultMemory <- MCDefaultMemory
  Directories <- MCDirectories
  RunIds <- MCRunIds
  Results = {"completed"}
  MaxEvents = 1
  MaxLogs = 1
SYMMETRY Symmetry
INVARIANTS
  CurrentLeftAlone
  FilesAgree
PROPERTIES
  NothingForgotten
