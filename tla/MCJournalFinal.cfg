SPECIFICATION Spec
CONSTANTS
  p1 = p1
  p2 = p2
  i1 = i1
  i2 = i2
  m1 = m1
  m2 = m2
  Procs <- OneProc
  Sessions <- MCSessions
  Memories <- MCMemories
  DefaultMemory <- MCDefaultMemory
  Directories <- MCDirectories
  RunIds <- OneRun
  Results = {"completed"}
  MaxEvents = 1
  MaxLogs = 1
PROPERTIES
  TerminalStays
