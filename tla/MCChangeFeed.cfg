SPECIFICATION Spec
CONSTANTS
  a = a
  b = b
  ign = ign
  root = root
  Paths <- MCPaths
  Ignored <- MCIgnored
  Unnamed <- MCUnnamed
  JournalLimit = 2
  MemoryRisk = FALSE
  IoMayFail = TRUE
  OthersIndex = TRUE
  MayRestart = TRUE
  MaxGeneration = 3
  MaxEpoch = 1
  MaxLife = 3
SYMMETRY Symmetry
INVARIANTS
  UnchangedIsTrue
  ChangedHasCause
CHECK_DEADLOCK FALSE
