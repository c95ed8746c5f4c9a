SPECIFICATION FairReuseSpec
CONSTANTS
  a = a
  b = b
  qa = qa
  None = None
  Paths <- MCPaths
  Queries <- MCQueries
  Scope <- MCScope
  Ignored = {}
  Unnamed = {}
  JournalLimit = 1
  MemoryRisk = FALSE
  IoMayFail = FALSE
  OthersIndex = FALSE
  MayRestart = FALSE
  MaxGeneration = 2
  MaxEpoch = 2
  MaxLife = 1
  MaxVersion = 1
PROPERTIES
  EditEndsReuse
CHECK_DEADLOCK FALSE
