SPECIFICATION ReuseSpec
CONSTANTS
  a = a
  b = b
  qa = qa
  None = None
  Paths <- MCPaths
  Queries <- MCQueries
  Scope <- MCScope
  Ignored = {}
  Unnamed = {}
  JournalLimit = 1
  MemoryRisk = FALSE
  IoMayFail = TRUE
  OthersIndex = TRUE
  MayRestart = TRUE
  MaxGeneration = 2
  MaxEpoch = 1
  MaxLife = 2
  MaxVersion = 2
INVARIANTS
  ReuseIsSafe
  CompactionEndsReuse
  MemoFollowsEngine
CHECK_DEADLOCK FALSE
