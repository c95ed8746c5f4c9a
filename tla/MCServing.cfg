SPECIFICATION ServeFairSpec
CONSTANTS
  r1 = r1
  r2 = r2
  c1 = c1
  NoRoot = NoRoot
  Roots <- MCRoots
  CommandLines <- MCCommandLines
  MaxEngines = 1
  MaxTouches = 2
  MaxCalls = 2
  MaxMishaps = 1
INVARIANTS
  StoreKeepsAll
PROPERTIES
  PoolKeepsLatest
  TouchesReachDisk
CHECK_DEADLOCK FALSE
