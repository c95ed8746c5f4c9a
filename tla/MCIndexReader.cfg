SPECIFICATION ReadSpec
CONSTANTS
  f1 = f1
  f2 = f2
  v1 = v1
  v2 = v2
  t1 = t1
  Absent = Absent
  Missing = Missing
  Torn = Torn
  Whole = Whole
  Watcher = Watcher
  Files <- MCFiles
  Contents <- MCContents
  OtherDocs = 7
  Tools <- MCTool
  MaxEdits = 1
SYMMETRY MCSymmetry
INVARIANTS
  FoundWasThere
PROPERTIES
  FinishedJobIsVisible
  BuildRecovers
CHECK_DEADLOCK FALSE
