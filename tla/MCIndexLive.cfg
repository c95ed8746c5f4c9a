SPECIFICATION FairSpec
CONSTANTS
  f1 = f1
  f2 = f2
  v1 = v1
  v2 = v2
  Absent = Absent
  Missing = Missing
  Torn = Torn
  Whole = Whole
  Watcher = Watcher
  Files <- MCFiles
  Contents <- MCContents
  OtherDocs = 8
  Tools <- MCNoTools
  MaxEdits = 2
PROPERTIES
  EditBecomesSearchable
CHECK_DEADLOCK FALSE
