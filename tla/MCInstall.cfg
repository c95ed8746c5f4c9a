SPECIFICATION Spec
CONSTANTS
  mine = mine
  other = other
  Items <- MCItems
  Harnesses <- MCHarnesses
  MaxRuns = 3
  MaxEdits = 2
SYMMETRY MCSymmetry
INVARIANTS
  UsersEntriesStay
  InstallIsComplete
  UninstallIsClean
CHECK_DEADLOCK FALSE
