SPECIFICATION Spec
CONSTANTS
  a = a
  b = b
  w1 = w1
  w2 = w2
  handoff = handoff
  Main = Main
  NoRef = NoRef
  PackFile = PackFile
  Hosts <- MCHosts
  Works <- MCWorks
  FileOf <- MCFileOf
  Branches <- MCBranches
  PackInRepo = FALSE
  MaxRuns = 4
  MaxFails = 1
INVARIANTS
  NothingLost
  PackHoldsWork
  QuietResume
PROPERTIES
  WorkComesBack
  ResumeArrives
CHECK_DEADLOCK FALSE
SYMMETRY MCSymmetry
