SPECIFICATION FairSpec
CONSTANTS
  d1 = d1
  d2 = d2
  d3 = d3
  d4 = d4
  t1 = t1
  t2 = t2
  t3 = t3
  NoDoc = NoDoc
  Docs <- MCDocs
  Chars <- MCChars
  Lower <- MCLower
  Newline <- MCNewline
  Content <- MCContent
  Requests <- MCRequests
  Threads <- MCThreads
  IoMayFail = TRUE
  Sizes <- MCSizes
  NoStats = NoStats
  Dash <- MCDash
  Refused = Refused
  FlagAnswer <- MCFlagAnswer
INVARIANTS
  LimitKept
  HitsAreMatches
  MissesNothing
  SeedsSuffice
  RoutesAgree
  TruncationIsTold
PROPERTIES
  SearchEnds
CHECK_DEADLOCK FALSE
