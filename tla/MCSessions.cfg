SPECIFICATION Spec
CONSTANTS
  s1 = s1
  c1 = c1
  NoSession = NoSession
  Missing = Missing
  Torn = Torn
  Names <- MCNames
  Clients <- MCClients
  MaxEntries = 2
  MaxKills = 1
  MaxCopies = 1
  FlushesOn = FALSE
INVARIANTS
  ToldIsOnDisk
  DiffCountsActions
  ListedIsWhole
PROPERTIES
  KeepsPromise
CHECK_DEADLOCK FALSE
