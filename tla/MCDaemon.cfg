SPECIFICATION FairSpec
CONSTANTS
  c1 = c1
  c2 = c2
  Missing = Missing
  MaxDaemons = 2
  Clients <- MCClients
  Starters <- MCStarters
  MaxFaults = 1
INVARIANTS
  TypeOK
  FoundWhileAlone
PROPERTIES
  EveryCallEnds
  AskedDaemonStops
CHECK_DEADLOCK FALSE
