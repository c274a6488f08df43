SPECIFICATION FairSpec
CONSTANTS
  c1 = c1
  c2 = c2
  c3 = c3
  c4 = c4
  c5 = c5
  c6 = c6
  NoCall = NoCall
  Calls <- FiveCalls
  HostRules <- AllRules
CHECK_DEADLOCK FALSE
INVARIANTS TypeOK NoClientLost CallsKeepTheirClients StopHasOneWinner
PROPERTY StopCloses
