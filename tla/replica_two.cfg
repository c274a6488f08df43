CONSTANTS
  TPs = {p1, p2}
  NoTP = NoTP
  Tasks = {t1}
  MaxLog = 2
  MaxIds = 0
  BatchSize = 2
  HostRules <- Disciplined
  Env <- Rebalancing
SPECIFICATION FairSpec
INVARIANT HeldIsVisible
PROPERTIES
  AssignReveals
  RevokeHides
  AssignEnds
