CONSTANTS
  TPs = {p1}
  NoTP = NoTP
  Tasks = {t1}
  MaxLog = 3
  MaxIds = 4
  BatchSize = 2
  HostRules <- Disciplined
  Env <- Lossy
SPECIFICATION Spec
INVARIANTS
  TypeOK
  IInv
  CheckpointHonest
  ReadyComplete
  RowsFromChangelog
  HiddenUntilReplayed
  ReadyAtLogEnd
  CheckpointIsLive
PROPERTY KeepsPromise
