CONSTANTS
  TPs = {p1}
  NoTP = NoTP
  Tasks = {t1}
  MaxLog = 3
  MaxIds = 4
  BatchSize = 2
  HostRules <- Disciplined
  Env <- Regressing
SPECIFICATION Spec
INVARIANT ReadyAtLogEnd
PROPERTY CheckpointFallsOnlyAfterRegression
