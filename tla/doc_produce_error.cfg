CONSTANTS
  TPs = {p1}
  NoTP = NoTP
  Tasks = {t1}
  MaxLog = 3
  MaxIds = 3
  BatchSize = 1
  HostRules <- AppendsAfterProduceError
  Env <- FailingAppends
SPECIFICATION Spec
INVARIANT CheckpointHonest
