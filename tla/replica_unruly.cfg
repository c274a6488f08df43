CONSTANTS
  TPs = {p1}
  NoTP = NoTP
  Tasks = {t1, t2}
  MaxLog = 3
  MaxIds = 3
  BatchSize = 2
  HostRules <- Unruly
  Env <- Busy
SPECIFICATION Spec
INVARIANTS
  OneRowPerMessage
  MemoryNeverAhead
PROPERTY CheckpointFallsOnlyAfterRegression
SYMMETRY Symmetric
