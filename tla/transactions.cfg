CONSTANTS
  Writers = {w1, w2}
  Readers = {r1}
  Conns = {k1, k2}
  NoConn = NoConn
  MaxAttempts = 3
  Faults <- AllOfThem
SPECIFICATION FairSpec
INVARIANTS
  TypeOK
  AttemptsStartClean
  CallsInv
PROPERTIES
  ImplementsAtomicCalls
  CallsEnd
CHECK_DEADLOCK FALSE
