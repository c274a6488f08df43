SPECIFICATION Spec
CONSTANTS
  c1 = c1
  c2 = c2
  c3 = c3
  c4 = c4
  c5 = c5
  c6 = c6
  NoCall = NoCall
  Calls <- SixCalls
  HostRules <- OneStartOnly
SYMMETRY CallSymmetry
CHECK_DEADLOCK FALSE
INVARIANTS AppendsKeepTheirClients DrainInv
PROPERTY PhaseMovesOn
