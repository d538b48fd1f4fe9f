SPECIFICATION Spec
CONSTANTS
  N = 2
  Grids = {g1, g2}
  AttemptInterval = 2
  PairOptInterval = 2
  repeat_send_num = 1
  Fresh = 1
  MaxDelay = 1
  Reliable = TRUE
  SolverMayFail = TRUE
  FrontiersEnd = FALSE
  Rediscovery = FALSE
  MaxExplored = 1
  MaxTicks = 3
PROPERTY ConsistentExchange
SYMMETRY GridSymmetry
VIEW RelevantPart
CHECK_DEADLOCK FALSE
