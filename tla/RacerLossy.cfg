SPECIFICATION Spec
CONSTANTS
  N = 2
  Grids = {g1}
  AttemptInterval = 1
  PairOptInterval = 1
  repeat_send_num = 2
  Fresh = 1
  MaxDelay = 1
  Reliable = FALSE
  SolverMayFail = TRUE
  FrontiersEnd = TRUE
  Rediscovery = TRUE
  MaxExplored = 1
  MaxTicks = 1
INVARIANTS TypeOK OneAnswer
PROPERTY AppliedByBoth
VIEW RelevantPart
CHECK_DEADLOCK FALSE
