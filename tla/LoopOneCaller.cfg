CONSTANTS
  Workers = {w1}
  Operators = {o1}
  d1 = d1
  d2 = d2
  InitialDirections <- MCInitialDirections
  Interrupts = {u1}
  Scores = {0, 1}
  None = None
  Unscored = Unscored
  Threshold = 1
  MaxIterations = 2
  MaxFailures = 2
  FailureBound = 2
  MaxCrashes = 1
  MaxOverruns = 1
SPECIFICATION FairSpec
CHECK_DEADLOCK FALSE
PROPERTIES
  NothingLost
  PauseHolds
  LoopSettles
