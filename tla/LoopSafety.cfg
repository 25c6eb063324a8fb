CONSTANTS
  Workers = {w1, w2}
  Operators = {}
  d1 = d1
  d2 = d2
  InitialDirections <- MCInitialDirections
  Interrupts = {}
  Scores = {1}
  None = None
  Unscored = Unscored
  Threshold = 1
  MaxIterations = 2
  MaxFailures = 2
  FailureBound = 2
  MaxCrashes = 1
  MaxOverruns = 1
SPECIFICATION Spec
SYMMETRY Symmetry
CHECK_DEADLOCK FALSE
INVARIANTS
  WithinBudget
  OneTickAtATime
