CONSTANTS
  MaxIterations = 2
  MaxDepartures = 1
  Settings <- MCSettings
  MaxRawIssues = 1
  MaxStagnation = 3
  NoDirection = NoDirection
SPECIFICATION FairSpec
CHECK_DEADLOCK FALSE
INVARIANTS
  NoDuplicateStaged
  HardFailureNotStaged
PROPERTIES
  GroundingPartialNotRetried
  Terminates
