SPECIFICATION FairSpec
CONSTANTS
  Files = {index, script}
  HtmlFile = index
  Answers <- MCAnswers
  MaxAttempts = 2
  MaxIterations = 1
  MaxResumes = 1
  MaxCalls = 4
CHECK_DEADLOCK FALSE
INVARIANTS
  RecordsHaveTheirRows
  HashedBundleIsWhole
PROPERTIES
  FailureIsRecorded
  RunSettles
