SPECIFICATION Spec
CONSTANTS
  Page = Page
  Paths = {Page, script}
  Drafts <- MCDrafts
  Policies = {"on_nomination"}
  Operators = {op1, op2}
  Desks = {1, 2}
  MaxIssues = 1
  PatchLimit = 1
  StagnationLimit = 1
  IssueLimit = 0
  ForcedPatchLimit = 2
  ForcedStagnationLimit = 2
  MilestoneEvery = 3
  MaxRuns = 2
  MaxRequests = 4
  MaxAttempts = 2
  None = None
INVARIANTS
  ReferencesResolve
  FrozenIsPublished
  NoFailedReviewPublished
PROPERTIES
  RebuildLosesNothing
  PublicationIsCanon
SYMMETRY MCSymmetry
CHECK_DEADLOCK FALSE
