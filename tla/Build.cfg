SPECIFICATION MCSpec
CONSTANTS
  Configurations <- MCConfigurations
  Candidates <- MCCandidates
  RawIssues <- MCRawIssues
  home = home
  about = about
  Paths = {home, about}
  Ids = {"main", "hero", "nav", "foot"}
  Wordings = {"old", "new"}
  Builds <- MCBuilds
  Earlier <- MCEarlier
  MaxStaged = 1
CHECK_DEADLOCK FALSE
INVARIANTS
  WorkIsShown
  RestIsKept
  DowngradeIsActionable
PROPERTIES
  NeverUpgraded
