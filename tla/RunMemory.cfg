SPECIFICATION MCSpec
CONSTANTS
  Services = {"memory"}
  Threads = {c1, c2}
  Requests <- MCRequests
  ImageKeySet = TRUE
  Cap = 2
  Estimates = {1, 2}
  Hour = 2
  Delay = 1
  MaxTime = 4
  Runs = {r1, r2}
  Desks = {d1}
  Profiles <- MCProfiles
  Archetypes = {"portfolio"}
  Authored = {"immersive_identity_experience"}
  Earlier = {0, 7}
  MaxAge = 3
  Fade <- MCFade
  MaxPlans = 1
  Tables = {"checkpoint", "role_invocation", "graph_run_event", "build_spec",
            "build_candidate", "evaluation_report", "staging_snapshot",
            "publication_snapshot", "staging_checkpoint", "identity_source",
            "page_visit_log", "identity_profile", "working_staging",
            "cross_run_memory", "graph_run"}
  Clients = {c1, c2}
  Owners = {o1, o2}
  IdentityOwners = {o1}
  Limit = 1
  MaxAttempts = 2
  MaxBumps = 2
  MaxRecords <- MCMaxRecords
  MaxVersions = 2
  None = None
SYMMETRY MCSymmetry
INVARIANTS
  UnreviewedNeverSteers
PROPERTIES
  OperatorIsHeard
CHECK_DEADLOCK FALSE
