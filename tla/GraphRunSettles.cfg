CONSTANTS
  Runs = {r1, r2}
  Threads = {t1}
  Procs = {p1, p2}
  NoRun = NoRun
  NoThread = NoThread
  NoProc = NoProc
  UniqueIndex = TRUE
  MaxIterations = 0
  MaxCrashes = 0
  Faults = FALSE
SPECIFICATION FairSpec
INVARIANTS
  LiveRowHasExecutor
PROPERTIES
  AcceptedRunSettles
