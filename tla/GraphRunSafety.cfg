CONSTANTS
  Runs = {r1, r2}
  Threads = {t1}
  Procs = {p1, p2}
  NoRun = NoRun
  NoThread = NoThread
  NoProc = NoProc
  UniqueIndex = TRUE
  MaxIterations = 1
  MaxCrashes = 1
  Faults = TRUE
SPECIFICATION Spec
SYMMETRY Symmetry
INVARIANTS
  TypeOK
  OneExecutorPerThread
PROPERTIES
  InterruptIsSticky
  TableSpec
