CONSTANTS
  Runs = {r1}
  Threads = {t1}
  Procs = {p1, p2}
  NoRun = NoRun
  NoThread = NoThread
  NoProc = NoProc
  UniqueIndex = TRUE
  MaxIterations = 1
  MaxCrashes = 1
  Faults = TRUE
SPECIFICATION PolledSpec
PROPERTIES
  NoRunActiveForever
