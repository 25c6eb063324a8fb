SPECIFICATION FairSpec
CONSTANTS
  home = home  work = work  muse = muse
  i1 = i1  i2 = i2  w1 = w1  w2 = w2
  None = None
  Identities = {i1, i2}
  Urls <- MCUrls
  Sites = {"acme", "muse"}
  SiteOf <- MCSiteOf
  Score <- MCScore
  Links <- MCLinks
  Rich = {home}
  Roots = {home, work}
  Inspiration = {muse}
  Allowlist = {"muse"}
  Legacy = {i2}
  Workers = {w1, w2}
  MaxVisited = 2
  MaxUnvisited = 1
  MaxSummaries = 2
  MaxExternal = 1
  Batch = 2
  RawCredits = 1
  PagesPerRun = 1
  MinStrong = 1
  Desks <- MCDesks
INVARIANTS
  OutsideWasSeeded
PROPERTIES
  MemoryIsKept
  FrontierDrains
