SPECIFICATION Spec
CONSTANTS
  Parts = {"lease", "root", "cache", "boxes"}
  g1 = g1
  g2 = g2
  g3 = g3
  a = a
  b = b
  j1 = j1
  j2 = j2
  f1 = f1
  f2 = f2
  f3 = f3
  a1 = a1
  a2 = a2
  d1 = d1
  d2 = d2
  i1 = i1
  i2 = i2
  m1 = m1
  m2 = m2
  Gpus = {g1, g2, g3}
  Agents = {a, b}
  Home <- LastOfOther
  Nobody = Nobody
  MaxCrashes = 2
  Indices <- TwoGpus
  NoRoot = NoRoot
  NoGpu = NoGpu
  MaxOwners = 3
  MaxLosses = 2
  Jobs = {j1, j2}
  Files = {f1, f2}
  Wants <- SharedFile
  Size <- Sizes
  Ttl = 1
  Budget = 2
  NoJob = NoJob
  MaxTime = 1
  MaxRots = 1
  MaxKills = 1
  Attempts = {a1}
  Names = {a1, a2}
  Daemons = {d1, d2}
  Images = {i1, i2}
  Models = {m1}
  UserImages = {i2}
  UserModels = {}
  Commands <- NoCommand
  NoDaemon = NoDaemon
  MaxBoxes = 2
  MaxSwitches = 1
  MaxPulls = 1
INVARIANTS
  ReservedForAnAttempt
  DownloadsOnce
  LeaseTypeOK
  RootTypeOK
  CacheTypeOK
  BoxesTypeOK
PROPERTIES
  RemovesOnlyPulled
CHECK_DEADLOCK FALSE
