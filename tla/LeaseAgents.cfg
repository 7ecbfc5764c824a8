SPECIFICATION Spec
CONSTANTS
  Parts = {"lease"}
  g1 = g1
  g2 = g2
  g3 = g3
  a = a
  b = b
  j1 = j1
  j2 = j2
  f1 = f1
  f2 = f2
  f3 = f3
  a1 = a1
  a2 = a2
  d1 = d1
  d2 = d2
  i1 = i1
  i2 = i2
  m1 = m1
  m2 = m2
  Gpus = {g1, g2}
  Agents = {a, b}
  Home <- EachItsAgent
  Nobody = Nobody
  MaxCrashes = 1
  Indices <- TwoGpus
  NoRoot = NoRoot
  NoGpu = NoGpu
  MaxOwners = 0
  MaxLosses = 0
  Jobs = {j1}
  Files = {f1, f2, f3}
  Wants <- OneJob
  Size <- Sizes
  Ttl = 1
  Budget = 2
  NoJob = NoJob
  MaxTime = 0
  MaxRots = 0
  MaxKills = 0
  Attempts = {a1}
  Names = {a1, a2}
  Daemons = {d1}
  Images = {i1}
  Models = {}
  UserImages = {}
  UserModels = {}
  Commands <- NoCommand
  NoDaemon = NoDaemon
  MaxBoxes = 0
  MaxSwitches = 0
  MaxPulls = 0
INVARIANTS
  NativeRunsAloneOnMachine
CHECK_DEADLOCK FALSE
