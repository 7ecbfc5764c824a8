SPECIFICATION Spec
CONSTANTS
  Parts = {"gui"}
  m1 = m1
  m2 = m2
  p1 = p1
  p2 = p2
  w1 = w1
  w2 = w2
  HoursPerDay = 3
  WeekDays = 3
  NoDay = NoDay
  NoLabel = NoLabel
  Requests <- OwnerRequests
  MaxWindows = 1
  None = None
  NoFile = NoFile
  Procs = {p1}
  Machines = {m1}
  FreeOf = {}
  Pools = {"pool"}
  Edits = {}
  Overlap = FALSE
  MayBatch = FALSE
  Cleanups = {}
  Faults = {}
  MaxJournals = 1
  NoApp = NoApp
  Workers = {w1}
PROPERTIES
  RefusedForAnAgent
CHECK_DEADLOCK FALSE
