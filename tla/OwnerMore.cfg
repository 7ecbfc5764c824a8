SPECIFICATION Spec
CONSTANTS
  Parts = {"schedule", "config", "gui"}
  m1 = m1
  m2 = m2
  p1 = p1
  p2 = p2
  w1 = w1
  w2 = w2
  HoursPerDay = 3
  WeekDays = 3
  NoDay = NoDay
  NoLabel = NoLabel
  Requests <- OwnerRequests
  MaxWindows = 2
  None = None
  NoFile = NoFile
  Procs = {p1}
  Machines = {m1, m2}
  FreeOf = {}
  Pools = {"pool"}
  Edits = {"pause", "resume", "schedule"}
  Overlap = FALSE
  MayBatch = TRUE
  Cleanups = {"config", "cache"}
  Faults = {"lost", "save", "crash", "journal", "restore"}
  MaxJournals = 2
  NoApp = NoApp
  Workers = {w1, w2}
INVARIANTS
  PauseIsKept
  LostJournalIsRefused
  OutputIsSwappedOnce
  ConfigTypeOK
  ScheduleTypeOK
  GuiTypeOK
PROPERTIES
  OtherMachineIsKept
  OtherCommandsKeepHours
CHECK_DEADLOCK FALSE
