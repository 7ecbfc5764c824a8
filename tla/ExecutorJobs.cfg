SPECIFICATION FairSpec
CONSTANTS
  a1 = a1
  a2 = a2
  j1 = j1
  j2 = j2
  NoAttempt = NoAttempt
  Attempts <- MCAttempts
  Jobs = {j1, j2}
  JobOf <- TwoJobs
  RuntimeOf <- WorkspaceAndOllama
  Cancellers = {c1}
  MaxJournalAttempts = 2
  StoreMayFail = FALSE
INVARIANTS
  OneReservation
PROPERTIES
  OnlyWritesFence
  StartedGetsResult
  RestoreCompletes
