SPECIFICATION Spec
CONSTANTS
  a1 = a1
  a2 = a2
  a3 = a3
  j1 = j1
  j2 = j2
  NoAttempt = NoAttempt
  Attempts <- TwoAttempts
  Jobs = {j1, j2}
  JobOf <- TwoJobs
  RuntimeOf <- OllamaFirst
  Tokenless = {a1}
  LegacyOutbox = {a1}
  MaxJournalAttempts = 2
  MaxDeferred = 1
  MaxTombstones = 1
  CancelKeys = {j1, a2}
  StoreMayFail = FALSE
  OutboxMayFail = TRUE
INVARIANTS
  PromisedNeverRuns
  NoZombie
