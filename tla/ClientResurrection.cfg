SPECIFICATION Spec
CONSTANTS
  a1 = a1
  a2 = a2
  a3 = a3
  j1 = j1
  j2 = j2
  NoAttempt = NoAttempt
  Attempts <- TwoAttempts
  Jobs = {j1}
  JobOf <- OneJob
  RuntimeOf <- AllDocker
  Tokenless = {}
  LegacyOutbox = {}
  MaxJournalAttempts = 2
  MaxDeferred = 1
  MaxTombstones = 2
  CancelKeys = {}
  StoreMayFail = FALSE
  OutboxMayFail = FALSE
PROPERTY
  NoResurrection
