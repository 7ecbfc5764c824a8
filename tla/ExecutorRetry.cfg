SPECIFICATION Spec
CONSTANTS
  a1 = a1
  a2 = a2
  j1 = j1
  j2 = j2
  NoAttempt = NoAttempt
  Attempts <- MCAttempts
  Jobs = {j1}
  JobOf <- OneJob
  RuntimeOf <- WorkspaceAndDocker
  Cancellers = {c1}
  MaxJournalAttempts = 2
  StoreMayFail = TRUE
INVARIANTS
  TypeOK
  RunAtMostOnce
  PromisedMeansStopped
  StopVerifiedMeansStopped
  LiveIsReserved
  OneUnresolved
  ReplayableIsSettled
  AlwaysOpenable
PROPERTIES
  AcceptedIsFinal
  CancelTouchesOnlyItsAttempt
  Lifecycle
  CancelledNeverStarts
