SPECIFICATION FairSpec
CONSTANTS
  SendCap = 2
  OutCap = 1
  Requests = 2
  InboxCap = 1
INVARIANTS
  NothingBeforeAck
PROPERTIES
  LossIsNoticed
  StopEnds
  ClosedHoursDisconnect
  CleanupIsAnswered
CHECK_DEADLOCK FALSE
