SPECIFICATION FairSpec
CONSTANTS
  SendCap = 1
  OutCap = 1
  Requests = 3
  InboxCap = 1
PROPERTIES
  LossIsNoticed
CHECK_DEADLOCK FALSE
