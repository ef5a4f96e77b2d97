CONSTANTS
  LimitClients = 3
  MaskBits = 2
  Requests <- SleepRequests
  Faults = {"hangup", "output"}
  Terminate = FALSE
  TerminateDelay = FALSE
SPECIFICATION FairSpec
PROPERTIES
  InputIsServed
  DoomedIsClosed
