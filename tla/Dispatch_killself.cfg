CONSTANTS
  LimitClients = 3
  MaskBits = 2
  Requests <- EndRequests
  Faults = {"hangup"}
  Terminate = FALSE
  TerminateDelay = FALSE
SPECIFICATION Spec
INVARIANTS
  DispatchTouchesLiveClient
