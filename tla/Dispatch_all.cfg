CONSTANTS
  LimitClients = 3
  MaskBits = 2
  Requests <- WakefulRequests
  Faults = {"hangup", "output", "straggler", "signal"}
  Terminate = TRUE
  TerminateDelay = TRUE
SPECIFICATION Spec
INVARIANTS
  TypeOK
  GoneIsUnreachable
  GrabHasHolder
  CachesAreTrue
