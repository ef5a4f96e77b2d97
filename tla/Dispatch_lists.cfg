CONSTANTS
  LimitClients = 4
  MaskBits = 2
  Requests <- WaitRequests
  Faults = {"hangup"}
  Terminate = TRUE
  TerminateDelay = FALSE
SPECIFICATION Spec
INVARIANTS
  SavedAwaitsRelease
  ReadyMayRun
  NoLostInput
  IgnoreIsBalanced
PROPERTIES
  GrabIsExclusive
