CONSTANTS
  Root = Root
  Screen = Screen
  None = None
  Windows = {w1, w2}
  Fences = {f1}
  Shapes <- FlipShapes
  Capabilities = {"Async"}
  Fields <- AnyField
  Refusals = {"flip"}
  MaxRequests = 3
  MaxMSC = 2
SPECIFICATION Spec
INVARIANTS
  TypeOK
  AssertsHold
  QueuedIsAwaited
  BackOnce
  DrawnIsShown
  FlipsCoverTheScreen
PROPERTIES
  NotBeforeItsTime
  CopiedIsNotFlipped
SYMMETRY WindowSymmetry
CHECK_DEADLOCK FALSE
