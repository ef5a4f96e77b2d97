CONSTANTS
  Root = Root
  Screen = Screen
  None = None
  Windows = {w1}
  Fences = {f1}
  Shapes <- FenceShapes
  Capabilities = {"Async"}
  Fields <- AnyField
  Refusals = {}
  MaxRequests = 1
  MaxMSC = 1
SPECIFICATION FairSpec
PROPERTIES
  TriggerFenceReturns
CHECK_DEADLOCK FALSE
