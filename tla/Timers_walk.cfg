CONSTANTS
  Timers = {t1, t2}
  Half = 5
  Delays = {1, 2}
  Slack = 1
  Steps = {2}
  MaxSteps = 1
  MaxLate = 1
  MaxLeft = 3
  MaxDepth = 2
SPECIFICATION FairSpec
INVARIANTS
  TypeOK
  SleepEndsInTime
PROPERTIES
  CallsAreDue
  DueIsCalled
