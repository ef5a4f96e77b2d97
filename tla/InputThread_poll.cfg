CONSTANTS
  Devices <- TwoDevices
  Fds <- OneFd
  Entries <- TwoEntries
  Room = 3
  Chunk = 2
  MaxHotplugs = 2
SPECIFICATION FairSpec
INVARIANTS
  TypeOK
  PolledIsListed
  RunningIsEnabled
PROPERTIES
  EnabledIsWatched
  InputIsProcessed
  FiniReturns
CHECK_DEADLOCK FALSE
