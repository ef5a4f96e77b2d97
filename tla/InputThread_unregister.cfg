CONSTANTS
  Devices <- TwoDevices
  Fds <- OneFd
  Entries <- TwoEntries
  Room = 3
  Chunk = 2
  MaxHotplugs = 2
SPECIFICATION Spec
INVARIANTS
  UnregisteredIsRemoved
CHECK_DEADLOCK FALSE
