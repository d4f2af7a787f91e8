SPECIFICATION FairSpec
CONSTANTS
  Paths = {a}
  LegacyChunks = {c1}
  LegacyWal <- SomeLegacy
  Capacity = 1
  MaxAttempts = 2
  MaxQueuedRetries = 1
  MultiThread = FALSE
  FreshStamps = TRUE
  FatalFaults = FALSE
  LogFaults = FALSE
  MaxChanges = 3
  MaxFaults = 1
  MaxOutages = 1
PROPERTIES
  Synced
CHECK_DEADLOCK FALSE
