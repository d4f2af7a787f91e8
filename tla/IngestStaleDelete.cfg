SPECIFICATION Spec
CONSTANTS
  Paths = {a}
  LegacyChunks = {}
  LegacyWal <- NoLegacy
  Capacity = 1
  MaxAttempts = 2
  MaxQueuedRetries = 1
  MultiThread = FALSE
  FreshStamps = TRUE
  FatalFaults = TRUE
  LogFaults = FALSE
  MaxChanges = 4
  MaxFaults = 1
  MaxOutages = 1
PROPERTY DeleteIsLatest
CHECK_DEADLOCK FALSE
