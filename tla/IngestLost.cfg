SPECIFICATION Spec
CONSTANTS
  Paths = {a}
  LegacyChunks = {}
  LegacyWal <- NoLegacy
  Capacity = 1
  MaxAttempts = 2
  MaxQueuedRetries = 1
  MultiThread = TRUE
  FreshStamps = TRUE
  FatalFaults = FALSE
  LogFaults = FALSE
  MaxChanges = 4
  MaxFaults = 0
  MaxOutages = 0
INVARIANT NoLostWork
CHECK_DEADLOCK FALSE
