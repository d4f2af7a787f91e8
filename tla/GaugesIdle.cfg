SPECIFICATION GaugesSpec
CONSTANTS
  Paths = {a}
  LegacyChunks = {}
  LegacyWal <- NoLegacy
  Capacity = 1
  MaxAttempts = 1
  MaxQueuedRetries = 1
  MultiThread = TRUE
  FreshStamps = TRUE
  FatalFaults = FALSE
  LogFaults = FALSE
  MaxChanges = 1
  MaxFaults = 0
  MaxOutages = 0
PROPERTIES
  IdleIsReported
CHECK_DEADLOCK FALSE
