SPECIFICATION OpSpec
CONSTANTS
  Paths = {a}
  LegacyChunks = {}
  LegacyWal <- NoLegacy
  Capacity = 1
  MaxAttempts = 1
  MaxQueuedRetries = 0
  MultiThread = FALSE
  FreshStamps = TRUE
  FatalFaults = FALSE
  LogFaults = FALSE
  MaxChanges = 4
  MaxFaults = 1
  MaxOutages = 2
  MaxCommands = 2
INVARIANTS
  InSyncAfterCommands
PROPERTIES
  RequeuedIsReplayed
  IdsAreUnique
CHECK_DEADLOCK FALSE
CONSTRAINT
  Histories
