SPECIFICATION Spec
CONSTANTS
  Paths = {a, b}
  LegacyChunks = {}
  LegacyWal <- NoLegacy
  Capacity = 1
  MaxAttempts = 2
  MaxQueuedRetries = 1
  MultiThread = TRUE
  FreshStamps = TRUE
  FatalFaults = TRUE
  LogFaults = TRUE
  MaxChanges = 3
  MaxFaults = 1
  MaxOutages = 0
SYMMETRY Symmetry
INVARIANTS
  NoLostUpdate
  InOrder
CHECK_DEADLOCK FALSE
