SPECIFICATION Spec
CONSTANTS
  Paths = {a}
  LegacyChunks = {}
  LegacyWal <- NoLegacy
  Capacity = 1
  MaxAttempts = 2
  MaxQueuedRetries = 1
  MultiThread = FALSE
  FreshStamps = TRUE
  FatalFaults = FALSE
  LogFaults = FALSE
  MaxChanges = 4
  MaxFaults = 1
  MaxOutages = 2
INVARIANTS
  TypeOK
  NoLostUpdate
  NoLostWork
  GivenUpLast
  PlannedOnce
PROPERTIES
  AckMeansApplied
  SafeSync
CHECK_DEADLOCK FALSE
