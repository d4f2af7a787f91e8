SPECIFICATION Spec
CONSTANTS
  Contents <- SmallContents
  Broken = "broken"
  Unreadable = Unreadable
  Pinned <- PinnedAttempts
  Endpoint = TRUE
  MaxEdits = 2
INVARIANTS
  LastGoodActive
  ReloadNeverEnds
  ReadyIsServing
  CleanExit
PROPERTIES
  NeverReadyAgain
  FollowsFile
  ShutdownEnds
CHECK_DEADLOCK FALSE
