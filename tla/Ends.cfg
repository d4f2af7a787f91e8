SPECIFICATION EndsSpec
CONSTANTS
  Paths = {p, q}
  Uris = {p, q}
  Uri <- OwnUri
  Strategies = {1, 2}
  MaxLength = 3
  MaxChanges = 2
  MaxFaults = 2
  Files = {"a", "b"}
  Dirs = {"root", "d"}
  Contents = {1, 2, 3}
  MaxTreeChanges = 2
  MaxErrors = 1
  MaxOutages = 1
INVARIANTS
  ChainIsDocument
  DeletedLeavesNothing
PROPERTIES
  AgainChangesNothing
  ImplementsWatch
CHECK_DEADLOCK FALSE
