SPECIFICATION Spec
CONSTANTS
  SyncsDirectory = TRUE
  EntryDurable = TRUE
  MaxAppends = 4
  MaxBreaks = 3
INVARIANTS
  NoSilentLoss
CHECK_DEADLOCK FALSE
