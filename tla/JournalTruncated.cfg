SPECIFICATION Spec
CONSTANTS
  SyncsDirectory = TRUE
  EntryDurable = TRUE
  MaxAppends = 4
  MaxBreaks = 3
PROPERTIES
  TruncationIsFound
CHECK_DEADLOCK FALSE
