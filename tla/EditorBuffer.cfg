SPECIFICATION CalmSpec
CONSTANTS
  Opened <- MCOpened
  Environs <- MCEnvirons
  MaxEdits = 2
  MaxSaves = 2
  MaxUndo = 1
INVARIANTS
  ShowsTheEdits
  CleanIsSaved
  TextIsSomewhere
CHECK_DEADLOCK FALSE
