SPECIFICATION CalmSpec
CONSTANTS
  Opened <- MCOpened
  Environs <- MCUnix
  MaxEdits = 2
  MaxSaves = 1
  MaxUndo = 1
INVARIANT HistoryReads
CHECK_DEADLOCK FALSE
