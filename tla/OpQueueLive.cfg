SPECIFICATION LiveSpec
CONSTANTS
  big = big
  small = small
  wide = wide
  mkdir = mkdir
  NoTask = none
  k1 = k1
  k2 = k2
  Tasks <- MCPair
  Keys <- MCKeys
  ResKeys <- MCResKeys
  Paths <- MCPaths
  Preconds <- MCPreconds
  MaxFiles = 2
  MaxBytes = 2
PROPERTIES
  FreeTaskStarts
  CancelSettles
  QuitDrains
  EveryCompletionRuns
