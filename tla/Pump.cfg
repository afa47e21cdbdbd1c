SPECIFICATION PumpFairSpec
CONSTANTS
  Data <- MCData
  Buffer = 2
  Attempts = 3
INVARIANTS
  OnlyTheFile
PROPERTIES
  PumpEnds
