SPECIFICATION Spec
CONSTANTS
  exe = exe
  lib = lib
  Exe = exe
  Files <- MCFiles
  Archives <- MCArchives
  Workers = 2
  MaxUpdates = 2
INVARIANTS
  ABuildSurvives
  TheRecordIsTrue
CHECK_DEADLOCK FALSE
