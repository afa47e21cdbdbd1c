SPECIFICATION FairSpec
CONSTANTS
  root = root
  full = full
  f1 = f1
  f2 = f2
  f3 = f3
  w1 = w1
  w2 = w2
  Walker = walker
  Root = root
  Dirs <- MCDirs
  Files <- MCFiles
  Workers <- MCWorkers
  Parent <- MCParent
  FileDir <- MCFileDir
  Taken <- MCTaken
INVARIANTS
  FinishIsLast
  WaitIsTruthful
  WorkersApart
PROPERTIES
  CopyEnds
CHECK_DEADLOCK FALSE
