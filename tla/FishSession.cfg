SPECIFICATION FairSpec
CONSTANTS
  save = save
  read = read
  ping = ping
  Requests <- MCRequests
  Kind <- MCKind
  Answers <- MCAnswers
  Free = free
  Debris = debris
INVARIANTS
  InStep
PROPERTIES
  
  EveryCallReturns
CHECK_DEADLOCK FALSE
