CONSTANTS
  Reporters = {r1, r2}
  MaxUpdates = 2
  Tasks = {t1, t2}
  UI = ui
  MaxNews = 4
SPECIFICATION ViewsFairSpec
INVARIANTS
  OneRun
  WindowIsBounded
PROPERTIES
  ShowsLatest
  WindowShowsLatest
CHECK_DEADLOCK FALSE
