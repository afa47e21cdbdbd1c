SPECIFICATION PoolFairSpec
CONSTANTS
  c1 = c1
  c2 = c2
  s1 = s1
  s2 = s2
  s3 = s3
  Conns = {c1, c2}
  Sessions = {s1, s2, s3}
  NoConn = noconn
  NoSession = nosession
  MaxViews = 2
  MaxDials = 2
CHECK_DEADLOCK FALSE
INVARIANTS
  NothingLost
PROPERTIES
  IdleIsClosed
