SPECIFICATION CalmSpec
CONSTANTS
  disk = disk
  home = home
  site = site
  None = none
  Dirs <- MCDirs
  Local <- MCLocal
  Up <- MCUp
  Home = home
  MaxChunks = 1
  MaxActs = 3
INVARIANTS
  SettledIsNewest
  OneRemoteRead
  MadeIsOwned
PROPERTIES
  LoadingEnds
