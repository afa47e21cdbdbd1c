SPECIFICATION FairSpec
CONSTANTS
  a = a
  b = b
  c = c
  sa = sa
  sb = sb
  sc = sc
  sd = sd
  ta = ta
  tb = tb
  tc = tc
  td = td
  free = free
  Old = old
  Alien = alien
  Partial = partial
  Folder = folder
  Nothing = nothing
  NoPath = nopath
  Files = {a, b, c}
  Paths = {sa, sb, sc, sd, ta, tb, tc, td, free}
  Items <- MCItems
  Src <- MCSrc
  Dst <- MCDst
  Worlds <- MCWorlds
  Names <- MCNames
  Foreign <- MCForeign
  Vias = {"samedisk", "cloud", "sftp", "fish"}
INVARIANTS
  NothingLostUnasked
  Settled
PROPERTIES
  OthersFilesStay
  WholeItemsMove
  UncertainIsNotRetried
  CancelEnds
