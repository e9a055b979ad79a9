SPECIFICATION FairSpec
CONSTANTS
  Objs = {o1}
  Conns = {c1}
  NoConn = NoConn
  Listeners = {x1}
  MaxLinks = 2
  MaxWrites = 2
  MaxInits = 1
PROPERTIES LinkFreed ReleaseReturns
CHECK_DEADLOCK FALSE
