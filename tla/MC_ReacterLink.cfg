SPECIFICATION Spec
CONSTANTS
  Objs = {o1}
  Conns = {c1}
  NoConn = NoConn
  Listeners = {}
  MaxLinks = 1
  MaxWrites = 1
  MaxInits = 1
INVARIANT LinkClosedOnce
CHECK_DEADLOCK FALSE
