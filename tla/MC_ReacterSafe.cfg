SPECIFICATION Spec
CONSTANTS
  Objs = {o1, o2}
  Conns = {c1}
  NoConn = NoConn
  Listeners = {x1}
  MaxLinks = 3
  MaxWrites = 1
  MaxInits = 2
INVARIANTS NoDangling EventLegal ConnectAnsweredOnce
PROPERTY ReleaseComplete
SYMMETRY ObjSymmetry
CHECK_DEADLOCK FALSE
