SPECIFICATION Spec
CONSTANTS
  Msgs <- OneMsg
  Whole = FALSE
  MaxConns = 1
  Lengths = {0}
INVARIANT Framed
CHECK_DEADLOCK FALSE
