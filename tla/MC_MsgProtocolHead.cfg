SPECIFICATION Spec
CONSTANTS
  Msgs <- OneMsg
  Whole = FALSE
  MaxConns = 1
  Lengths = {0}
INVARIANT NeverRejected
CHECK_DEADLOCK FALSE
