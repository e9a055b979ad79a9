SPECIFICATION FramingSpec
CONSTANTS
  Bufs <- Bufs3
  Size = 3
  MaxBytes = 7
  MaxMsg = 4
  MaxConns = 2
  Lengths = {0, 3}
  AnyMsgs <- FewMsgs
  WholeMsgs <- ManyMsgs
INVARIANTS DeliversWhole NeverTwice GoodUntilTorn WritesInOrder
CHECK_DEADLOCK FALSE
