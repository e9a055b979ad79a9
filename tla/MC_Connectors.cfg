SPECIFICATION ConnectorsSpec
CONSTANTS
  MaxReq = 3
  MaxPipe = 2
  MaxStarts = 1
  LevelReq = 2
  LevelCasts = 1
  LevelStarts = 2
INVARIANTS OwnAnswers
PROPERTIES BothBridges
