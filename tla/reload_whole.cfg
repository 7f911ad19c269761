CONSTANTS
  Keys = {1, 2, 3, 4, 5, 6, 7}
  Values = {"tail", "big"}
  Bytes = {"c1", "c2"}
  None = None
  Cdc <- SharedChunks
  Configs <- Pairs
  Scripts <- Exported
  MaxLost = 0
  Touched = {1, 3, 4, 7}
  MaxCalls = 3
SPECIFICATION ReloadSpec
INVARIANTS DeleteAnswers
CHECK_DEADLOCK FALSE
