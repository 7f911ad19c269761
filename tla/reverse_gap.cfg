CONSTANTS
  Keys = {1, 2, 3, 4, 5, 6, 7}
  Values = {"tail", "big"}
  Bytes = {"c1", "c2"}
  None = None
  Cdc <- SharedChunks
  Configs <- Pairs
  Scripts <- Gapped
  Bounds = {0, 2, 3, 5, 6, 7, 8}
  Offsets = {0, 1, 2, 3, 4}
SPECIFICATION SingleSpec
INVARIANTS ReverseMirrors
