CONSTANTS
  Keys = {1, 2, 3, 4, 5}
  Values = {"tail", "big"}
  Bytes = {"c1", "c2"}
  None = None
  Cdc <- SharedChunks
  Configs <- Binary
  Scripts <- Gapped
  MaxEdits = 2
SPECIFICATION ReadersSpec
INVARIANTS CursorFaithful CursorKept NamedIsKept PagesFit
