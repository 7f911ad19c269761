CONSTANTS
  Keys = {1, 2, 3, 4, 5, 6, 7, 8, 9, 10, 11, 12, 13, 14}
  Values = {v1, v2}
  Bytes = {}
  None = None
  Cdc <- AllInline
  Configs = {}
  Uses <- AllUses
SPECIFICATION EditSpec
VIEW Shape
INVARIANTS TreeSearchable TreeCounted KeepingSize
PROPERTIES ImplementsMap SyncAgrees
