CONSTANTS
  Keys = {1, 2, 3}
  Values = {"tail", "big"}
  Bytes = {"c1", "c2"}
  None = None
  Cdc <- SharedChunks
  Configs <- Binary
  Scripts <- EmptyOrTwoKeys
  MaxCalls = 4
SPECIFICATION VersionsSpec
INVARIANTS TypeOK StoreClosed StoreBalanced EntriesExact StoreOrdered NothingMissing Inductive KeepingOrder KeepingSize StoreCounted KeepingMap Rewriting
PROPERTIES GcExact ImplementsVersions CallsReturn
CHECK_DEADLOCK FALSE
