CONSTANTS
  Keys = {1, 2}
  Values = {v1}
  Bytes = {}
  None = None
  Cdc <- AllInline
  Configs <- Binary
  Listeners = {l1}
  EffectOf <- TreeEffect
  Batches <- OneBatch
  Scripts <- EmptyOrOneKey
  Lost = {}
  MaxCalls = 2
  MaxSubs = 0
SPECIFICATION EventsSpec
PROPERTIES SyncThrows
CHECK_DEADLOCK FALSE
