CONSTANTS
  Keys = {1, 2}
  Values = {v1}
  Bytes = {}
  None = None
  Cdc <- AllInline
  Configs <- Binary
  Listeners = {l1, l2}
  EffectOf <- TreeEffect
  Batches <- OneBatch
  Scripts <- EmptyOrOneKey
  Lost = {}
  MaxCalls = 2
  MaxSubs = 2
SPECIFICATION EventsSpec
PROPERTIES CallsSettle
CHECK_DEADLOCK FALSE
