CONSTANTS
  Keys = {1, 2}
  Values = {v1}
  Bytes = {}
  None = None
  Cdc <- AllInline
  Configs <- Binary
  Listeners = {l1, l2}
  EffectOf <- TreeEffect
  Batches <- OneBatch
  Scripts <- EmptyOrOneKey
  Lost = {}
  MaxCalls = 3
  MaxSubs = 3
SPECIFICATION EventsSpec
INVARIANTS ListenersKnow OutcomesTell
PROPERTIES EventsFollow
CHECK_DEADLOCK FALSE
