CONSTANTS
  Keys = {1, 2, 3, 4}
  Values = {v1}
  Bytes = {}
  None = None
  Cdc <- AllInline
  Configs <- Binary
  Listeners = {l1}
  EffectOf <- TreeEffect
  Batches <- SpanningBatch
  Scripts <- TwoLeaves
  Lost = {2}
  MaxCalls = 2
  MaxSubs = 1
SPECIFICATION EventsSpec
INVARIANTS ListenersKnow
CHECK_DEADLOCK FALSE
