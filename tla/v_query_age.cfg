SPECIFICATION Spec
CONSTANTS
  QueryTtl = 2
  AttemptLimit = 2
  BroadcastWindow = 2
  ExchangeEvery = 1
  ContentTtl = 5
  MaxLosses = 1
  MaxDelay = 1
  MaxJitter = 1
  FallbackWindow = 1
  AggregationWindow = 1
  QueryBfTtl = 4
  MaxKeys = 2
  MinFlushEvery = 1
  MinFallbackEvery = 1
  Horizon = 8
  Key = {k1, k2}
INVARIANT BroadcastIsFresh
CHECK_DEADLOCK FALSE
