SPECIFICATION AllSpec
CONSTANTS
  Capacity = 2
  Key = {k1, k2, k3}
  Dest = {o1, o2}
  MaxUpdates = 6
  QueryTtl = 2
  OwnId = {own}
  ForeignId = {foreign}
  MaxCalls = 4
  AttemptLimit = 2
  BroadcastWindow = 2
  Flow = {f1, f2}
  ShortHorizon = 6
  ContentKey = {c1}
  ExchangeEvery = 1
  ContentTtl = 5
  MaxLosses = 1
  MaxDelay = 1
  MaxJitter = 1
  FallbackWindow = 1
  AggregationWindow = 1
  QueryBfTtl = 4
  MaxKeys = 2
  MinFlushEvery = 1
  MinFallbackEvery = 1
  Horizon = 7
  Caller = {t1, t2}
  RedisKey = {r1}
  MaxLength = 1
  MaxCommands = 3
  Limits = {7, 8, 9, 10, 11, 12, 13, 14, 15, 20}
  FilterSizes = {1, 2}
  MaxText = 2
  IntBits = 20
  SizeBits = 26
  MaxBytes = 1048576
  MaxRewrites = 2
SYMMETRY KeySymmetry
INVARIANTS
  PartsTypeOK
  TableWellFormed
  LatestFirst
  TableIsLru
  CountersAgree
  AcceptedApart
  DroppedWasRecent
  ForwardsCapped
  RefusedOnlyAtLimit
  HeldKeyIsFound
  DeadNeighborIsForgotten
  OnePlace
  BroadcastInTime
  LossNeedsIdleBuffer
  ResultIsOwn
  NeverStuck
  DataIsPrefix
  FiltersAreIntact
  EnvironmentDecides
  InvalidIsReported
  TopologyWasGiven
  UncheckedNeedsRewrite
CHECK_DEADLOCK FALSE
