SPECIFICATION Spec
CONSTANTS
  a = a
  b = b
  c = c
  k1 = k1
  k2 = k2
  v1 = v1
  v2 = v2
  v3 = v3
  None = None
  Garbage = Garbage
  Stamp = Stamp
  Node = {a, b, c}
  Key = {k1, k2}
  Value = {v1, v2, v3}
  Bit = {1, 2}
  ContentBits <- Same
  QueryBits <- Apart
  WireValue <- Wire
  Neighbors <- Ring
  ReloadOptions <- ReloadRing
  SeedKeys <- OtherAtBHolderAtC
  RequestKeys <- AskAtA
  RequestTtl = 3
  QueueMax = 1
  Async = TRUE
  SyncCapacity = 1
  MaxKeys = 0
  MaxFill = 0
  AttemptLimit = 1
  Faults = {}
  MaxCrashes = 0
  Injected <- NothingInjected
  Distance <- RingHops
INVARIANTS
  StoredWasAskedFor
  SyncTableTruthful
  TtlBoundsReach
