SPECIFICATION Spec
CONSTANTS
  a = a
  b = b
  c = c
  k1 = k1
  k2 = k2
  v1 = v1
  v2 = v2
  v3 = v3
  None = None
  Garbage = Garbage
  Stamp = Stamp
  Node = {a, b}
  Key = {k1, k2}
  Value = {v1, v2, v3}
  Bit = {1, 2}
  ContentBits <- Same
  QueryBits <- Apart
  WireValue <- Wire
  Neighbors <- Pair
  ReloadOptions <- NoReload
  SeedKeys <- TwoAtB
  RequestKeys <- AskAtA
  RequestTtl = 2
  QueueMax = 2
  Async = FALSE
  SyncCapacity = 1
  MaxKeys = 0
  MaxFill = 0
  AttemptLimit = 1
  Faults = {"redis"}
  MaxCrashes = 1
  Injected <- Malformed
  Distance <- PairHops
INVARIANTS
  SummariesTruthful
  NotForgotten
  StoredWasAskedFor
