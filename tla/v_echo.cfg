SPECIFICATION Spec
CONSTANTS
  a = a
  b = b
  c = c
  k1 = k1
  k2 = k2
  v1 = v1
  v2 = v2
  v3 = v3
  None = None
  Garbage = Garbage
  Stamp = Stamp
  Node = {a, b}
  Key = {k1, k2}
  Value = {v1, v2, v3}
  Bit = {1, 2}
  ContentBits <- Same
  QueryBits <- Within
  WireValue <- Wire
  Neighbors <- Pair
  ReloadOptions <- ReloadAtB
  SeedKeys <- OtherAtB
  RequestKeys <- AskAtA
  RequestTtl = 2
  QueueMax = 2
  Async = TRUE
  SyncCapacity = 1
  MaxKeys = 0
  MaxFill = 0
  AttemptLimit = 1
  Faults = {}
  MaxCrashes = 0
  Injected <- NothingInjected
  Distance <- PairHops
PROPERTIES
  NoEchoToSender
