SPECIFICATION Spec
CONSTANTS
  a = a
  b = b
  c = c
  k1 = k1
  k2 = k2
  v1 = v1
  v2 = v2
  v3 = v3
  None = None
  Garbage = Garbage
  Stamp = Stamp
  Node = {a, b, c}
  Key = {k1}
  Value = {v1}
  Bit = {1}
  ContentBits <- Single
  QueryBits <- Single
  WireValue <- OneWire
  Neighbors <- Line
  ReloadOptions <- NoReload
  SeedKeys <- SeedAtC
  RequestKeys <- AskAtA
  RequestTtl = 2
  QueueMax = 2
  Async = TRUE
  SyncCapacity = 1
  MaxKeys = 0
  MaxFill = 0
  AttemptLimit = 1
  Faults = {}
  MaxCrashes = 0
  Injected <- NothingInjected
  Distance <- LineHops
INVARIANTS
  QueryAnsweredToOrigin
