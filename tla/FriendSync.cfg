SPECIFICATION MCSpec
CONSTANTS
  a = a
  b = b
  c = c
  d = d
  w1 = w1
  w2 = w2
  Workers = {w1, w2}
  Users = {a, b, c, d}
  Requests = {1, 2, 3, 4, 5, 6, 7, 8}
  NoRequest = NoRequest
  Ask <- AllAsk
  Batches <- FiveBatches
  MaxTime = 2
  Failures = {"mysql"}
  MaxCrashes = 1
  Readers = {a}
  Shard <- TwoShards
  Page = 1
  OldCards <- SomeCards
PROPERTIES
  ClientsCatchUp
INVARIANTS
  MutualFriends
  RequestStoredOnce
  ClientsTold
CHECK_DEADLOCK FALSE
