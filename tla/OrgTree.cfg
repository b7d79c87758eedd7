SPECIFICATION Spec
CONSTANTS
  c1 = c1
  c2 = c2
  w1 = w1
  w2 = w2
  r1 = r1
  r2 = r2
  r3 = r3
  NoRequest = NoRequest
  Workers = {w1, w2}
  Companies = {c1, c2}
  Requests = {r1, r2, r3}
  Loads <- ThreeLoads
  Failures = {"mysql", "redis", "web"}
  MaxCrashes = 1
INVARIANTS
  RedisCurrent
  WebCurrent
  NobodysHeader
  NotifiedOfStored
SYMMETRY WorkerSymmetry
