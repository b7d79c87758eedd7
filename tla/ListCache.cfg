SPECIFICATION Spec
CONSTANTS
  team = team
  u1 = u1
  u2 = u2
  f1 = f1
  f2 = f2
  c1 = c1
  w1 = w1
  w2 = w2
  Workers = {w1, w2}
  Groups = {team}
  Users = {u1, u2, f1, f2, c1}
  Cards = {c1}
  Requests = {1, 2, 3, 4, 5, 6, 7, 8, 9, 10, 11, 12}
  NoRequest = NoRequest
  Ask <- Asks
  Batches <- Together
  Failures = {"mysql", "redis"}
  MaxCrashes = 1
INVARIANTS
  CacheCurrent
  AnsweredListsCurrent
PROPERTIES
  OnlyOverlapsGoBack
SYMMETRY WorkerSymmetry
CHECK_DEADLOCK FALSE
