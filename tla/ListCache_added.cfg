SPECIFICATION Spec
CONSTANTS
  team = team
  u1 = u1
  u2 = u2
  f1 = f1
  f2 = f2
  c1 = c1
  w1 = w1
  w2 = w2
  Workers = {w1}
  Groups = {team}
  Users = {u1, u2, f1, f2, c1}
  Cards = {c1}
  Requests = {1, 2, 3, 4, 5, 6, 7, 8, 9, 10, 11, 12}
  NoRequest = NoRequest
  Ask <- Asks
  Batches <- AddAlone
  Failures = {"mysql"}
  MaxCrashes = 0
INVARIANTS
  AddedIdsWereAdded
CHECK_DEADLOCK FALSE
