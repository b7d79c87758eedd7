SPECIFICATION Spec
CONSTANTS
  m1 = m1
  m2 = m2
  n1 = n1
  n2 = n2
  t = t
  ann = ann
  bob = bob
  team = team
  w1 = w1
  w2 = w2
  Workers = {w1, w2}
  Ids = {m1, m2, n1, n2, t}
  Users = {ann, bob}
  Groups = {team}
  From <- MailFrom
  To <- MailTo
  Requests = {1, 2, 3, 4, 5, 6, 7}
  NoId = NoId
  NoRequest = NoRequest
  Ask <- MailAsk
  MaxFaults = 1
INVARIANTS
  OfflineHasHistory
  NothingSlips
  RecalledStaysAway
  ToldOnce
SYMMETRY WorkerSymmetry
CHECK_DEADLOCK FALSE
