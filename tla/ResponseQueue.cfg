SPECIFICATION Spec
CONSTANTS
  Answers = {a1, a2, a3}
  NoAnswer = NoAnswer
  Peers = {p1, p2}
  NoPeer = NoPeer
  Size = 3
  Room = 2
INVARIANTS
  NoSleepOnAnswers
PROPERTIES
  AnswersGetSent
  SenderStops
  LaneSafety
CHECK_DEADLOCK FALSE
