--------------------------- MODULE MCOfflineMessages -------------------------
(* OfflineMessages for TLC: two messages to bob, two notices that recall    *)
(* the first, two counts, and a message to a group.                         *)
EXTENDS OfflineMessages, TLC

CONSTANTS m1, m2, n1, n2, t, ann, bob, team, w1, w2

MailFrom == [m \in {m1, m2, n1, n2, t} |-> ann]
MailTo == [m \in {m1, m2, n1, n2, t} |-> IF m = t THEN team ELSE bob]

Request(op, id, of) == [op |-> op, id |-> id, of |-> of, user |-> bob]

MailAsk == <<Request("offline", m1, m1), Request("offline", m2, m2), Request("recall", n1, m1),
             Request("count", m1, m1), Request("count", m1, m1),
             Request("online", t, t), Request("recall", n2, m1)>>

WorkerSymmetry == Permutations(Workers)
=============================================================================
