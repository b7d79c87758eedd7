---------------------------- MODULE MCFriendSync -----------------------------
EXTENDS FriendSync, TLC
CONSTANTS a, b, c, d, w1, w2

Request(op, from, to) == [op |-> op, from |-> from, to |-> to]

\* Befriending and parting from both sides, with one friend too many for a page.
AllAsk == <<Request("add", a, b), Request("del", b, a), Request("add", c, a),
            Request("single", a, d),
            Request("ask", b, a), Request("ask", b, a), Request("result", b, a), Request("add", a, b)>>
FiveBatches == {{1, 2}, {1, 3}, {3, 4}, {5, 6, 7}, {1, 2, 8}}

\* The reader's friends are b and c.  One has an old card or a new one, the other's
\* never changes, nor do those of a and d, which nobody reads.
SomeCards ==
  {f \in [Users -> 0 .. MaxTime] :
     f[a] = MaxTime /\ f[d] = MaxTime /\ (f[b] = MaxTime \/ f[c] = MaxTime)}

\* d works for a company of another shard.
TwoShards == [u \in Users |-> IF u = d THEN 1 ELSE 0]

\* Where three requests meet at one pair, no card changes.
MCInit == Init /\ (waiting = {1, 2, 8} => \A v \in Users : card[v] = MaxTime)
MCSpec == MCInit /\ [][Next]_vars /\ Fairness
=============================================================================
