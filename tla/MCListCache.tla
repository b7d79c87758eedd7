----------------------------- MODULE MCListCache -----------------------------
(* ListCache for TLC: what the requests ask for, and which come together.   *)
EXTENDS ListCache, TLC

CONSTANTS team, u1, u2, f1, f2, c1, w1, w2

Request(op, us) == [op |-> op, group |-> team, users |-> us]

\* Two users: u1 and u2 are their group lists, f1 and f2 their lists of friends,
\* and c1 is the card of one.
Asks == <<Request("create", <<u1, u2>>), Request("del", <<u2>>), Request("dissolve", <<>>),
          Request("add", <<u1, u2>>), Request("friend", <<f1, f2>>), Request("refresh", <<u1>>),
          Request("quiet", <<team>>), Request("modify", <<>>), Request("profile", <<c1>>),
          Request("friend", <<f2>>), Request("refresh", <<f1>>), Request("refresh", <<c1>>)>>

\* A group is made, loses a member and is dissolved, all at once.  Members join
\* a group while another server asks for a rebuild and an owner changes; the
\* group's list is rebuilt around that.  Users become friends and part, and one
\* changes a card, while another server asks for rebuilds.
Together == {{1, 2, 3}, {4, 6, 7}, {6, 7, 8}, {5, 10, 11}, {7, 9, 12}}

\* The answer to an ADD.
AddAlone == {{4}}

WorkerSymmetry == Permutations(Workers)
=============================================================================
