----------------------------- MODULE FriendSync ------------------------------
(***************************************************************************)
(* Clients keep lists of their user's friends up to date by asking for     *)
(* what is newer than the update_time they have: get_frequent_chat selects *)
(* the next Page rows of the user's table in the order of update_time and  *)
(* answers the time of the last; the client asks again with it while       *)
(* is_more_data says so.  get_all_user_info selects the cards of the       *)
(* friends by the same times of the friendships, but answers the time of   *)
(* the last card.  Both join with the cards of the table the user's own    *)
(* company is in.                                                          *)
(* Friendship changes the rows meanwhile, with times from the messages,    *)
(* and the friends change their cards.                                     *)
(***************************************************************************)
EXTENDS Friendship

CONSTANTS Readers,        \* the users whose clients synchronise
          Shard,          \* company_id % 8 of each user
          Page,           \* rows in one answer (100)
          OldCards        \* what the times of the cards may be at first

ASSUME SyncAssumption ==
  /\ Readers \subseteq Users /\ Page \in Nat \ {0} /\ DOMAIN Shard = Users
  /\ OldCards \subseteq [Users -> 0 .. MaxTime]

VARIABLES
  card,      \* MySQL: the update_time of each user's card
  list,      \* the client's list: the time it has, what it knows
  cards,     \* its cards: the time it has and whose cards
  missed,    \* history: rows written with a time the client's list, or its
             \* cards, were past, or with no room among others of their time
  leapt      \* history: times of friendships a later card led its cards past

syncVars == <<card, list, cards, missed, leapt>>
vars == <<friendVars, syncVars>>

TypeOK ==
  /\ FriendTypeOK
  /\ card \in [Users -> 0 .. MaxTime] /\ leapt \in [Readers -> SUBSET (0 .. MaxTime)]
  /\ list \in [Readers -> [at : 0 .. MaxTime, has : [Users -> States]]]
  /\ cards \in [Readers -> [at : 0 .. MaxTime, has : SUBSET Users]]
  /\ missed \in [{"list", "cards"} -> SUBSET (Readers \X Users)]

Init ==
  /\ FriendInit
  /\ card \in OldCards /\ leapt = [u \in Readers |-> {}]
  /\ list = [u \in Readers |-> [at |-> 0, has |-> [v \in Users |-> "none"]]]
  /\ cards = [u \in Readers |-> [at |-> 0, has |-> {}]]
  /\ missed = [k \in {"list", "cards"} |-> {}]

-----------------------------------------------------------------------------
Joined(u, v) == Shard[u] = Shard[v]
Time(u, v) == rel[<<u, v>>].time

\* Mutant: the cards are selected by the time of the list.
NewFriends_OfList(u) == {v \in Users : Joined(u, v) /\ IsFriend(u, v) /\ Time(u, v) > list[u].at}

\* The rows the two selects find.
Newer(u) == {v \in Users : Joined(u, v) /\ rel[<<u, v>>].state # "none" /\ Time(u, v) > list[u].at}

NewFriends(u) == {v \in Users : Joined(u, v) /\ IsFriend(u, v) /\ Time(u, v) > cards[u].at}

\* order by update_time asc limit 0, Page: equal times in any order.
Pages(u, found) ==
  {p \in SUBSET found :
     /\ Cardinality(p) = (IF Cardinality(found) < Page THEN Cardinality(found) ELSE Page)
     /\ \A v \in p, x \in found \ p : Time(u, v) <= Time(u, x)}

\* Mutant: the answer holds the time of the question.
LastCard_Old(u, page, t) == page # {} /\ t = cards[u].at

\* The update_time the answer is left with after the last row: the row's, or the
\* card's.
IsLast(u, page, t) ==
  /\ \E v \in page : Time(u, v) = t
  /\ \A v \in page : Time(u, v) <= t

LastCard(u, page, t) == \E v \in page : IsLast(u, page, Time(u, v)) /\ card[v] = t

\* get_frequent_chat and what the client makes of the answer.  Rows of the last
\* time may have found no room.
FetchList(u) ==
  \E page \in Pages(u, Newer(u)), t \in 1 .. MaxTime :
    /\ IsLast(u, page, t)
    /\ list' = [list EXCEPT ![u] =
                  [at |-> t,
                   has |-> [v \in Users |-> IF v \in page THEN rel[<<u, v>>].state
                                                        ELSE list[u].has[v]]]]
    /\ missed' = [missed EXCEPT !["list"] =
                    @ \cup {<<u, v>> : v \in {x \in Newer(u) \ page : Time(u, x) = t}}]
    /\ UNCHANGED <<friendVars, card, cards, leapt>>

\* get_all_user_info: the client goes on from the time of the last card, which may
\* be past friendships that are not in the answer, or before those that are.
FetchCards(u) ==
  \E page \in Pages(u, NewFriends(u)), l, t \in 0 .. MaxTime :
    /\ IsLast(u, page, l) /\ LastCard(u, page, t)
    /\ cards' = [cards EXCEPT ![u] = [at |-> t, has |-> cards[u].has \cup page]]
    /\ missed' = [missed EXCEPT !["cards"] =
                    @ \cup {<<u, v>> : v \in {x \in NewFriends(u) \ page : Time(u, x) = l /\ l <= t}}]
    /\ leapt' = [leapt EXCEPT ![u] = (@ \cap 0 .. t) \cup (l + 1 .. t)]
    /\ UNCHANGED <<friendVars, card, list>>

\* A user changes its card (set_user_info), at the time of this server.
ChangeCard(v) ==
  /\ \E t \in card[v] + 1 .. MaxTime : card' = [card EXCEPT ![v] = t]
  /\ UNCHANGED <<friendVars, list, cards, missed, leapt>>

-----------------------------------------------------------------------------
\* A row of a reader is written: is its client already past that time?
Known(u, kind) == IF kind = "list" THEN list[u].at ELSE cards[u].at

Write(w) ==
  LET side == Side(w) row == Row(w) IN
  /\ WriteRow(w)
  /\ missed' = [kind \in {"list", "cards"} |->
                  IF side[1] \notin Readers \/ row = rel[side] THEN missed[kind]
                  ELSE IF row.time <= Known(side[1], kind) THEN missed[kind] \cup {side}
                  ELSE missed[kind] \ {side}]
  /\ UNCHANGED <<card, list, cards, leapt>>

\* Every other step of the friendships.
Other ==
  /\ FriendOther
  /\ UNCHANGED syncVars

Next ==
  \/ \E u \in Readers : FetchList(u) \/ FetchCards(u)
  \/ \E v \in Users : ChangeCard(v)
  \/ \E w \in Workers : Write(w)
  \/ Other

\* The workers go on with what they have, and a client keeps asking.
Fairness ==
  /\ WF_vars(Other \/ \E w \in Workers : Write(w))
  /\ \A u \in Readers : WF_vars(FetchList(u)) /\ WF_vars(FetchCards(u))

SafetySpec == Init /\ [][Next]_vars
Spec == SafetySpec /\ Fairness

-----------------------------------------------------------------------------
\* A client that is past the time of a row of its list knows the row as it
\* is, unless the row was written with a time it was already past, or had no
\* room in an answer among rows of the same time.
ListTold ==
  \A u \in Readers, v \in Users :
    Joined(u, v) /\ rel[<<u, v>>].state # "none" /\ Time(u, v) <= list[u].at =>
      list[u].has[v] = rel[<<u, v>>].state \/ <<u, v>> \in missed["list"]

\* The same of the cards of its friends, unless besides a card changed later than
\* the friendship has led the client past the time of the row.
CardsTold ==
  \A u \in Readers, v \in Users :
    Joined(u, v) /\ IsFriend(u, v) /\ Time(u, v) <= cards[u].at =>
      v \in cards[u].has \/ <<u, v>> \in missed["cards"] \/ Time(u, v) \in leapt[u]

\* Of the friendships a client is past it has missed none but for these.  Those it
\* is not past are the matter of ClientsCatchUp.
ClientsTold == ListTold /\ CardsTold

\* A client gets to the end of its list.
ListCatchesUp == <>[](\A u \in Readers : Newer(u) = {})

\* More friends than there is room for, and the last card of the answer is no newer
\* than what was asked for: the client asks for the same again.
Stuck(u) ==
  /\ Cardinality(NewFriends(u)) > Page
  /\ \E page \in Pages(u, NewFriends(u)) : \E v \in page :
       IsLast(u, page, Time(u, v)) /\ card[v] <= cards[u].at

\* Every friend's card reaches the client in the end, but for those CardsTold
\* excepts, and those behind a full answer that leaves the client stuck: they come
\* only when a friend changes its card.
CardsArrive ==
  \A u \in Readers, v \in Users :
    []<>(\/ ~ (Joined(u, v) /\ IsFriend(u, v)) \/ v \in cards[u].has
         \/ <<u, v>> \in missed["cards"] \/ Time(u, v) \in leapt[u]
         \/ Stuck(u))

\* A client that keeps asking knows its friends in the end, but for these.
ClientsCatchUp == ListCatchesUp /\ CardsArrive
=============================================================================
