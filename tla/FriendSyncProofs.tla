-------------------------- MODULE FriendSyncProofs --------------------------
(***************************************************************************)
(* Theorems about FriendSync and the Friendship it extends, for any number *)
(* of workers, users, messages, times, readers and any page size.          *)
(***************************************************************************)
EXTENDS FriendSync, TLAPS

(* The inductive invariant.                                                *)

\* The statement a worker is at, by the kind of its message.
PlanInv ==
  \A w \in Workers :
    /\ pc[w] = "mine" => Op(w) \in {"add", "del", "single"}
    /\ pc[w] = "theirs" => Op(w) \in {"add", "del"}
    /\ pc[w] \in {"clear", "insert"} => Op(w) = "ask"
    /\ pc[w] = "update" => Op(w) = "result"

\* The first row is as a worker wrote it, if it has been alone at the pair.
AloneInv ==
  \A w \in Workers :
    pc[w] = "theirs" /\ alone[w] => (IsFriend(From(w), To(w)) <=> Op(w) = "add")

\* A worker that is about to insert finds no request of the same asker, and
\* no other worker about to insert one, unless they may be stored twice.
InsertInv ==
  \A w \in Workers : pc[w] = "insert" =>
    \/ Asked(w) \in renewed
    \/ /\ \A q \in reqs : ~ Same(q.req, w)
       /\ \A o \in Workers \ {w} : pc[o] = "insert" => Asked(o) # Asked(w)

IndInv ==
  /\ TypeOK /\ PlanInv /\ AloneInv /\ InsertInv
  /\ MutualFriends /\ RequestStoredOnce /\ ClientsTold

\* get_all_user_info answers page: the last friendship's time is l, the last card's t.
CardsAnswer(u, page, l, t) ==
  /\ IsLast(u, page, l) /\ LastCard(u, page, t)
  /\ cards' = [cards EXCEPT ![u] = [at |-> t, has |-> cards[u].has \cup page]]
  /\ missed' = [missed EXCEPT !["cards"] =
                  @ \cup {<<u, v>> : v \in {x \in NewFriends(u) \ page : Time(u, x) = l /\ l <= t}}]
  /\ leapt' = [leapt EXCEPT ![u] = (@ \cap 0 .. t) \cup (l + 1 .. t)]
  /\ UNCHANGED <<friendVars, card, list>>

-----------------------------------------------------------------------------
(* Facts every proof needs.                                                *)

\* What a message says.
LEMMA AskTypes ==
  \A r \in Requests :
    Ask[r].op \in Ops /\ Ask[r].from \in Users /\ Ask[r].to \in Users /\ Ask[r].from # Ask[r].to
BY FriendAssumption

\* What the message of a busy worker says.
LEMMA Known1 ==
  ASSUME TypeOK, NEW w \in Workers, pc[w] # "idle"
  PROVE  /\ serving[w] \in Requests /\ Op(w) \in Ops
         /\ From(w) \in Users /\ To(w) \in Users /\ From(w) # To(w)
BY AskTypes DEF TypeOK, FriendTypeOK, Op, From, To

\* What writing a row does to the rows.
LEMMA WriteEffect ==
  ASSUME TypeOK, NEW w \in Workers, Write(w)
  PROVE  /\ pc[w] \in {"mine", "theirs"} /\ serving[w] \in Requests
         /\ From(w) \in Users /\ To(w) \in Users /\ From(w) # To(w)
         /\ Side(w) \in Sides /\ Row(w) \in [state : States, time : 0 .. MaxTime]
         /\ rel' \in [Sides -> [state : States, time : 0 .. MaxTime]]
         /\ rel'[Side(w)] = Row(w)
         /\ \A s \in Sides : s # Side(w) => rel'[s] = rel[s]
<1>1. /\ pc[w] \in {"mine", "theirs"} /\ serving[w] \in Requests
      /\ From(w) \in Users /\ To(w) \in Users /\ From(w) # To(w)
  BY Known1 DEF Write, WriteRow, InRow
<1>2. Side(w) \in Sides
  BY <1>1 DEF Side, Sides
<1>3. rel \in [Sides -> [state : States, time : 0 .. MaxTime]] /\ time[w] \in 0 .. MaxTime
  BY DEF TypeOK, FriendTypeOK
<1>4. Row(w) \in [state : States, time : 0 .. MaxTime]
  BY <1>2, <1>3 DEF Row, States
<1>5. rel' = [rel EXCEPT ![Side(w)] = Row(w)]
  BY DEF Write, WriteRow
<1> QED BY <1>1, <1>2, <1>3, <1>4, <1>5

-----------------------------------------------------------------------------
(* The steps, one lemma for each part of the invariant.                    *)

\* Every step keeps the types.
LEMMA TypeStep ==
  ASSUME TypeOK, [Next]_vars
  PROVE  TypeOK'
<1>1. ASSUME NEW u \in Readers, FetchList(u) PROVE TypeOK'
  <2>1. PICK page \in Pages(u, Newer(u)), t \in 1 .. MaxTime :
          /\ list' = [list EXCEPT ![u] =
                [at |-> t, has |-> [v \in Users |-> IF v \in page THEN rel[<<u, v>>].state
                                                               ELSE list[u].has[v]]]]
          /\ missed' = [missed EXCEPT !["list"] =
                @ \cup {<<u, v>> : v \in {x \in Newer(u) \ page : Time(u, x) = t}}]
          /\ UNCHANGED <<friendVars, card, cards, leapt>>
    BY <1>1 DEF FetchList
  <2>2. t \in 0 .. MaxTime
    BY <2>1, FriendAssumption
  <2>3. [v \in Users |-> IF v \in page THEN rel[<<u, v>>].state ELSE list[u].has[v]]
          \in [Users -> States]
    <3>1. u \in Users
      BY SyncAssumption
    <3>2. \A v \in Users : rel[<<u, v>>].state \in States /\ list[u].has[v] \in States
      BY <3>1 DEF TypeOK, FriendTypeOK, Sides
    <3> QED BY <3>2
  <2>4. list' \in [Readers -> [at : 0 .. MaxTime, has : [Users -> States]]]
    BY <2>1, <2>2, <2>3 DEF TypeOK
  <2>5. {<<u, v>> : v \in {x \in Newer(u) \ page : Time(u, x) = t}} \subseteq Readers \X Users
    <3>1. \A v \in Newer(u) : v \in Users
      BY DEF Newer
    <3> QED BY <3>1
  <2>6. missed' \in [{"list", "cards"} -> SUBSET (Readers \X Users)]
    BY <2>1, <2>5 DEF TypeOK
  <2> QED BY <2>1, <2>4, <2>6 DEF TypeOK, FriendTypeOK, friendVars, jobVars, histVars
<1>2. ASSUME NEW u \in Readers, FetchCards(u) PROVE TypeOK'
  <2>1. PICK page \in Pages(u, NewFriends(u)), l, t \in 0 .. MaxTime : CardsAnswer(u, page, l, t)
    BY <1>2 DEF FetchCards, CardsAnswer
  <2>2. page \subseteq Users /\ \A v \in NewFriends(u) : v \in Users
    BY <2>1 DEF Pages, NewFriends
  <2>3. cards' \in [Readers -> [at : 0 .. MaxTime, has : SUBSET Users]]
    BY <2>1, <2>2 DEF CardsAnswer, TypeOK
  <2>4. {<<u, v>> : v \in {x \in NewFriends(u) \ page : Time(u, x) = l /\ l <= t}}
          \subseteq Readers \X Users
    BY <2>2
  <2>5. missed' \in [{"list", "cards"} -> SUBSET (Readers \X Users)]
    BY <2>1, <2>4 DEF CardsAnswer, TypeOK
  <2>6. (leapt[u] \cap 0 .. t) \cup (l + 1 .. t) \in SUBSET (0 .. MaxTime)
    <3>1. leapt[u] \subseteq 0 .. MaxTime /\ l \in 0 .. MaxTime /\ t \in 0 .. MaxTime
      BY DEF TypeOK
    <3>2. l + 1 .. t \subseteq 0 .. MaxTime
      BY <3>1, FriendAssumption
    <3> QED BY <3>1, <3>2
  <2>7. leapt' \in [Readers -> SUBSET (0 .. MaxTime)]
    BY <2>1, <2>6 DEF CardsAnswer, TypeOK
  <2> QED BY <2>1, <2>3, <2>5, <2>7 DEF CardsAnswer, TypeOK, FriendTypeOK, friendVars, jobVars, histVars
<1>3. ASSUME NEW w \in Workers, Write(w) PROVE TypeOK'
  <2>1. /\ UNCHANGED <<card, list, cards, leapt>> /\ UNCHANGED <<reqs, jobVars, renewed, lost, crashes>>
        /\ pc' \in [Workers -> Pcs] /\ \A o \in Workers : pc'[o] # "idle" => serving'[o] \in Requests
    BY <1>3, WriteEffect DEF Write, WriteRow, Go, After, TypeOK, FriendTypeOK, Pcs, jobVars
  <2>2. alone' \in [Workers -> BOOLEAN]
    BY <1>3, Zenon DEF Write, WriteRow, TypeOK, FriendTypeOK
  <2>3. parted' \subseteq SUBSET Users
    <3>1. Pair(w) \in SUBSET Users /\ parted \subseteq SUBSET Users
      BY <1>3, WriteEffect DEF Pair, TypeOK, FriendTypeOK
    <3>2. parted' = IF pc[w] = "mine" /\ Op(w) # "single" THEN parted
                    ELSE IF pc[w] = "theirs" /\ alone[w] THEN parted \ {Pair(w)}
                    ELSE parted \cup {Pair(w)}
      BY <1>3 DEF Write, WriteRow
    <3> QED BY <3>1, <3>2
  <2>4. Side(w)[1] \in Readers => Side(w) \in Readers \X Users
    BY <1>3, WriteEffect DEF Sides
  <2>5. missed' \in [{"list", "cards"} -> SUBSET (Readers \X Users)]
    BY <1>3, <2>4 DEF Write, TypeOK
  <2> QED BY <1>3, <2>1, <2>2, <2>3, <2>5, WriteEffect DEF TypeOK, FriendTypeOK, jobVars
<1>4. ASSUME NEW w \in Workers, NEW r \in Requests, Receive(w, r),
    UNCHANGED syncVars PROVE TypeOK'
  BY <1>4, AskTypes, FriendAssumption, SyncAssumption, Known1 DEF Go, After, jobVars, histVars,
      friendVars, syncVars, vars, Receive, First, Pcs, TypeOK, FriendTypeOK, Pcs, Sides,
      States, Ops, Op, From, To
<1>5. ASSUME NEW w \in Workers, RowFails(w), UNCHANGED syncVars PROVE TypeOK'
  <2>1. /\ UNCHANGED <<rel, reqs, jobVars, renewed, lost, crashes, syncVars>> /\ pc[w] # "idle"
        /\ alone' = [alone EXCEPT ![w] = FALSE] /\ parted' = parted \cup {Pair(w)}
    BY <1>5 DEF RowFails, InRow
  <2>2. Pair(w) \in SUBSET Users /\ serving[w] \in Requests
    BY <2>1, Known1 DEF Pair
  <2>3. pc' \in [Workers -> Pcs] /\ \A o \in Workers : pc'[o] # "idle" => serving'[o] \in Requests
    BY <1>5, <2>1, <2>2 DEF RowFails, Go, After, TypeOK, FriendTypeOK, Pcs, jobVars
  <2> QED BY <2>1, <2>2, <2>3 DEF TypeOK, FriendTypeOK, jobVars, syncVars
<1>6. ASSUME NEW w \in Workers, PrepareFails(w), UNCHANGED syncVars PROVE TypeOK'
  <2>1. /\ UNCHANGED <<rel, reqs, jobVars, alone, renewed, crashes, syncVars>> /\ pc[w] # "idle"
        /\ pc' = [pc EXCEPT ![w] = "idle"]
        /\ parted' \in {parted, parted \cup {Pair(w)}} /\ lost' \in {lost, lost \cup {Asked(w)}}
    BY <1>6 DEF PrepareFails
  <2>2. Pair(w) \in SUBSET Users /\ Asked(w) \in Sides
    BY <2>1, Known1 DEF Pair, Asked, Sides
  <2>3. pc' \in [Workers -> Pcs] /\ \A o \in Workers : pc'[o] # "idle" => serving'[o] \in Requests
    BY <2>1 DEF TypeOK, FriendTypeOK, Pcs, jobVars
  <2> QED BY <2>1, <2>2, <2>3 DEF TypeOK, FriendTypeOK, jobVars, syncVars
<1>7. ASSUME NEW w \in Workers, ClearRequest(w), UNCHANGED syncVars PROVE TypeOK'
  BY <1>7, AskTypes, FriendAssumption, SyncAssumption, Known1 DEF Go, After, jobVars, histVars,
      friendVars, syncVars, vars, ClearRequest, Same, Asked, Renewing, TypeOK, FriendTypeOK,
      Pcs, Sides, States, Ops, Op, From, To
<1>8. ASSUME NEW w \in Workers, InsertRequest(w), UNCHANGED syncVars PROVE TypeOK'
  BY <1>8, AskTypes, FriendAssumption, SyncAssumption, Known1 DEF Go, After, jobVars, histVars,
      friendVars, syncVars, vars, InsertRequest, TypeOK, FriendTypeOK, Pcs, Sides, States, Ops,
      Op, From, To
<1>9. ASSUME NEW w \in Workers, AnswerRequest(w), UNCHANGED syncVars PROVE TypeOK'
  BY <1>9, AskTypes, FriendAssumption, SyncAssumption, Known1 DEF Go, After, jobVars, histVars,
      friendVars, syncVars, vars, AnswerRequest, Same, TypeOK, FriendTypeOK, Pcs, Sides,
      States, Ops, Op, From, To
<1>10. ASSUME NEW w \in Workers, RequestFails(w), UNCHANGED syncVars PROVE TypeOK'
  BY <1>10, AskTypes, FriendAssumption, SyncAssumption, Known1
    DEF Go, After, jobVars, histVars, friendVars, syncVars, vars, RequestFails, Asked, TypeOK,
      FriendTypeOK, Pcs, Sides, States, Ops, Op, From, To
<1>11. ASSUME Crash, UNCHANGED syncVars PROVE TypeOK'
  BY <1>11, AskTypes, FriendAssumption, SyncAssumption, Known1
    DEF Go, After, jobVars, histVars, friendVars, syncVars, vars, Crash, Halfway, Pair,
      Renewing, Asked, TypeOK, FriendTypeOK, Pcs, Sides, States, Ops, Op, From, To
<1>12. ASSUME UNCHANGED vars PROVE TypeOK'
  BY <1>12, AskTypes, FriendAssumption, SyncAssumption, Known1
    DEF Go, After, jobVars, histVars, friendVars, syncVars, vars, TypeOK, FriendTypeOK, Pcs,
      Sides, States, Ops, Op, From, To
<1>13. ASSUME NEW y \in Users, ChangeCard(y) PROVE TypeOK'
  BY <1>13, AskTypes, FriendAssumption, SyncAssumption, Known1
    DEF Go, After, jobVars, histVars, friendVars, syncVars, vars, ChangeCard, TypeOK,
      FriendTypeOK, Pcs, Sides, States, Ops, Op, From, To
<1> QED BY <1>1, <1>2, <1>3, <1>4, <1>5, <1>6, <1>7, <1>8, <1>9, <1>10, <1>11, <1>12, <1>13
  DEF Next, Other, FriendOther

\* A worker does the rest of its plan, or none of it.
LEMMA PlanStep ==
  ASSUME TypeOK, PlanInv, [Next]_vars
  PROVE  PlanInv'
<1> USE DEF PlanInv, TypeOK, FriendTypeOK, Op, Ops
<1>1. ASSUME NEW u \in Readers, FetchList(u) PROVE PlanInv'
  BY <1>1, AskTypes, FriendAssumption, SyncAssumption, Known1 DEF Go, After, jobVars, histVars,
      friendVars, syncVars, vars, FetchList, Pages, Newer, IsLast
<1>2. ASSUME NEW u \in Readers, FetchCards(u) PROVE PlanInv'
  BY <1>2, AskTypes, FriendAssumption, SyncAssumption, Known1 DEF Go, After, jobVars, histVars,
      friendVars, syncVars, vars, FetchCards, Pages, NewFriends
<1>3. ASSUME NEW w \in Workers, Write(w) PROVE PlanInv'
  BY <1>3, AskTypes, FriendAssumption, SyncAssumption, Known1 DEF Go, After, jobVars, histVars,
      friendVars, syncVars, vars, Write, WriteRow, InRow, Side, Row, Pair
<1>4. ASSUME NEW w \in Workers, NEW r \in Requests, Receive(w, r),
    UNCHANGED syncVars PROVE PlanInv'
  BY <1>4, AskTypes, FriendAssumption, SyncAssumption, Known1 DEF Go, After, jobVars, histVars,
      friendVars, syncVars, vars, Receive, First, Pcs
<1>5. ASSUME NEW w \in Workers, RowFails(w), UNCHANGED syncVars PROVE PlanInv'
  BY <1>5, AskTypes, FriendAssumption, SyncAssumption, Known1 DEF Go, After, jobVars, histVars,
      friendVars, syncVars, vars, RowFails, InRow, Pair
<1>6. ASSUME NEW w \in Workers, PrepareFails(w), UNCHANGED syncVars PROVE PlanInv'
  BY <1>6, AskTypes, FriendAssumption, SyncAssumption, Known1 DEF Go, After, jobVars, histVars,
      friendVars, syncVars, vars, PrepareFails, Pair, Asked
<1>7. ASSUME NEW w \in Workers, ClearRequest(w), UNCHANGED syncVars PROVE PlanInv'
  BY <1>7, AskTypes, FriendAssumption, SyncAssumption, Known1 DEF Go, After, jobVars, histVars,
      friendVars, syncVars, vars, ClearRequest, Same, Asked, Renewing
<1>8. ASSUME NEW w \in Workers, InsertRequest(w), UNCHANGED syncVars PROVE PlanInv'
  BY <1>8, AskTypes, FriendAssumption, SyncAssumption, Known1 DEF Go, After, jobVars, histVars,
      friendVars, syncVars, vars, InsertRequest
<1>9. ASSUME NEW w \in Workers, AnswerRequest(w), UNCHANGED syncVars PROVE PlanInv'
  BY <1>9, AskTypes, FriendAssumption, SyncAssumption, Known1 DEF Go, After, jobVars, histVars,
      friendVars, syncVars, vars, AnswerRequest, Same
<1>10. ASSUME NEW w \in Workers, RequestFails(w), UNCHANGED syncVars PROVE PlanInv'
  BY <1>10, AskTypes, FriendAssumption, SyncAssumption, Known1
    DEF Go, After, jobVars, histVars, friendVars, syncVars, vars, RequestFails, Asked
<1>11. ASSUME Crash, UNCHANGED syncVars PROVE PlanInv'
  BY <1>11, AskTypes, FriendAssumption, SyncAssumption, Known1
    DEF Go, After, jobVars, histVars, friendVars, syncVars, vars, Crash, Halfway, Pair,
      Renewing, Asked
<1>12. ASSUME UNCHANGED vars PROVE PlanInv'
  BY <1>12, AskTypes, FriendAssumption, SyncAssumption, Known1
    DEF Go, After, jobVars, histVars, friendVars, syncVars, vars
<1>13. ASSUME NEW y \in Users, ChangeCard(y) PROVE PlanInv'
  BY <1>13, AskTypes, FriendAssumption, SyncAssumption, Known1
    DEF Go, After, jobVars, histVars, friendVars, syncVars, vars, ChangeCard
<1> QED BY <1>1, <1>2, <1>3, <1>4, <1>5, <1>6, <1>7, <1>8, <1>9, <1>10, <1>11, <1>12, <1>13
  DEF Next, Other, FriendOther

\* Whoever writes a row of the pair in between ends its being alone.
LEMMA AloneStep ==
  ASSUME TypeOK, PlanInv, AloneInv, [Next]_vars
  PROVE  AloneInv'
<1>1. ASSUME NEW u \in Readers, FetchList(u) PROVE AloneInv'
  BY <1>1, AskTypes, FriendAssumption, SyncAssumption, Known1 DEF Go, After, jobVars, histVars,
      friendVars, syncVars, vars, FetchList, Pages, Newer, IsLast, PlanInv, AloneInv, TypeOK,
      FriendTypeOK, Op, Ops, From, To, IsFriend, Sides, Pair
<1>2. ASSUME NEW u \in Readers, FetchCards(u) PROVE AloneInv'
  BY <1>2, AskTypes, FriendAssumption, SyncAssumption, Known1 DEF Go, After, jobVars, histVars,
      friendVars, syncVars, vars, FetchCards, Pages, NewFriends, PlanInv, AloneInv, TypeOK,
      FriendTypeOK, Op, Ops, From, To, IsFriend, Sides, Pair
<1>3. ASSUME NEW w \in Workers, Write(w) PROVE AloneInv'
  <2> SUFFICES ASSUME NEW o \in Workers, pc'[o] = "theirs", alone'[o]
               PROVE  IsFriend(From(o), To(o))' <=> Op(o)' = "add"
    BY DEF AloneInv
  <2>1. serving' = serving /\ pc' = [pc EXCEPT ![w] = After(w)]
    BY <1>3 DEF Write, WriteRow, jobVars, Go
  <2>2. alone' = [x \in Workers |-> IF x = w THEN pc[w] = "mine"
                                   ELSE alone[x] /\ ~ (pc[x] # "idle" /\ Pair(x) = Pair(w))]
    BY <1>3 DEF Write, WriteRow
  <2>3. CASE o = w
    <3>1. pc[w] = "mine" /\ Op(w) \in {"add", "del"}
      BY <2>1, <2>2, <2>3 DEF TypeOK, FriendTypeOK, After, PlanInv
    <3>2. rel'[<<From(w), To(w)>>] = Row(w) /\ Side(w) = <<From(w), To(w)>>
      BY <1>3, <3>1, WriteEffect DEF Side
    <3>3. Row(w).state = "friend" <=> Op(w) = "add"
      BY <1>3, <3>1, WriteEffect DEF Row, States, TypeOK, FriendTypeOK
    <3>4. Row(w).state = "friend" <=> Op(w) = "add"
      BY <3>3
    <3> QED BY <2>1, <2>3, <3>2, <3>4 DEF IsFriend, From, To, Op
  <2>4. CASE o # w
    <3>1. pc[o] = "theirs" /\ alone[o] /\ Pair(o) # Pair(w)
      BY <2>1, <2>2, <2>4 DEF TypeOK, FriendTypeOK
    <3>2. IsFriend(From(o), To(o)) <=> Op(o) = "add"
      BY <3>1 DEF AloneInv
    <3>3. From(o) \in Users /\ To(o) \in Users
      BY <3>1, Known1
    <3>4. <<From(o), To(o)>> # Side(w)
      BY <3>1 DEF Side, Pair
    <3>5. rel'[<<From(o), To(o)>>] = rel[<<From(o), To(o)>>]
      BY <1>3, <3>3, <3>4, WriteEffect DEF Sides
    <3> QED BY <2>1, <3>2, <3>5 DEF IsFriend, From, To, Op
  <2> QED BY <2>3, <2>4
<1>4. ASSUME NEW w \in Workers, NEW r \in Requests, Receive(w, r),
    UNCHANGED syncVars PROVE AloneInv'
  BY <1>4, AskTypes, FriendAssumption, SyncAssumption, Known1 DEF Go, After, jobVars, histVars,
      friendVars, syncVars, vars, Receive, First, Pcs, PlanInv, AloneInv, TypeOK, FriendTypeOK,
      Op, Ops, From, To, IsFriend, Sides, Pair
<1>5. ASSUME NEW w \in Workers, RowFails(w), UNCHANGED syncVars PROVE AloneInv'
  BY <1>5, AskTypes, FriendAssumption, SyncAssumption, Known1 DEF Go, After, jobVars, histVars,
      friendVars, syncVars, vars, RowFails, InRow, Pair, PlanInv, AloneInv, TypeOK,
      FriendTypeOK, Op, Ops, From, To, IsFriend, Sides, Pair
<1>6. ASSUME NEW w \in Workers, PrepareFails(w), UNCHANGED syncVars PROVE AloneInv'
  BY <1>6, AskTypes, FriendAssumption, SyncAssumption, Known1 DEF Go, After, jobVars, histVars,
      friendVars, syncVars, vars, PrepareFails, Pair, Asked, PlanInv, AloneInv, TypeOK,
      FriendTypeOK, Op, Ops, From, To, IsFriend, Sides, Pair
<1>7. ASSUME NEW w \in Workers, ClearRequest(w), UNCHANGED syncVars PROVE AloneInv'
  BY <1>7, AskTypes, FriendAssumption, SyncAssumption, Known1 DEF Go, After, jobVars, histVars,
      friendVars, syncVars, vars, ClearRequest, Same, Asked, Renewing, PlanInv, AloneInv,
      TypeOK, FriendTypeOK, Op, Ops, From, To, IsFriend, Sides, Pair
<1>8. ASSUME NEW w \in Workers, InsertRequest(w), UNCHANGED syncVars PROVE AloneInv'
  BY <1>8, AskTypes, FriendAssumption, SyncAssumption, Known1 DEF Go, After, jobVars, histVars,
      friendVars, syncVars, vars, InsertRequest, PlanInv, AloneInv, TypeOK, FriendTypeOK, Op,
      Ops, From, To, IsFriend, Sides, Pair
<1>9. ASSUME NEW w \in Workers, AnswerRequest(w), UNCHANGED syncVars PROVE AloneInv'
  BY <1>9, AskTypes, FriendAssumption, SyncAssumption, Known1 DEF Go, After, jobVars, histVars,
      friendVars, syncVars, vars, AnswerRequest, Same, PlanInv, AloneInv, TypeOK, FriendTypeOK,
      Op, Ops, From, To, IsFriend, Sides, Pair
<1>10. ASSUME NEW w \in Workers, RequestFails(w), UNCHANGED syncVars PROVE AloneInv'
  BY <1>10, AskTypes, FriendAssumption, SyncAssumption, Known1
    DEF Go, After, jobVars, histVars, friendVars, syncVars, vars, RequestFails, Asked, PlanInv,
      AloneInv, TypeOK, FriendTypeOK, Op, Ops, From, To, IsFriend, Sides, Pair
<1>11. ASSUME Crash, UNCHANGED syncVars PROVE AloneInv'
  BY <1>11, AskTypes, FriendAssumption, SyncAssumption, Known1
    DEF Go, After, jobVars, histVars, friendVars, syncVars, vars, Crash, Halfway, Pair,
      Renewing, Asked, PlanInv, AloneInv, TypeOK, FriendTypeOK, Op, Ops, From, To, IsFriend,
      Sides, Pair
<1>12. ASSUME UNCHANGED vars PROVE AloneInv'
  BY <1>12, AskTypes, FriendAssumption, SyncAssumption, Known1
    DEF Go, After, jobVars, histVars, friendVars, syncVars, vars, PlanInv, AloneInv, TypeOK,
      FriendTypeOK, Op, Ops, From, To, IsFriend, Sides, Pair
<1>13. ASSUME NEW y \in Users, ChangeCard(y) PROVE AloneInv'
  BY <1>13, AskTypes, FriendAssumption, SyncAssumption, Known1
    DEF Go, After, jobVars, histVars, friendVars, syncVars, vars, ChangeCard, PlanInv, AloneInv, TypeOK,
      FriendTypeOK, Op, Ops, From, To, IsFriend, Sides, Pair
<1> QED BY <1>1, <1>2, <1>3, <1>4, <1>5, <1>6, <1>7, <1>8, <1>9, <1>10, <1>11, <1>12, <1>13
  DEF Next, Other, FriendOther

\* Two workers at the same request know of each other.
LEMMA InsertStep ==
  ASSUME TypeOK, PlanInv, InsertInv, [Next]_vars
  PROVE  InsertInv'
<1>1. ASSUME NEW u \in Readers, FetchList(u) PROVE InsertInv'
  BY <1>1, AskTypes, FriendAssumption, SyncAssumption, Known1 DEF Go, After, jobVars, histVars,
      friendVars, syncVars, vars, FetchList, Pages, Newer, IsLast, PlanInv, InsertInv, TypeOK,
      FriendTypeOK, Op, Ops, From, To, Asked, Same, Renewing
<1>2. ASSUME NEW u \in Readers, FetchCards(u) PROVE InsertInv'
  BY <1>2, AskTypes, FriendAssumption, SyncAssumption, Known1 DEF Go, After, jobVars, histVars,
      friendVars, syncVars, vars, FetchCards, Pages, NewFriends, PlanInv, InsertInv, TypeOK,
      FriendTypeOK, Op, Ops, From, To, Asked, Same, Renewing
<1>3. ASSUME NEW w \in Workers, Write(w) PROVE InsertInv'
  <2>1. /\ UNCHANGED <<reqs, serving, renewed>> /\ w \in Workers
        /\ \A o \in Workers : pc'[o] = "insert" => pc[o] = "insert"
    BY <1>3, WriteEffect DEF Write, WriteRow, jobVars, Go, After, TypeOK, FriendTypeOK
  <2> QED BY <2>1 DEF InsertInv, Asked, From, To, Same
<1>4. ASSUME NEW w \in Workers, NEW r \in Requests, Receive(w, r),
    UNCHANGED syncVars PROVE InsertInv'
  BY <1>4, AskTypes, FriendAssumption, SyncAssumption, Known1 DEF Go, After, jobVars, histVars,
      friendVars, syncVars, vars, Receive, First, Pcs, PlanInv, InsertInv, TypeOK,
      FriendTypeOK, Op, Ops, From, To, Asked, Same, Renewing
<1>5. ASSUME NEW w \in Workers, RowFails(w), UNCHANGED syncVars PROVE InsertInv'
  BY <1>5, AskTypes, FriendAssumption, SyncAssumption, Known1 DEF Go, After, jobVars, histVars,
      friendVars, syncVars, vars, RowFails, InRow, Pair, PlanInv, InsertInv, TypeOK,
      FriendTypeOK, Op, Ops, From, To, Asked, Same, Renewing
<1>6. ASSUME NEW w \in Workers, PrepareFails(w), UNCHANGED syncVars PROVE InsertInv'
  BY <1>6, AskTypes, FriendAssumption, SyncAssumption, Known1 DEF Go, After, jobVars, histVars,
      friendVars, syncVars, vars, PrepareFails, Pair, Asked, PlanInv, InsertInv, TypeOK,
      FriendTypeOK, Op, Ops, From, To, Asked, Same, Renewing
<1>7. ASSUME NEW w \in Workers, ClearRequest(w), UNCHANGED syncVars PROVE InsertInv'
  <2>1. /\ pc[w] = "clear" /\ reqs' = {q \in reqs : ~ Same(q.req, w)} /\ serving' = serving
        /\ pc' = [pc EXCEPT ![w] = After(w)] /\ renewed \subseteq renewed'
        /\ (\E o \in Workers \ {w} : Renewing(o, Asked(w))) => Asked(w) \in renewed'
    BY <1>7 DEF ClearRequest, Go, jobVars
  <2>2. pc'[w] = "insert" /\ Op(w) = "ask" /\ \A o \in Workers : o # w => pc'[o] = pc[o]
    BY <2>1 DEF PlanInv, TypeOK, FriendTypeOK, After
  <2>3. ASSUME NEW o \in Workers, o # w, pc[o] = "insert", Asked(o) = Asked(w)
        PROVE  Asked(w) \in renewed'
    BY <2>1, <2>3 DEF PlanInv, Renewing
  <2>4. ASSUME NEW x \in Workers, pc'[x] = "insert"
        PROVE  \/ Asked(x) \in renewed'
               \/ /\ \A q \in reqs' : ~ Same(q.req, x)
                  /\ \A o \in Workers \ {x} : pc'[o] = "insert" => Asked(o) # Asked(x)
    <3>1. CASE x = w
      BY <2>1, <2>2, <2>3, <3>1
    <3>2. CASE x # w
      BY <2>1, <2>2, <2>3, <2>4, <3>2 DEF InsertInv
    <3> QED BY <3>1, <3>2
  <2> QED BY <2>1, <2>4 DEF InsertInv, Asked, Same, From, To
<1>8. ASSUME NEW w \in Workers, InsertRequest(w), UNCHANGED syncVars PROVE InsertInv'
  BY <1>8, AskTypes, FriendAssumption, SyncAssumption, Known1 DEF Go, After, jobVars, histVars,
      friendVars, syncVars, vars, InsertRequest, PlanInv, InsertInv, TypeOK, FriendTypeOK, Op,
      Ops, From, To, Asked, Same, Renewing
<1>9. ASSUME NEW w \in Workers, AnswerRequest(w), UNCHANGED syncVars PROVE InsertInv'
  BY <1>9, AskTypes, FriendAssumption, SyncAssumption, Known1 DEF Go, After, jobVars, histVars,
      friendVars, syncVars, vars, AnswerRequest, Same, PlanInv, InsertInv, TypeOK,
      FriendTypeOK, Op, Ops, From, To, Asked, Same, Renewing
<1>10. ASSUME NEW w \in Workers, RequestFails(w), UNCHANGED syncVars PROVE InsertInv'
  BY <1>10, AskTypes, FriendAssumption, SyncAssumption, Known1
    DEF Go, After, jobVars, histVars, friendVars, syncVars, vars, RequestFails, Asked, PlanInv,
      InsertInv, TypeOK, FriendTypeOK, Op, Ops, From, To, Asked, Same, Renewing
<1>11. ASSUME Crash, UNCHANGED syncVars PROVE InsertInv'
  BY <1>11, AskTypes, FriendAssumption, SyncAssumption, Known1
    DEF Go, After, jobVars, histVars, friendVars, syncVars, vars, Crash, Halfway, Pair,
      Renewing, Asked, PlanInv, InsertInv, TypeOK, FriendTypeOK, Op, Ops, From, To, Asked,
      Same, Renewing
<1>12. ASSUME UNCHANGED vars PROVE InsertInv'
  BY <1>12, AskTypes, FriendAssumption, SyncAssumption, Known1
    DEF Go, After, jobVars, histVars, friendVars, syncVars, vars, PlanInv, InsertInv, TypeOK,
      FriendTypeOK, Op, Ops, From, To, Asked, Same, Renewing
<1>13. ASSUME NEW y \in Users, ChangeCard(y) PROVE InsertInv'
  BY <1>13, AskTypes, FriendAssumption, SyncAssumption, Known1
    DEF Go, After, jobVars, histVars, friendVars, syncVars, vars, ChangeCard, PlanInv, InsertInv, TypeOK,
      FriendTypeOK, Op, Ops, From, To, Asked, Same, Renewing
<1> QED BY <1>1, <1>2, <1>3, <1>4, <1>5, <1>6, <1>7, <1>8, <1>9, <1>10, <1>11, <1>12, <1>13
  DEF Next, Other, FriendOther

\* A step that changes no row changes no friendship.
LEMMA SameRows ==
  ASSUME MutualFriends, rel' = rel, \A p \in SUBSET Users : p \in parted => p \in parted',
         \A w \in Workers, p \in SUBSET Users :
           pc[w] = "theirs" /\ Pair(w) = p =>
             \/ pc'[w] = "theirs" /\ Pair(w)' = p
             \/ p \in parted'
  PROVE  MutualFriends'
<1> SUFFICES ASSUME NEW u \in Users, NEW v \in Users, IsFriend(u, v)', ~ IsFriend(v, u)',
                    {u, v} \notin parted'
             PROVE  \E w \in Workers : Halfway(w, {u, v})'
  BY DEF MutualFriends
<1>1. {u, v} \in SUBSET Users /\ {u, v} \notin parted /\ IsFriend(u, v) /\ ~ IsFriend(v, u)
  BY DEF IsFriend
<1>2. PICK w \in Workers : Halfway(w, {u, v})
  BY <1>1 DEF MutualFriends
<1> QED BY <1>1, <1>2 DEF Halfway

\* The two rows of a pair stay alike.
LEMMA MutualStep ==
  ASSUME TypeOK, PlanInv, AloneInv, MutualFriends, [Next]_vars
  PROVE  MutualFriends'
<1>1. ASSUME NEW u \in Readers, FetchList(u) PROVE MutualFriends'
  <2>1. rel' = rel /\ (\A p \in SUBSET Users : p \in parted => p \in parted')
    BY <1>1 DEF FetchList, friendVars, jobVars, histVars
  <2>2. ASSUME NEW x \in Workers, pc[x] = "theirs"
        PROVE  (pc'[x] = "theirs" /\ Pair(x)' = Pair(x)) \/ Pair(x) \in parted'
    BY <1>1, <2>2, Known1 DEF FetchList, friendVars, jobVars, histVars, TypeOK, FriendTypeOK,
        Pair, From, To
  <2> QED BY <2>1, <2>2, SameRows
<1>2. ASSUME NEW u \in Readers, FetchCards(u) PROVE MutualFriends'
  <2>1. rel' = rel /\ (\A p \in SUBSET Users : p \in parted => p \in parted')
    BY <1>2 DEF FetchCards, friendVars, jobVars, histVars
  <2>2. ASSUME NEW x \in Workers, pc[x] = "theirs"
        PROVE  (pc'[x] = "theirs" /\ Pair(x)' = Pair(x)) \/ Pair(x) \in parted'
    BY <1>2, <2>2, Known1 DEF FetchCards, friendVars, jobVars, histVars, TypeOK, FriendTypeOK,
        Pair, From, To
  <2> QED BY <2>1, <2>2, SameRows
<1>3. ASSUME NEW w \in Workers, Write(w) PROVE MutualFriends'
  <2> SUFFICES ASSUME NEW u \in Users, NEW v \in Users, IsFriend(u, v)', ~ IsFriend(v, u)'
               PROVE  {u, v} \in parted' \/ \E o \in Workers : Halfway(o, {u, v})'
    BY DEF MutualFriends
  <2>1. serving' = serving /\ pc' = [pc EXCEPT ![w] = After(w)] /\ pc \in [Workers -> Pcs]
    BY <1>3 DEF Write, WriteRow, jobVars, Go, TypeOK, FriendTypeOK
  <2>2. parted' = IF pc[w] = "mine" /\ Op(w) # "single" THEN parted
                  ELSE IF pc[w] = "theirs" /\ alone[w] THEN parted \ {Pair(w)}
                  ELSE parted \cup {Pair(w)}
    BY <1>3 DEF Write, WriteRow
  <2>3. CASE Pair(w) # {u, v}
    <3>1. <<u, v>> # Side(w) /\ <<v, u>> # Side(w) /\ <<u, v>> \in Sides /\ <<v, u>> \in Sides
      BY <2>3 DEF Side, Pair, Sides
    <3>2. IsFriend(u, v) /\ ~ IsFriend(v, u)
      BY <1>3, <3>1, WriteEffect DEF IsFriend
    <3>3. CASE {u, v} \in parted
      BY <2>2, <2>3, <3>3
    <3>4. CASE {u, v} \notin parted
      <4>1. PICK o \in Workers : Halfway(o, {u, v})
        BY <3>2, <3>4 DEF MutualFriends
      <4>2. o # w
        BY <4>1, <2>3 DEF Halfway
      <4>3. Halfway(o, {u, v})'
        BY <4>1, <4>2, <2>1 DEF Halfway, Pair, From, To
      <4> QED BY <4>3
    <3> QED BY <3>3, <3>4
  <2>4. CASE Pair(w) = {u, v}
    <3>1. CASE pc[w] = "mine" /\ Op(w) # "single"
      <4>1. Halfway(w, {u, v})'
        BY <2>1, <2>4, <3>1 DEF Halfway, After, Pair, From, To
      <4> QED BY <4>1
    <3>2. CASE pc[w] = "theirs" /\ alone[w]
      <4>1. Op(w) \in {"add", "del"} /\ (IsFriend(From(w), To(w)) <=> Op(w) = "add")
        BY <3>2 DEF PlanInv, AloneInv
      <4>2. Side(w) = <<To(w),
          From(w)>> /\ From(w) \in Users /\ To(w) \in Users /\ From(w) # To(w)
        BY <1>3, <3>2, WriteEffect DEF Side
      <4>3. rel'[<<To(w), From(w)>>].state = "friend" <=> Op(w) = "add"
        <5>1. rel'[<<To(w), From(w)>>] = Row(w)
          BY <1>3, <4>2, WriteEffect
        <5>2. CASE Op(w) = "add"
          BY <5>1, <5>2 DEF Row
        <5>3. CASE Op(w) = "del"
          BY <5>1, <5>3 DEF Row
        <5> QED BY <4>1, <5>2, <5>3
      <4>4. rel'[<<From(w), To(w)>>].state = "friend" <=> Op(w) = "add"
        BY <1>3, <4>1, <4>2, WriteEffect DEF IsFriend, Sides
      <4>5. (u = From(w) /\ v = To(w)) \/ (u = To(w) /\ v = From(w))
        BY <2>4, <4>2 DEF Pair
      <4> QED BY <4>3, <4>4, <4>5 DEF IsFriend
    <3>3. CASE ~ (pc[w] = "mine" /\ Op(w) # "single") /\ ~ (pc[w] = "theirs" /\ alone[w])
      BY <2>2, <2>4, <3>3
    <3> QED BY <3>1, <3>2, <3>3
  <2> QED BY <2>3, <2>4
<1>4. ASSUME NEW w \in Workers, NEW r \in Requests, Receive(w, r),
    UNCHANGED syncVars PROVE MutualFriends'
  <2>1. rel' = rel /\ (\A p \in SUBSET Users : p \in parted => p \in parted')
    BY <1>4 DEF Receive
  <2>2. ASSUME NEW x \in Workers, pc[x] = "theirs"
        PROVE  (pc'[x] = "theirs" /\ Pair(x)' = Pair(x)) \/ Pair(x) \in parted'
    BY <1>4, <2>2, Known1 DEF Receive, TypeOK, FriendTypeOK, Pair, From, To
  <2> QED BY <2>1, <2>2, SameRows
<1>5. ASSUME NEW w \in Workers, RowFails(w), UNCHANGED syncVars PROVE MutualFriends'
  <2>1. rel' = rel /\ (\A p \in SUBSET Users : p \in parted => p \in parted')
    BY <1>5 DEF RowFails, InRow, Go, After, jobVars
  <2>2. ASSUME NEW x \in Workers, pc[x] = "theirs"
        PROVE  (pc'[x] = "theirs" /\ Pair(x)' = Pair(x)) \/ Pair(x) \in parted'
    BY <1>5, <2>2, Known1 DEF RowFails, InRow, Go, After, jobVars, TypeOK, FriendTypeOK, Pair,
        From, To
  <2> QED BY <2>1, <2>2, SameRows
<1>6. ASSUME NEW w \in Workers, PrepareFails(w), UNCHANGED syncVars PROVE MutualFriends'
  <2>1. rel' = rel /\ (\A p \in SUBSET Users : p \in parted => p \in parted')
    BY <1>6 DEF PrepareFails, jobVars
  <2>2. ASSUME NEW x \in Workers, pc[x] = "theirs"
        PROVE  (pc'[x] = "theirs" /\ Pair(x)' = Pair(x)) \/ Pair(x) \in parted'
    BY <1>6, <2>2, Known1 DEF PrepareFails, jobVars, TypeOK, FriendTypeOK, Pair, From, To
  <2> QED BY <2>1, <2>2, SameRows
<1>7. ASSUME NEW w \in Workers, ClearRequest(w), UNCHANGED syncVars PROVE MutualFriends'
  <2>1. rel' = rel /\ (\A p \in SUBSET Users : p \in parted => p \in parted')
    BY <1>7 DEF ClearRequest, Go, After, jobVars
  <2>2. ASSUME NEW x \in Workers, pc[x] = "theirs"
        PROVE  (pc'[x] = "theirs" /\ Pair(x)' = Pair(x)) \/ Pair(x) \in parted'
    BY <1>7, <2>2, Known1 DEF ClearRequest, Go, After, jobVars, TypeOK, FriendTypeOK, Pair,
        From, To
  <2> QED BY <2>1, <2>2, SameRows
<1>8. ASSUME NEW w \in Workers, InsertRequest(w), UNCHANGED syncVars PROVE MutualFriends'
  <2>1. rel' = rel /\ (\A p \in SUBSET Users : p \in parted => p \in parted')
    BY <1>8 DEF InsertRequest, Go, After, jobVars
  <2>2. ASSUME NEW x \in Workers, pc[x] = "theirs"
        PROVE  (pc'[x] = "theirs" /\ Pair(x)' = Pair(x)) \/ Pair(x) \in parted'
    BY <1>8, <2>2, Known1 DEF InsertRequest, Go, After, jobVars, TypeOK, FriendTypeOK, Pair,
        From, To
  <2> QED BY <2>1, <2>2, SameRows
<1>9. ASSUME NEW w \in Workers, AnswerRequest(w), UNCHANGED syncVars PROVE MutualFriends'
  <2>1. rel' = rel /\ (\A p \in SUBSET Users : p \in parted => p \in parted')
    BY <1>9 DEF AnswerRequest, Go, After, jobVars
  <2>2. ASSUME NEW x \in Workers, pc[x] = "theirs"
        PROVE  (pc'[x] = "theirs" /\ Pair(x)' = Pair(x)) \/ Pair(x) \in parted'
    BY <1>9, <2>2, Known1 DEF AnswerRequest, Go, After, jobVars, TypeOK, FriendTypeOK, Pair,
        From, To
  <2> QED BY <2>1, <2>2, SameRows
<1>10. ASSUME NEW w \in Workers, RequestFails(w), UNCHANGED syncVars PROVE MutualFriends'
  <2>1. rel' = rel /\ (\A p \in SUBSET Users : p \in parted => p \in parted')
    BY <1>10 DEF RequestFails, Go, After, jobVars
  <2>2. ASSUME NEW x \in Workers, pc[x] = "theirs"
        PROVE  (pc'[x] = "theirs" /\ Pair(x)' = Pair(x)) \/ Pair(x) \in parted'
    BY <1>10, <2>2, Known1 DEF RequestFails, Go, After, jobVars, TypeOK, FriendTypeOK, Pair,
        From, To
  <2> QED BY <2>1, <2>2, SameRows
<1>11. ASSUME Crash, UNCHANGED syncVars PROVE MutualFriends'
  <2>1. rel' = rel /\ (\A p \in SUBSET Users : p \in parted => p \in parted')
    BY <1>11 DEF Crash, Halfway, jobVars
  <2>2. ASSUME NEW x \in Workers, pc[x] = "theirs"
        PROVE  (pc'[x] = "theirs" /\ Pair(x)' = Pair(x)) \/ Pair(x) \in parted'
    BY <1>11, <2>2, Known1 DEF Crash, Halfway, jobVars, TypeOK, FriendTypeOK, Pair, From, To
  <2> QED BY <2>1, <2>2, SameRows
<1>12. ASSUME UNCHANGED vars PROVE MutualFriends'
  <2>1. rel' = rel /\ (\A p \in SUBSET Users : p \in parted => p \in parted')
    BY <1>12 DEF vars, friendVars, jobVars, histVars
  <2>2. ASSUME NEW x \in Workers, pc[x] = "theirs"
        PROVE  (pc'[x] = "theirs" /\ Pair(x)' = Pair(x)) \/ Pair(x) \in parted'
    BY <1>12, <2>2, Known1 DEF vars, friendVars, jobVars, histVars, TypeOK, FriendTypeOK, Pair,
        From, To
  <2> QED BY <2>1, <2>2, SameRows
<1>13. ASSUME NEW y \in Users, ChangeCard(y) PROVE MutualFriends'
  <2>1. rel' = rel /\ (\A p \in SUBSET Users : p \in parted => p \in parted')
    BY <1>13 DEF ChangeCard, friendVars, jobVars, histVars
  <2>2. ASSUME NEW x \in Workers, pc[x] = "theirs"
        PROVE  (pc'[x] = "theirs" /\ Pair(x)' = Pair(x)) \/ Pair(x) \in parted'
    BY <1>13, <2>2, Known1 DEF ChangeCard, friendVars, jobVars, histVars, TypeOK, FriendTypeOK, Pair,
        From, To
  <2> QED BY <2>1, <2>2, SameRows
<1> QED BY <1>1, <1>2, <1>3, <1>4, <1>5, <1>6, <1>7, <1>8, <1>9, <1>10, <1>11, <1>12, <1>13
  DEF Next, Other, FriendOther

\* No request comes beside another.
LEMMA OnceStep ==
  ASSUME TypeOK, PlanInv, InsertInv, OneRequest, [Next]_vars
  PROVE  OneRequest'
<1> USE DEF PlanInv, InsertInv, OneRequest, TypeOK, FriendTypeOK, Op, Ops, From, To, Asked, Same
<1>1. ASSUME NEW u \in Readers, FetchList(u) PROVE OneRequest'
  BY <1>1, AskTypes, FriendAssumption, SyncAssumption, Known1 DEF Go, After, jobVars, histVars,
      friendVars, syncVars, vars, FetchList, Pages, Newer, IsLast, Renewing
<1>2. ASSUME NEW u \in Readers, FetchCards(u) PROVE OneRequest'
  BY <1>2, AskTypes, FriendAssumption, SyncAssumption, Known1 DEF Go, After, jobVars, histVars,
      friendVars, syncVars, vars, FetchCards, Pages, NewFriends, Renewing
<1>3. ASSUME NEW w \in Workers, Write(w) PROVE OneRequest'
  BY <1>3, AskTypes, FriendAssumption, SyncAssumption, Known1 DEF Go, After, jobVars, histVars,
      friendVars, syncVars, vars, Write, WriteRow, InRow, Side, Row, Pair, Renewing
<1>4. ASSUME NEW w \in Workers, NEW r \in Requests, Receive(w, r),
    UNCHANGED syncVars PROVE OneRequest'
  BY <1>4, AskTypes, FriendAssumption, SyncAssumption, Known1 DEF Go, After, jobVars, histVars,
      friendVars, syncVars, vars, Receive, First, Pcs, Renewing
<1>5. ASSUME NEW w \in Workers, RowFails(w), UNCHANGED syncVars PROVE OneRequest'
  BY <1>5, AskTypes, FriendAssumption, SyncAssumption, Known1 DEF Go, After, jobVars, histVars,
      friendVars, syncVars, vars, RowFails, InRow, Pair, Renewing
<1>6. ASSUME NEW w \in Workers, PrepareFails(w), UNCHANGED syncVars PROVE OneRequest'
  BY <1>6, AskTypes, FriendAssumption, SyncAssumption, Known1 DEF Go, After, jobVars, histVars,
      friendVars, syncVars, vars, PrepareFails, Pair, Asked, Renewing
<1>7. ASSUME NEW w \in Workers, ClearRequest(w), UNCHANGED syncVars PROVE OneRequest'
  BY <1>7, AskTypes, FriendAssumption, SyncAssumption, Known1 DEF Go, After, jobVars, histVars,
      friendVars, syncVars, vars, ClearRequest, Same, Asked, Renewing, Renewing
<1>8. ASSUME NEW w \in Workers, InsertRequest(w), UNCHANGED syncVars PROVE OneRequest'
  BY <1>8, AskTypes, FriendAssumption, SyncAssumption, Known1 DEF Go, After, jobVars, histVars,
      friendVars, syncVars, vars, InsertRequest, Renewing
<1>9. ASSUME NEW w \in Workers, AnswerRequest(w), UNCHANGED syncVars PROVE OneRequest'
  BY <1>9, AskTypes, FriendAssumption, SyncAssumption, Known1 DEF Go, After, jobVars, histVars,
      friendVars, syncVars, vars, AnswerRequest, Same, Renewing
<1>10. ASSUME NEW w \in Workers, RequestFails(w), UNCHANGED syncVars PROVE OneRequest'
  BY <1>10, AskTypes, FriendAssumption, SyncAssumption, Known1
    DEF Go, After, jobVars, histVars, friendVars, syncVars, vars, RequestFails, Asked, Renewing
<1>11. ASSUME Crash, UNCHANGED syncVars PROVE OneRequest'
  BY <1>11, AskTypes, FriendAssumption, SyncAssumption, Known1
    DEF Go, After, jobVars, histVars, friendVars, syncVars, vars, Crash, Halfway, Pair,
      Renewing, Asked, Renewing
<1>12. ASSUME UNCHANGED vars PROVE OneRequest'
  BY <1>12, AskTypes, FriendAssumption, SyncAssumption, Known1
    DEF Go, After, jobVars, histVars, friendVars, syncVars, vars, Renewing
<1>13. ASSUME NEW y \in Users, ChangeCard(y) PROVE OneRequest'
  BY <1>13, AskTypes, FriendAssumption, SyncAssumption, Known1
    DEF Go, After, jobVars, histVars, friendVars, syncVars, vars, ChangeCard, Renewing
<1> QED BY <1>1, <1>2, <1>3, <1>4, <1>5, <1>6, <1>7, <1>8, <1>9, <1>10, <1>11, <1>12, <1>13
  DEF Next, Other, FriendOther

\* Is a request of the asker stored?
Stored(a) == \E q \in reqs : Ask[q.req].from = a[1] /\ Ask[q.req].to = a[2]

\* Is the asker's request stored, noted as lost, or about to be renewed?
Minded(a) == Stored(a) \/ a \in lost \/ \E w \in Workers : Renewing(w, a)

\* A request that is stored, lost or being renewed stays one of these.
LEMMA MindedStep ==
  ASSUME TypeOK, PlanInv, NEW a \in Sides, Minded(a), [Next]_vars
  PROVE  Minded(a)'
<1>1. ASSUME NEW u \in Readers, FetchList(u) PROVE Minded(a)'
  <2>1. UNCHANGED <<reqs, lost, serving, pc>>
    BY <1>1 DEF FetchList, friendVars, jobVars, histVars
  <2> QED BY <2>1 DEF Minded, Stored, Renewing, Op, Asked, From, To
<1>2. ASSUME NEW u \in Readers, FetchCards(u) PROVE Minded(a)'
  <2>1. UNCHANGED <<reqs, lost, serving, pc>>
    BY <1>2 DEF FetchCards, friendVars, jobVars, histVars
  <2> QED BY <2>1 DEF Minded, Stored, Renewing, Op, Asked, From, To
<1>3. ASSUME NEW w \in Workers, Write(w) PROVE Minded(a)'
  <2>1. UNCHANGED <<reqs, lost,
      serving>> /\ pc' = [pc EXCEPT ![w] = After(w)] /\ pc[w] \in {"mine", "theirs"}
    BY <1>3 DEF Write, WriteRow, InRow, Go, jobVars
  <2>2. \A o \in Workers : pc[o] # "idle" /\ Op(o) = "ask" => pc'[o] = pc[o]
    BY <2>1 DEF PlanInv, TypeOK, FriendTypeOK
  <2> QED BY <2>1, <2>2 DEF Minded, Stored, Renewing, Op, Asked, From, To
<1>4. ASSUME NEW w \in Workers, NEW r \in Requests, Receive(w, r),
    UNCHANGED syncVars PROVE Minded(a)'
  <2>1. UNCHANGED <<reqs, lost>> /\ pc[w] = "idle" /\ serving' = [serving EXCEPT ![w] = r]
        /\ pc' = [pc EXCEPT ![w] = First(Ask[r].op)]
    BY <1>4 DEF Receive
  <2>2. \A o \in Workers : o # w => pc'[o] = pc[o] /\ serving'[o] = serving[o]
    BY <2>1 DEF TypeOK, FriendTypeOK
  <2> QED BY <2>1, <2>2 DEF Minded, Stored, Renewing, Op, Asked, From, To
<1>5. ASSUME NEW w \in Workers, RowFails(w), UNCHANGED syncVars PROVE Minded(a)'
  <2>1. UNCHANGED <<reqs, lost,
      serving>> /\ pc' = [pc EXCEPT ![w] = After(w)] /\ pc[w] \in {"mine", "theirs"}
    BY <1>5 DEF RowFails, InRow, Go, jobVars
  <2>2. \A o \in Workers : pc[o] # "idle" /\ Op(o) = "ask" => pc'[o] = pc[o]
    BY <2>1 DEF PlanInv, TypeOK, FriendTypeOK
  <2> QED BY <2>1, <2>2 DEF Minded, Stored, Renewing, Op, Asked, From, To
<1>6. ASSUME NEW w \in Workers, PrepareFails(w), UNCHANGED syncVars PROVE Minded(a)'
  <2>1. UNCHANGED <<reqs, serving>> /\ pc' = [pc EXCEPT ![w] = "idle"] /\ lost \subseteq lost'
        /\ (Op(w) = "ask" => Asked(w) \in lost')
    BY <1>6 DEF PrepareFails, jobVars
  <2>2. \A o \in Workers : o # w => pc'[o] = pc[o]
    BY <2>1 DEF TypeOK, FriendTypeOK
  <2>3. CASE Renewing(w, a)
    BY <2>1, <2>3 DEF Minded, Renewing
  <2>4. CASE ~ Renewing(w, a)
    BY <2>1, <2>2, <2>4 DEF Minded, Stored, Renewing, Op, Asked, From, To
  <2> QED BY <2>3, <2>4
<1>7. ASSUME NEW w \in Workers, ClearRequest(w), UNCHANGED syncVars PROVE Minded(a)'
  <2>1. UNCHANGED <<lost, serving>> /\ pc' = [pc EXCEPT ![w] = After(w)] /\ pc[w] = "clear"
        /\ reqs' = {q \in reqs : ~ Same(q.req, w)}
    BY <1>7 DEF ClearRequest, Go, jobVars
  <2>2. pc'[w] = "insert" /\ Op(w) = "ask" /\ \A o \in Workers : o # w => pc'[o] = pc[o]
    BY <2>1 DEF PlanInv, TypeOK, FriendTypeOK, After
  <2>3. CASE Asked(w) = a
    <3>1. Renewing(w, a)'
      BY <2>1, <2>2, <2>3 DEF Renewing, Op, Asked, From, To
    <3> QED BY <3>1 DEF Minded
  <2>4. CASE Asked(w) # a
    <3>1. Stored(a) => Stored(a)'
      BY <2>1, <2>4 DEF Stored, Same, Asked, Sides
    <3> QED BY <2>1, <2>2, <3>1 DEF Minded, Renewing, Op, Asked, From, To
  <2> QED BY <2>3, <2>4
<1>8. ASSUME NEW w \in Workers, InsertRequest(w), UNCHANGED syncVars PROVE Minded(a)'
  <2>1. UNCHANGED <<lost, serving>> /\ pc' = [pc EXCEPT ![w] = After(w)]
        /\ reqs' = reqs \cup {[req |-> serving[w], result |-> "asked"]}
    BY <1>8 DEF InsertRequest, Go, jobVars
  <2>2. \A o \in Workers : o # w => pc'[o] = pc[o]
    BY <2>1 DEF TypeOK, FriendTypeOK
  <2>3. CASE Renewing(w, a)
    <3>1. Ask[serving[w]].from = a[1] /\ Ask[serving[w]].to = a[2]
      BY <2>3 DEF Renewing, Asked, From, To
    <3>2. [req |-> serving[w], result |-> "asked"] \in reqs'
      BY <2>1
    <3>3. Stored(a)'
      BY <3>1, <3>2 DEF Stored
    <3> QED BY <3>3 DEF Minded
  <2>4. CASE ~ Renewing(w, a)
    BY <2>1, <2>2, <2>4 DEF Minded, Stored, Renewing, Op, Asked, From, To
  <2> QED BY <2>3, <2>4
<1>9. ASSUME NEW w \in Workers, AnswerRequest(w), UNCHANGED syncVars PROVE Minded(a)'
  <2>1. UNCHANGED <<lost, serving>> /\ pc' = [pc EXCEPT ![w] = After(w)] /\ pc[w] = "update"
    BY <1>9 DEF AnswerRequest, Go, jobVars
  <2>2. \A o \in Workers : pc[o] # "idle" /\ Op(o) = "ask" => pc'[o] = pc[o]
    BY <2>1 DEF PlanInv, TypeOK, FriendTypeOK
  <2>3. Stored(a) => Stored(a)'
    <3>1. reqs' = {IF Same(q.req, w) THEN [req |-> q.req,
        result |-> "answered"] ELSE q : q \in reqs}
      BY <1>9 DEF AnswerRequest
    <3>2. ASSUME NEW q \in reqs PROVE \E p \in reqs' : p.req = q.req
      <4>1. (IF Same(q.req, w) THEN [req |-> q.req, result |-> "answered"] ELSE q) \in reqs'
        BY <3>1
      <4> QED BY <4>1
    <3> QED BY <3>2 DEF Stored
  <2> QED BY <2>1, <2>2, <2>3 DEF Minded, Renewing, Op, Asked, From, To
<1>10. ASSUME NEW w \in Workers, RequestFails(w), UNCHANGED syncVars PROVE Minded(a)'
  <2>1. UNCHANGED <<reqs, serving>> /\ pc' = [pc EXCEPT ![w] = After(w)] /\ lost \subseteq lost'
        /\ (pc[w] = "insert" => Asked(w) \in lost') /\ pc[w] \in {"clear", "insert", "update"}
    BY <1>10 DEF RequestFails, Go, jobVars
  <2>2. \A o \in Workers : o # w => pc'[o] = pc[o]
    BY <2>1 DEF TypeOK, FriendTypeOK
  <2>3. CASE Renewing(w, a)
    <3>1. pc[w] = "clear" \/ pc[w] = "insert"
      BY <2>1, <2>3 DEF Renewing, PlanInv
    <3>2. pc[w] = "clear" => pc'[w] = "insert"
      BY <2>1 DEF After, TypeOK, FriendTypeOK
    <3> QED BY <2>1, <2>3, <3>1, <3>2 DEF Minded, Renewing, Op, Asked, From, To
  <2>4. CASE ~ Renewing(w, a)
    BY <2>1, <2>2, <2>4 DEF Minded, Stored, Renewing, Op, Asked, From, To
  <2> QED BY <2>3, <2>4
<1>11. ASSUME Crash, UNCHANGED syncVars PROVE Minded(a)'
  <2>1. reqs' = reqs /\ lost' = lost \cup {b \in Sides : \E w \in Workers : Renewing(w, b)}
    BY <1>11 DEF Crash
  <2> QED BY <2>1 DEF Minded, Stored
<1>12. ASSUME UNCHANGED vars PROVE Minded(a)'
  <2>1. UNCHANGED <<reqs, lost, serving, pc>>
    BY <1>12 DEF vars, friendVars, jobVars, histVars
  <2> QED BY <2>1 DEF Minded, Stored, Renewing, Op, Asked, From, To
<1>13. ASSUME NEW y \in Users, ChangeCard(y) PROVE Minded(a)'
  <2>1. UNCHANGED <<reqs, lost, serving, pc>>
    BY <1>13 DEF ChangeCard, friendVars, jobVars, histVars
  <2> QED BY <2>1 DEF Minded, Stored, Renewing, Op, Asked, From, To
<1> QED BY <1>1, <1>2, <1>3, <1>4, <1>5, <1>6, <1>7, <1>8, <1>9, <1>10, <1>11, <1>12, <1>13
  DEF Next, Other, FriendOther

\* A worker that comes to its end has renewed the request or noted its loss.
LEMMA KeptStep ==
  ASSUME TypeOK, PlanInv, RequestKept, [Next]_vars
  PROVE  RequestKept'
<1> SUFFICES ASSUME NEW w \in Workers, serving'[w] \in Requests, Op(w)' = "ask", pc'[w] = "idle"
             PROVE  Minded(Asked(w))'
  BY DEF RequestKept, Minded, Stored, Same, Asked
<1>1. serving'[w] = serving[w]
  <2>1. ASSUME NEW v \in Workers, NEW r \in Requests, Receive(v,
      r) PROVE serving'[w] = serving[w]
    <3>1. v # w
      BY <2>1 DEF Receive, First, TypeOK, FriendTypeOK
    <3> QED BY <2>1, <3>1 DEF Receive, TypeOK, FriendTypeOK
  <2>2. CASE serving' = serving
    BY <2>2
  <2> QED BY <2>1, <2>2 DEF Next, Other, FriendOther, FetchList, FetchCards, ChangeCard, Write,
            WriteRow, RowFails, PrepareFails, ClearRequest, InsertRequest, AnswerRequest, RequestFails,
                Crash,
            friendVars, jobVars, vars
<1>2. Op(w) = "ask" /\ serving[w] \in Requests /\ Asked(w) \in Sides /\ Asked(w)' = Asked(w)
  BY <1>1, AskTypes DEF Op, Asked, From, To, Sides
<1>3. Minded(Asked(w))
  <2>1. CASE pc[w] = "idle"
    BY <1>2, <2>1 DEF RequestKept, Minded, Stored, Same, Asked
  <2>2. CASE pc[w] # "idle"
    BY <1>2, <2>2 DEF Minded, Renewing
  <2> QED BY <2>1, <2>2
<1>4. ASSUME NEW a \in Sides, Minded(a) PROVE Minded(a)'
  BY <1>4, MindedStep
<1> QED BY <1>2, <1>3, <1>4

\* What a list answer leaves out is newer than its time, or noted.
LEMMA ListStep ==
  ASSUME TypeOK, ListTold, [Next]_vars
  PROVE  ListTold'
<1>1. ASSUME NEW u \in Readers, FetchList(u) PROVE ListTold'
  <2>1. PICK page \in Pages(u, Newer(u)), t \in 1 .. MaxTime :
          /\ IsLast(u, page, t)
          /\ list' = [list EXCEPT ![u] =
                [at |-> t, has |-> [v \in Users |-> IF v \in page THEN rel[<<u, v>>].state
                                                               ELSE list[u].has[v]]]]
          /\ missed' = [missed EXCEPT !["list"] =
                @ \cup {<<u, v>> : v \in {x \in Newer(u) \ page : Time(u, x) = t}}]
          /\ UNCHANGED <<friendVars, card, cards, leapt>>
    BY <1>1 DEF FetchList
  <2>2. rel' = rel /\ \A x \in Readers, v \in Users : Time(x, v)' = Time(x, v)
    BY <2>1 DEF friendVars, Time
  <2>3. missed["list"] \subseteq missed'["list"]
    BY <2>1 DEF TypeOK
  <2>4. \A v \in Newer(u) \ page : Time(u, v) = t => <<u, v>> \in missed'["list"]
    BY <2>1 DEF TypeOK
  <2>5. list'[u].at = t /\ \A v \in Users : list'[u].has[v] = IF v \in page THEN rel[<<u,
      v>>].state
                                                                       ELSE list[u].has[v]
    BY <2>1 DEF TypeOK
  <2>6. ASSUME NEW v \in Newer(u) \ page, Time(u, v) <= t PROVE Time(u, v) = t
    <3>1. PICK x \in page : Time(u, x) = t
      BY <2>1 DEF IsLast
    <3>2. Time(u, x) <= Time(u, v)
      BY <2>1 DEF Pages
    <3>3. u \in Users /\ v \in Users
      BY SyncAssumption DEF Newer
    <3>4. Time(u, v) \in Int
      BY <3>3 DEF Time, TypeOK, FriendTypeOK, Sides
    <3> QED BY <2>6, <3>1, <3>2, <3>4
  <2>7. SUFFICES ASSUME NEW x \in Readers, NEW v \in Users, Joined(x, v),
                        rel[<<x, v>>].state # "none", Time(x, v) <= list'[x].at
                 PROVE  list'[x].has[v] = rel[<<x, v>>].state \/ <<x, v>> \in missed'["list"]
    BY <2>2 DEF ListTold
  <2>8. CASE x # u
    <3>1. list'[x] = list[x]
      BY <2>1, <2>8 DEF TypeOK
    <3> QED BY <2>3, <2>7, <3>1 DEF ListTold
  <2>9. CASE x = u /\ v \in page
    BY <2>5, <2>9
  <2>10. CASE x = u /\ v \notin page /\ Time(u, v) <= list[u].at
    BY <2>3, <2>5, <2>7, <2>10 DEF ListTold
  <2>11. CASE x = u /\ v \notin page /\ ~ (Time(u, v) <= list[u].at)
    <3>1. u \in Users
      BY SyncAssumption
    <3>2. Time(u, v) \in Int /\ list[u].at \in Int
      BY <3>1 DEF Time, TypeOK, FriendTypeOK, Sides
    <3>3. v \in Newer(u) \ page /\ Time(u, v) <= t
      BY <2>5, <2>7, <2>11, <3>2 DEF Newer
    <3> QED BY <2>4, <2>6, <2>11, <3>3
  <2> QED BY <2>8, <2>9, <2>10, <2>11
<1>2. ASSUME NEW u \in Readers, FetchCards(u) PROVE ListTold'
  <2>1. rel' = rel /\ list' = list /\ missed'["list"] = missed["list"]
    BY <1>2 DEF FetchCards, friendVars, jobVars, histVars, TypeOK
  <2> QED BY <2>1 DEF ListTold, Time, IsFriend
<1>3. ASSUME NEW w \in Workers, Write(w) PROVE ListTold'
  <2> SUFFICES ASSUME NEW u \in Readers, NEW v \in Users, Joined(u, v),
                      rel'[<<u, v>>].state # "none", Time(u, v)' <= list'[u].at
               PROVE  list'[u].has[v] = rel'[<<u, v>>].state \/ <<u, v>> \in missed'["list"]
    BY DEF ListTold
  <2>1. list' = list /\ u \in Users /\ <<u, v>> \in Sides
    BY <1>3, SyncAssumption DEF Write, Sides
  <2>2. missed'["list"] = IF Side(w)[1] \notin Readers \/ Row(w) = rel[Side(w)] THEN missed["list"]
                         ELSE IF Row(w).time <= Known(Side(w)[1],
                             "list") THEN missed["list"] \cup {Side(w)}
                         ELSE missed["list"] \ {Side(w)}
    BY <1>3 DEF Write
  <2>3. CASE Side(w) # <<u, v>>
    BY <1>3, <2>1, <2>2, <2>3, WriteEffect DEF ListTold, Time
  <2>4. CASE Side(w) = <<u, v>>
    <3>1. rel'[<<u, v>>] = Row(w)
      BY <1>3, <2>4, WriteEffect
    <3>2. CASE Row(w) = rel[Side(w)]
      BY <2>1, <2>2, <2>4, <3>1, <3>2 DEF ListTold, Time
    <3>3. CASE Row(w) # rel[Side(w)]
      BY <2>1, <2>2, <2>4, <3>1, <3>3 DEF Known, Time
    <3> QED BY <3>2, <3>3
  <2> QED BY <2>3, <2>4
<1>4. ASSUME NEW w \in Workers, NEW r \in Requests, Receive(w, r),
    UNCHANGED syncVars PROVE ListTold'
  <2>1. rel' = rel /\ list' = list /\ missed' = missed
    BY <1>4 DEF Receive, syncVars
  <2> QED BY <2>1 DEF ListTold, Time, IsFriend
<1>5. ASSUME NEW w \in Workers, RowFails(w), UNCHANGED syncVars PROVE ListTold'
  <2>1. rel' = rel /\ list' = list /\ missed' = missed
    BY <1>5 DEF RowFails, syncVars
  <2> QED BY <2>1 DEF ListTold, Time, IsFriend
<1>6. ASSUME NEW w \in Workers, PrepareFails(w), UNCHANGED syncVars PROVE ListTold'
  <2>1. rel' = rel /\ list' = list /\ missed' = missed
    BY <1>6 DEF PrepareFails, syncVars
  <2> QED BY <2>1 DEF ListTold, Time, IsFriend
<1>7. ASSUME NEW w \in Workers, ClearRequest(w), UNCHANGED syncVars PROVE ListTold'
  <2>1. rel' = rel /\ list' = list /\ missed' = missed
    BY <1>7 DEF ClearRequest, syncVars
  <2> QED BY <2>1 DEF ListTold, Time, IsFriend
<1>8. ASSUME NEW w \in Workers, InsertRequest(w), UNCHANGED syncVars PROVE ListTold'
  <2>1. rel' = rel /\ list' = list /\ missed' = missed
    BY <1>8 DEF InsertRequest, syncVars
  <2> QED BY <2>1 DEF ListTold, Time, IsFriend
<1>9. ASSUME NEW w \in Workers, AnswerRequest(w), UNCHANGED syncVars PROVE ListTold'
  <2>1. rel' = rel /\ list' = list /\ missed' = missed
    BY <1>9 DEF AnswerRequest, syncVars
  <2> QED BY <2>1 DEF ListTold, Time, IsFriend
<1>10. ASSUME NEW w \in Workers, RequestFails(w), UNCHANGED syncVars PROVE ListTold'
  <2>1. rel' = rel /\ list' = list /\ missed' = missed
    BY <1>10 DEF RequestFails, syncVars
  <2> QED BY <2>1 DEF ListTold, Time, IsFriend
<1>11. ASSUME Crash, UNCHANGED syncVars PROVE ListTold'
  <2>1. rel' = rel /\ list' = list /\ missed' = missed
    BY <1>11 DEF Crash, syncVars
  <2> QED BY <2>1 DEF ListTold, Time, IsFriend
<1>12. ASSUME UNCHANGED vars PROVE ListTold'
  <2>1. rel' = rel /\ list' = list /\ missed' = missed
    BY <1>12 DEF vars, syncVars, friendVars, jobVars, histVars
  <2> QED BY <2>1 DEF ListTold, Time, IsFriend
<1>13. ASSUME NEW y \in Users, ChangeCard(y) PROVE ListTold'
  <2>1. rel' = rel /\ list' = list /\ missed' = missed
    BY <1>13 DEF ChangeCard, syncVars, friendVars, jobVars, histVars
  <2> QED BY <2>1 DEF ListTold, Time, IsFriend
<1> QED BY <1>1, <1>2, <1>3, <1>4, <1>5, <1>6, <1>7, <1>8, <1>9, <1>10, <1>11, <1>12, <1>13
  DEF Next, Other, FriendOther

\* What a card answer leaves out is newer than its time, or noted.
LEMMA CardsStep ==
  ASSUME TypeOK, CardsTold, [Next]_vars
  PROVE  CardsTold'
<1>1. ASSUME NEW u \in Readers, FetchList(u) PROVE CardsTold'
  <2>1. UNCHANGED <<rel, cards, leapt>> /\ missed'["cards"] = missed["cards"]
    BY <1>1 DEF FetchList, friendVars, jobVars, histVars, TypeOK
  <2> QED BY <2>1 DEF CardsTold, Time, IsFriend
<1>2. ASSUME NEW u \in Readers, FetchCards(u) PROVE CardsTold'
  <2>1. PICK page \in Pages(u, NewFriends(u)), l, t \in 0 .. MaxTime : CardsAnswer(u, page, l, t)
    BY <1>2 DEF FetchCards, CardsAnswer
  <2>2. rel' = rel /\ \A x \in Readers, v \in Users :
                        Time(x, v)' = Time(x, v) /\ (IsFriend(x, v)' <=> IsFriend(x, v))
    BY <2>1 DEF CardsAnswer, friendVars, Time, IsFriend
  <2>3. missed["cards"] \subseteq missed'["cards"]
    BY <2>1 DEF CardsAnswer, TypeOK
  <2>4. \A v \in NewFriends(u) \ page : Time(u, v) = l /\ l <= t => <<u, v>> \in missed'["cards"]
    BY <2>1 DEF CardsAnswer, TypeOK
  <2>5. /\ cards'[u].at = t /\ cards'[u].has = cards[u].has \cup page
        /\ leapt'[u] = (leapt[u] \cap 0 .. t) \cup (l + 1 .. t)
    BY <2>1 DEF CardsAnswer, TypeOK
  <2>6. SUFFICES ASSUME NEW x \in Readers, NEW v \in Users, Joined(x, v),
                        IsFriend(x, v), Time(x, v) <= cards'[x].at
                 PROVE  \/ v \in cards'[x].has \/ <<x, v>> \in missed'["cards"]
                        \/ Time(x, v) \in leapt'[x]
    BY <2>2 DEF CardsTold
  <2>7. CASE x # u
    <3>1. cards'[x] = cards[x] /\ leapt'[x] = leapt[x]
      BY <2>1, <2>7 DEF CardsAnswer, TypeOK
    <3> QED BY <2>3, <2>6, <3>1 DEF CardsTold
  <2>8. CASE x = u /\ v \in page
    BY <2>5, <2>8
  <2>9. x = u => Time(u, v) \in Int /\ Time(u, v) >= 0 /\ cards[u].at \in Int
    BY SyncAssumption DEF Time, TypeOK, FriendTypeOK, Sides
  <2>10. CASE x = u /\ v \notin page /\ Time(u, v) <= cards[u].at
    <3>1. v \in cards[u].has \/ <<u, v>> \in missed["cards"] \/ Time(u, v) \in leapt[u]
      BY <2>6, <2>10 DEF CardsTold
    <3>2. Time(u, v) \in 0 .. t
      BY <2>5, <2>6, <2>9, <2>10
    <3> QED BY <2>3, <2>5, <2>10, <3>1, <3>2
  <2>11. CASE x = u /\ v \notin page /\ ~ (Time(u, v) <= cards[u].at)
    <3>1. v \in NewFriends(u) \ page /\ Time(u, v) <= t
      BY <2>5, <2>6, <2>9, <2>11 DEF NewFriends
    <3>2. l <= Time(u, v)
      <4>1. PICK y \in page : Time(u, y) = l
        BY <2>1 DEF CardsAnswer, IsLast
      <4>2. Time(u, y) <= Time(u, v)
        BY <2>1, <3>1 DEF Pages
      <4> QED BY <4>1, <4>2
    <3>3. CASE Time(u, v) = l
      BY <2>4, <2>11, <3>1, <3>3
    <3>4. CASE Time(u, v) # l
      <4>1. Time(u, v) \in l + 1 .. t
        BY <2>9, <2>11, <3>1, <3>2, <3>4
      <4> QED BY <2>5, <2>11, <4>1
    <3> QED BY <3>3, <3>4
  <2> QED BY <2>7, <2>8, <2>10, <2>11
<1>3. ASSUME NEW w \in Workers, Write(w) PROVE CardsTold'
  <2> SUFFICES ASSUME NEW u \in Readers, NEW v \in Users, Joined(u, v),
                      IsFriend(u, v)', Time(u, v)' <= cards'[u].at
               PROVE  \/ v \in cards'[u].has \/ <<u, v>> \in missed'["cards"]
                      \/ Time(u, v)' \in leapt'[u]
    BY DEF CardsTold
  <2>1. cards' = cards /\ leapt' = leapt /\ u \in Users /\ <<u, v>> \in Sides
    BY <1>3, SyncAssumption DEF Write, Sides
  <2>2. missed'["cards"] = IF Side(w)[1] \notin Readers \/ Row(w) = rel[Side(w)] THEN missed["cards"]
                         ELSE IF Row(w).time <= Known(Side(w)[1],
                             "cards") THEN missed["cards"] \cup {Side(w)}
                         ELSE missed["cards"] \ {Side(w)}
    BY <1>3 DEF Write
  <2>3. CASE Side(w) # <<u, v>>
    BY <1>3, <2>1, <2>2, <2>3, WriteEffect DEF CardsTold, Time, IsFriend
  <2>4. CASE Side(w) = <<u, v>>
    <3>1. rel'[<<u, v>>] = Row(w)
      BY <1>3, <2>4, WriteEffect
    <3>2. CASE Row(w) = rel[Side(w)]
      BY <2>1, <2>2, <2>4, <3>1, <3>2 DEF CardsTold, Time, IsFriend
    <3>3. CASE Row(w) # rel[Side(w)]
      BY <2>1, <2>2, <2>4, <3>1, <3>3 DEF Known, Time
    <3> QED BY <3>2, <3>3
  <2> QED BY <2>3, <2>4
<1>4. ASSUME NEW w \in Workers, NEW r \in Requests, Receive(w, r),
    UNCHANGED syncVars PROVE CardsTold'
  <2>1. UNCHANGED <<rel, cards, missed, leapt>>
    BY <1>4 DEF Receive, syncVars
  <2> QED BY <2>1 DEF CardsTold, Time, IsFriend
<1>5. ASSUME NEW w \in Workers, RowFails(w), UNCHANGED syncVars PROVE CardsTold'
  <2>1. UNCHANGED <<rel, cards, missed, leapt>>
    BY <1>5 DEF RowFails, syncVars
  <2> QED BY <2>1 DEF CardsTold, Time, IsFriend
<1>6. ASSUME NEW w \in Workers, PrepareFails(w), UNCHANGED syncVars PROVE CardsTold'
  <2>1. UNCHANGED <<rel, cards, missed, leapt>>
    BY <1>6 DEF PrepareFails, syncVars
  <2> QED BY <2>1 DEF CardsTold, Time, IsFriend
<1>7. ASSUME NEW w \in Workers, ClearRequest(w), UNCHANGED syncVars PROVE CardsTold'
  <2>1. UNCHANGED <<rel, cards, missed, leapt>>
    BY <1>7 DEF ClearRequest, syncVars
  <2> QED BY <2>1 DEF CardsTold, Time, IsFriend
<1>8. ASSUME NEW w \in Workers, InsertRequest(w), UNCHANGED syncVars PROVE CardsTold'
  <2>1. UNCHANGED <<rel, cards, missed, leapt>>
    BY <1>8 DEF InsertRequest, syncVars
  <2> QED BY <2>1 DEF CardsTold, Time, IsFriend
<1>9. ASSUME NEW w \in Workers, AnswerRequest(w), UNCHANGED syncVars PROVE CardsTold'
  <2>1. UNCHANGED <<rel, cards, missed, leapt>>
    BY <1>9 DEF AnswerRequest, syncVars
  <2> QED BY <2>1 DEF CardsTold, Time, IsFriend
<1>10. ASSUME NEW w \in Workers, RequestFails(w), UNCHANGED syncVars PROVE CardsTold'
  <2>1. UNCHANGED <<rel, cards, missed, leapt>>
    BY <1>10 DEF RequestFails, syncVars
  <2> QED BY <2>1 DEF CardsTold, Time, IsFriend
<1>11. ASSUME Crash, UNCHANGED syncVars PROVE CardsTold'
  <2>1. UNCHANGED <<rel, cards, missed, leapt>>
    BY <1>11 DEF Crash, syncVars
  <2> QED BY <2>1 DEF CardsTold, Time, IsFriend
<1>12. ASSUME UNCHANGED vars PROVE CardsTold'
  <2>1. UNCHANGED <<rel, cards, missed, leapt>>
    BY <1>12 DEF vars, syncVars, friendVars, jobVars, histVars
  <2> QED BY <2>1 DEF CardsTold, Time, IsFriend
<1>13. ASSUME NEW y \in Users, ChangeCard(y) PROVE CardsTold'
  <2>1. UNCHANGED <<rel, cards, missed, leapt>>
    BY <1>13 DEF ChangeCard, syncVars, friendVars, jobVars, histVars
  <2> QED BY <2>1 DEF CardsTold, Time, IsFriend
<1> QED BY <1>1, <1>2, <1>3, <1>4, <1>5, <1>6, <1>7, <1>8, <1>9, <1>10, <1>11, <1>12, <1>13
  DEF Next, Other, FriendOther

-----------------------------------------------------------------------------
(* The theorems.                                                           *)

\* The invariant holds to begin with.
LEMMA InitInv ==
  Init => IndInv
<1> SUFFICES ASSUME Init PROVE IndInv
  OBVIOUS
<1> USE FriendAssumption, SyncAssumption DEF Init, FriendInit
<1>1. TypeOK
  <2>1. FriendTypeOK
    BY DEF FriendTypeOK, Pcs, Sides, States
  <2> QED BY <2>1 DEF TypeOK, States
<1>2. PlanInv /\ AloneInv /\ InsertInv
  BY DEF PlanInv, AloneInv, InsertInv
<1>3. MutualFriends
  BY DEF MutualFriends, IsFriend, Sides
<1>4. RequestStoredOnce
  BY DEF RequestStoredOnce, OneRequest, RequestKept
<1>5. ClientsTold
  BY DEF ClientsTold, ListTold, CardsTold, IsFriend, Sides
<1> QED BY <1>1, <1>2, <1>3, <1>4, <1>5 DEF IndInv

\* Every step keeps it.
LEMMA NextInv ==
  IndInv /\ [Next]_vars => IndInv'
BY TypeStep, PlanStep, AloneStep, InsertStep, MutualStep, OnceStep, KeptStep, ListStep,
    CardsStep
  DEF IndInv, RequestStoredOnce, ClientsTold

LEMMA Invariant ==
  SafetySpec => []IndInv
BY InitInv, NextInv, PTL DEF SafetySpec

\* Every variable keeps to its type: in particular a worker that is busy has a
\* message, and the update_time of a row is one some server sent.
THEOREM TypeCorrect ==
  SafetySpec => []TypeOK
BY Invariant, PTL DEF IndInv

\* set_friend_manage's two rows: a user is a friend of its friend, however many
\* workers change rows, unless two met at the pair, a statement failed, the
\* process died between the two, or "single" changed one side.
THEOREM FriendsAreMutual ==
  SafetySpec => []MutualFriends
BY Invariant, PTL DEF IndInv

\* set_friend_req's delete and insert: a handled request is stored, once, but
\* for failures, a crash and two workers at the same request.
THEOREM RequestsStoredOnce ==
  SafetySpec => []RequestStoredOnce
BY Invariant, PTL DEF IndInv

\* get_frequent_chat and get_all_user_info, for any page size: a client asking on
\* from the update_time of its last answer knows every older row but those
\* written with a time it was past, those for which an answer had no room among
\* rows of their time, and the friends a card newer than its friendship led it past.
THEOREM ClientsAreTold ==
  SafetySpec => []ClientsTold
BY Invariant, PTL DEF IndInv
=============================================================================
