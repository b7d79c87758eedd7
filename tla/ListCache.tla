----------------------------- MODULE ListCache -------------------------------
(***************************************************************************)
(* The lists this program keeps in redis beside their rows in MySQL: the   *)
(* members of a group (gml_), the groups of a user (ugl_), the friends of  *)
(* a user (uf_) and a user's card (ui_).  A handler changes rows, and then *)
(* rebuilds the values behind them: select all the rows, then set.  No     *)
(* lock and no transaction spans the two, each worker has connections of   *)
(* its own, and the handlers ignore what a rebuild returns.                *)
(*                                                                         *)
(* A handler is straight-line code: its plan is the sequence of the        *)
(* statements still ahead of it.  The rows behind a key are represented by *)
(* how often they have changed (every statement stamps update_time, so no  *)
(* two values are equal), and `rows' says which users have a row in a      *)
(* group: rows are marked is_delete, never removed.                        *)
(***************************************************************************)
EXTENDS Integers, Sequences, FiniteSets

CONSTANTS Workers,
          Groups,       \* keys gml_: the groups themselves
          Users,        \* keys ugl_, uf_ and ui_: a user has one of each
          Cards,        \* those of them that are cards, ui_
          Requests,     \* the requests there are
          NoRequest,
          Ask,          \* what each of them asks for
          Batches,      \* the sets of them that may come together
          Failures,     \* which of "mysql" and "redis" may fail
          MaxCrashes    \* bound: how often the process may be killed

Keys == Groups \cup Users

Ops == {"create", "add", "del", "modify", "dissolve", "refresh", "friend",
        "profile", "quiet"}

ASSUME CacheAssumption ==
  /\ IsFiniteSet(Users) /\ Groups \cap Users = {} /\ NoRequest \notin Requests
  /\ Ask \in [Requests -> [op : Ops, group : Groups, users : Seq(Keys)]]
  /\ \A r \in Requests :
       /\ Ask[r].op \in {"create", "friend", "profile", "quiet", "refresh"} => Ask[r].users # <<>>
       /\ Ask[r].op \notin {"refresh", "quiet"} => Ask[r].users \in Seq(Users)
  /\ MaxCrashes \in Nat

ASSUME BatchesAssumption == Batches \subseteq SUBSET Requests

ASSUME CardsAssumption ==
  /\ Cards \subseteq Users
  /\ \A r \in Requests :
       /\ Ask[r].op = "profile" => Ask[r].users \in Seq(Cards)
       /\ Ask[r].op \in {"create", "add", "del", "friend"} => Ask[r].users \in Seq(Users \ Cards)

VARIABLES
  db,        \* MySQL: the state of the rows behind each key
  rows,      \* MySQL: the users that have a row in each group
  cache,     \* redis: the state of the rows each value was built from
  waiting,   \* requests no worker has taken yet
  serving,   \* the request of each worker
  todo,      \* the steps ahead of its handler
  snap,      \* what its rebuild has selected
  ret,       \* ret_temp, or what the rebuild will return
  done,      \* history: statements of its handler that succeeded
  answer,    \* history: what was answered, and which statements had succeeded
  adrift,    \* history: keys something nobody repairs has happened to
  crashes

dbVars  == <<db, rows>>
jobVars == <<waiting, serving, todo, snap, ret, done>>
vars == <<dbVars, cache, jobVars, answer, adrift, crashes>>

-----------------------------------------------------------------------------
(* The handlers.                                                           *)

S(do, key) == [do |-> do, key |-> key]

Writes == {"create", "add", "exit", "touch", "dissolve", "update", "quiet"}
Dos == Writes \cup {"query", "list", "refresh", "store", "answer"}
Steps == [do : Dos, key : Keys]

Each(do, us) == [i \in DOMAIN us |-> S(do, us[i])]

\* set_group_create: users[1] is the owner.  A "query" is a statement whose
\* failure ends the handler, without an answer.
CreateGroup(q) ==
  <<S("query", q.group), S("create", Head(q.users)), S("query", q.group)>>
  \o Each("add", Tail(q.users))
  \o <<S("query", q.group), S("answer", q.group), S("refresh", q.group)>>

\* set_group_change.  MODIFY runs no statement.
ChangeGroup(q) ==
  CASE q.op = "add" -> <<S("query", q.group)>> \o Each("add", q.users)
                       \o <<S("answer", q.group), S("refresh", q.group)>>
    [] q.op = "del" -> <<S("query", q.group)>> \o Each("exit", q.users)
                       \o <<S("answer", q.group), S("refresh", q.group)>>
    [] q.op = "modify" -> <<S("answer", q.group), S("refresh", q.group)>>

\* Mutant: the group lists of the members are not rebuilt.
DissolveGroup_NoList(q) ==
  <<S("query", q.group), S("dissolve", q.group), S("answer", q.group),
    S("refresh", q.group)>>

\* set_group_dissolve
DissolveGroup(q) ==
  <<S("query", q.group), S("dissolve", q.group), S("answer", q.group),
    S("refresh", q.group), S("list", q.group)>>

\* Mutant: both lists are rebuilt after the answer.
ManageFriend_AnswerFirst(q) ==
  LET all(do) == [i \in 1 .. Len(q.users) |-> S(do, q.users[i])] IN
    all("update") \o <<S("answer", q.group)>> \o all("refresh")

\* set_friend_manage: both sides, or one.
ManageFriend(q) ==
  <<S("query", q.users[1]), S("touch", q.users[1])>>
  \o (IF Len(q.users) = 1 THEN <<>>
      ELSE <<S("query", q.users[2]), S("touch", q.users[2])>>)
  \o <<S("answer", q.group)>>

\* set_user_info, set_user_avatar, set_user_sign_info
SetUserInfo(q) ==
  <<S("query", q.users[1]), S("update", q.users[1]), S("answer", q.group),
    S("refresh", q.users[1])>>

\* set_group_owner, set_group_disturb, set_group_list: rows behind a list
\* change, and the list is not rebuilt.
SetQuietly(q) ==
  <<S("query", q.users[1]), S("quiet", q.users[1]), S("answer", q.group)>>

\* update_group_member_list, update_user_group_list, update_user_friend_list,
\* update_user_info: another server asks for a rebuild.
UpdateList(q) == <<S("refresh", q.users[1]), S("answer", q.group)>>

Plan(q) ==
  CASE q.op = "create" -> CreateGroup(q)
    [] q.op \in {"add", "del", "modify"} -> ChangeGroup(q)
    [] q.op = "dissolve" -> DissolveGroup(q)
    [] q.op = "friend" -> ManageFriend(q)
    [] q.op = "profile" -> SetUserInfo(q)
    [] q.op = "quiet" -> SetQuietly(q)
    [] q.op = "refresh" -> UpdateList(q)

\* set_group_change leaves ret_temp uninitialised; the answer of
\* set_friend_manage does not depend on its statements.
FirstRet(q) == IF q.op \in {"add", "del", "modify"} THEN "any" ELSE "success"

-----------------------------------------------------------------------------
Codes == {"success", "fail", "unset"}

At(w, do) == todo[w] # <<>> /\ Head(todo[w]).do = do
Key(w)    == Head(todo[w]).key
Group(w)  == Ask[serving[w]].group
Op(w)     == Ask[serving[w]].op

\* Has w a rebuild of k ahead of it, or half done?
Owes(w, k) ==
  \E i \in DOMAIN todo[w] :
    \/ todo[w][i] \in {S("refresh", k), S("store", k)}
    \/ todo[w][i].do = "list" /\ k \in rows[todo[w][i].key]

TypeOK ==
  /\ db \in [Keys -> Nat] /\ cache \in [Keys -> Nat]
  /\ rows \in [Groups -> SUBSET Users]
  /\ waiting \subseteq Requests
  /\ serving \in [Workers -> Requests \cup {NoRequest}]
  /\ todo \in [Workers -> Seq(Steps)]
  /\ \A w \in Workers : todo[w] # <<>> => serving[w] \in Requests
  /\ snap \in [Workers -> Nat]
  /\ ret \in [Workers -> {"success", "fail", "any"}]
  /\ done \in [Workers -> SUBSET Steps]
  /\ answer \in [Requests -> [code : Codes \cup {"none"}, did : SUBSET Steps]]
  /\ adrift \in [Keys -> BOOLEAN]
  /\ crashes \in 0 .. MaxCrashes

Init ==
  /\ db = [k \in Keys |-> 0] /\ cache = [k \in Keys |-> 0]
  /\ rows = [g \in Groups |-> {}]
  /\ waiting \in Batches
  /\ serving = [w \in Workers |-> NoRequest]
  /\ todo = [w \in Workers |-> <<>>]
  /\ snap = [w \in Workers |-> 0]
  /\ ret = [w \in Workers |-> "success"]
  /\ done = [w \in Workers |-> {}]
  /\ answer = [r \in Requests |-> [code |-> "none", did |-> {}]]
  /\ adrift = [k \in Keys |-> FALSE]
  /\ crashes = 0

-----------------------------------------------------------------------------
Pop(w) == todo' = [todo EXCEPT ![w] = Tail(@)]
Turn(w, do) == todo' = [todo EXCEPT ![w] = <<S(do, Key(w))>> \o Tail(@)]
Ended(w) == done' = [done EXCEPT ![w] = @ \cup {Head(todo[w])}]

\* The handler ends here: what it still owes stays as it is.
Break(w) ==
  /\ todo' = [todo EXCEPT ![w] = <<>>]
  /\ adrift' = [k \in Keys |-> adrift[k] \/ (Owes(w, k) /\ cache[k] # db[k])]

Receive(w, r) ==
  /\ todo[w] = <<>> /\ r \in waiting
  /\ waiting' = waiting \ {r}
  /\ serving' = [serving EXCEPT ![w] = r]
  /\ todo' = [todo EXCEPT ![w] = Plan(Ask[r])]
  /\ ret' = [ret EXCEPT ![w] = FirstRet(Ask[r])]
  /\ done' = [done EXCEPT ![w] = {}]
  /\ UNCHANGED <<dbVars, cache, snap, answer, adrift, crashes>>

Query(w) ==
  /\ At(w, "query")
  /\ Pop(w)
  /\ UNCHANGED <<dbVars, cache, waiting, serving, snap, ret, done, answer, adrift, crashes>>

QueryFails(w) ==
  /\ "mysql" \in Failures
  /\ At(w, "query") \/ At(w, "list")
  /\ Break(w)
  /\ UNCHANGED <<dbVars, cache, waiting, serving, snap, ret, done, answer, crashes>>

\* The keys whose rows a statement of w changes (the stored procedures of
\* MySQL among them).
Touched(w) ==
  LET g == Group(w)  u == Key(w) IN
    IF At(w, "create") \/ At(w, "add") THEN {u, g}
    ELSE IF At(w, "exit") THEN (IF u \in rows[g] THEN {u, g} ELSE {})
    ELSE IF At(w, "dissolve") THEN rows[g] \cup {g}
    ELSE {u}

\* The outcome of a statement the answer of the handler goes by.  That of
\* group_member_add in set_group_create and of the statements of
\* set_friend_manage is only logged.
Counts(w) == ~ (Op(w) = "friend" \/ (Op(w) = "create" /\ At(w, "add")))

\* Mutant: the rebuild stores what this worker selected last.
AfterWrite_NoSelect(w) ==
  IF Head(todo[w]).do \in {"create", "add", "exit", "touch"} THEN Turn(w, "store") ELSE Pop(w)

\* After these the list of the user is rebuilt at once; that of a group, and
\* a user's card, only after the answer.
AfterWrite(w) ==
  IF Head(todo[w]).do \in {"create", "add", "exit", "touch"} THEN Turn(w, "refresh") ELSE Pop(w)

Execute(w) ==
  /\ \E do \in Writes : At(w, do)
  /\ db' = [k \in Keys |-> IF k \in Touched(w) THEN db[k] + 1 ELSE db[k]]
  /\ rows' = IF At(w, "create") \/ At(w, "add")
             THEN [rows EXCEPT ![Group(w)] = @ \cup {Key(w)}] ELSE rows
  /\ ret' = IF Counts(w) THEN [ret EXCEPT ![w] = "success"] ELSE ret
  /\ adrift' = IF At(w, "quiet") THEN [adrift EXCEPT ![Key(w)] = TRUE] ELSE adrift
  /\ AfterWrite(w) /\ Ended(w)
  /\ UNCHANGED <<cache, waiting, serving, snap, answer, crashes>>

\* Only the quiet handlers give up.
ExecuteFails(w) ==
  /\ "mysql" \in Failures
  /\ \E do \in Writes : At(w, do)
  /\ ret' = IF Counts(w) THEN [ret EXCEPT ![w] = "fail"] ELSE ret
  /\ \/ ~ At(w, "quiet") /\ AfterWrite(w) /\ UNCHANGED adrift
     \/ At(w, "quiet") /\ Break(w)
  /\ UNCHANGED <<dbVars, cache, waiting, serving, snap, done, answer, crashes>>

-----------------------------------------------------------------------------
(* The rebuilds: redis_group_member_list, redis_user_group_list,           *)
(* redis_user_friend_list, redis_user_info.                                *)

Storing(w, k) == At(w, "store") /\ Key(w) = k

\* A rebuild nobody else is in the middle of puts the key right again; one
\* that overlaps another does not.
Select(w) ==
  /\ At(w, "refresh")
  /\ snap' = [snap EXCEPT ![w] = db[Key(w)]]
  /\ adrift' = [adrift EXCEPT ![Key(w)] = \E v \in Workers \ {w} : Storing(v, Key(w))]
  /\ ret' = IF Op(w) = "refresh" /\ db[Key(w)] = 0 /\ Key(w) \notin Cards
            THEN [ret EXCEPT ![w] = "fail"] ELSE ret
  /\ Turn(w, "store")
  /\ UNCHANGED <<dbVars, cache, waiting, serving, done, answer, crashes>>

\* redis_user_info joins the card with the user's place in the tree.  Without a
\* row it leaves what redis holds, and returns success.
SelectNothing(w) ==
  /\ At(w, "refresh") /\ Key(w) \in Cards
  /\ adrift' = [adrift EXCEPT ![Key(w)] = TRUE]
  /\ Pop(w)
  /\ UNCHANGED <<dbVars, cache, waiting, serving, snap, ret, done, answer, crashes>>

SelectFails(w) ==
  /\ "mysql" \in Failures
  /\ At(w, "refresh")
  /\ adrift' = [adrift EXCEPT ![Key(w)] = TRUE]
  /\ ret' = IF Op(w) = "refresh" THEN [ret EXCEPT ![w] = "fail"] ELSE ret
  /\ Pop(w)
  /\ UNCHANGED <<dbVars, cache, waiting, serving, snap, done, answer, crashes>>

Store(w) ==
  /\ At(w, "store")
  /\ cache' = [cache EXCEPT ![Key(w)] = snap[w]]
  /\ Pop(w) /\ Ended(w)
  /\ UNCHANGED <<dbVars, waiting, serving, snap, ret, answer, adrift, crashes>>

\* cache_conn::set drops the value when it cannot connect or gets no reply;
\* its callers do not look.
StoreLost(w) ==
  /\ "redis" \in Failures
  /\ At(w, "store")
  /\ adrift' = [adrift EXCEPT ![Key(w)] = TRUE]
  /\ Pop(w)
  /\ UNCHANGED <<dbVars, cache, waiting, serving, snap, ret, done, answer, crashes>>

Orders(us) == {s \in [1 .. Cardinality(us) -> us] : \A u \in us : \E i \in DOMAIN s : s[i] = u}

\* set_group_dissolve selects the users that have a row in the group and
\* rebuilds the list of each.
ListMembers(w) ==
  /\ At(w, "list")
  /\ \E us \in Orders(rows[Key(w)]) :
       todo' = [todo EXCEPT ![w] = Each("refresh", us) \o Tail(@)]
  /\ UNCHANGED <<dbVars, cache, waiting, serving, snap, ret, done, answer, adrift, crashes>>

Answer(w) ==
  /\ At(w, "answer")
  /\ \E code \in IF ret[w] = "any" THEN Codes ELSE {ret[w]} :
       answer' = [answer EXCEPT ![serving[w]] = [code |-> code, did |-> done[w]]]
  /\ Pop(w)
  /\ UNCHANGED <<dbVars, cache, waiting, serving, snap, ret, done, adrift, crashes>>

\* killall -9, and restart.sh: MySQL and redis keep what they hold.
Crash ==
  /\ crashes < MaxCrashes
  /\ crashes' = crashes + 1
  /\ todo' = [w \in Workers |-> <<>>]
  /\ adrift' = [k \in Keys |-> adrift[k] \/ cache[k] # db[k]]
  /\ UNCHANGED <<dbVars, cache, waiting, serving, snap, ret, done, answer>>

Work(w) ==
  \/ \E r \in Requests : Receive(w, r)
  \/ Query(w) \/ QueryFails(w)
  \/ Execute(w) \/ ExecuteFails(w)
  \/ Select(w) \/ SelectNothing(w) \/ SelectFails(w) \/ Store(w) \/ StoreLost(w)
  \/ ListMembers(w) \/ Answer(w)

Next == (\E w \in Workers : Work(w)) \/ Crash

Spec == Init /\ [][Next]_vars

-----------------------------------------------------------------------------
\* A value in redis is as new as the rows behind it, unless a handler is still
\* going to rebuild it, or something happened that no handler repairs: two
\* rebuilds of the key overlapped, a statement or a redis write of a rebuild
\* failed, the join behind a card had no row (its user is in no department), the
\* handler was cut short, or the rows were changed by a handler that rebuilds
\* nothing.
CacheCurrent ==
  \A k \in Keys : cache[k] = db[k] \/ adrift[k] \/ \E w \in Workers : Owes(w, k)

\* When set_group_create, set_group_change and set_friend_manage answer, the
\* lists of the users they changed have been rebuilt: one that is out of date
\* then is another handler's to rebuild, or adrift.  (Not so for
\* set_group_dissolve and for the list of the group, rebuilt after the answer.)
AnsweredListsCurrent ==
  \A w \in Workers :
    At(w, "answer") /\ Op(w) \in {"create", "add", "del", "friend"} =>
      \A i \in DOMAIN Ask[serving[w]].users :
        LET u == Ask[serving[w]].users[i] IN
          cache[u] = db[u] \/ adrift[u] \/ \E v \in Workers \ {w} : Owes(v, u)

\* A value in redis is replaced by an older one only when two rebuilds of the
\* key have overlapped.
OnlyOverlapsGoBack ==
  [][\A k \in Keys : cache'[k] >= cache[k] \/ adrift[k]]_vars

\* IM.Group.proto:213: the answer to ADD carries the ids that were added.
AddedIdsWereAdded ==
  \A r \in Requests :
    Ask[r].op = "add" /\ answer[r].code # "none" =>
      \A i \in DOMAIN Ask[r].users : S("add", Ask[r].users[i]) \in answer[r].did
=============================================================================
