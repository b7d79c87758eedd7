----------------------------- MODULE Friendship ------------------------------
(***************************************************************************)
(* Friendships and the requests for them.  A friendship is two rows, one   *)
(* in the table of each side, marked is_delete when it ends and stamped    *)
(* with the update_time the asking server put into the message.  The       *)
(* handlers change the two rows by two statements, in whatever worker gets *)
(* the message, without a transaction; a request for a friendship is       *)
(* renewed by a delete and an insert.  An execute that fails is logged and *)
(* passed over, a prepare that fails ends the handler.  (The lists in      *)
(* redis that are rebuilt between the statements are in ListCache.)        *)
(***************************************************************************)
EXTENDS Integers, FiniteSets

CONSTANTS Workers, Users,
          Requests, NoRequest,
          Ask,            \* [op, from, to] of each request
          Batches,        \* the sets of requests a behaviour may bring
          MaxTime,        \* bound: the latest update_time
          Failures,       \* whether "mysql" may fail
          MaxCrashes      \* bound: how often the process may be killed

Ops == {"add", "del", "single", "ask", "result"}
States == {"none", "friend", "deleted"}
Sides == Users \X Users

ASSUME FriendAssumption ==
  /\ NoRequest \notin Requests /\ MaxTime \in Nat /\ MaxCrashes \in Nat
  /\ Ask \in [Requests -> [op : Ops, from : Users, to : Users]]
  /\ \A r \in Requests : Ask[r].from # Ask[r].to
  /\ Batches \subseteq SUBSET Requests

VARIABLES
  rel,       \* MySQL: the row of each side
  reqs,      \* MySQL: the rows of t_im_user_friend_req
  waiting,   \* messages no worker has taken yet
  serving, pc,   \* the message of a worker, and the statement it is at
  time,      \* the update_time of the message a worker has
  alone,     \* history: no other handler was at the pair since the first row
  parted,    \* history: pairs something has happened to that may part them
  renewed,   \* history: requests (asker, asked) that may be stored twice
  lost,      \* history: requests (asker, asked) that may not be stored
  crashes

jobVars == <<waiting, serving, time>>
histVars == <<alone, parted, renewed, lost>>
friendVars == <<rel, reqs, jobVars, pc, histVars, crashes>>

-----------------------------------------------------------------------------
Pcs == {"idle", "mine", "theirs", "clear", "insert", "update"}

\* Mutant: the old request is not deleted.
First_NoClear(op) ==
  IF op \in {"add", "del", "single"} THEN "mine" ELSE IF op = "ask" THEN "insert" ELSE "update"

\* The first statement of set_friend_manage, set_friend_req, set_friend_req_result.
First(op) ==
  IF op \in {"add", "del", "single"} THEN "mine" ELSE IF op = "ask" THEN "clear" ELSE "update"

From(w) == Ask[serving[w]].from
To(w) == Ask[serving[w]].to
Op(w) == Ask[serving[w]].op
Pair(w) == {From(w), To(w)}
Asked(w) == <<From(w), To(w)>>
Side(w) == IF pc[w] = "mine" THEN <<From(w), To(w)>> ELSE <<To(w), From(w)>>

FriendTypeOK ==
  /\ rel \in [Sides -> [state : States, time : 0 .. MaxTime]]
  /\ reqs \in SUBSET [req : Requests, result : {"asked", "answered"}]
  /\ waiting \subseteq Requests
  /\ serving \in [Workers -> Requests \cup {NoRequest}]
  /\ pc \in [Workers -> Pcs]
  /\ time \in [Workers -> 0 .. MaxTime]
  /\ \A w \in Workers : pc[w] # "idle" => serving[w] \in Requests
  /\ alone \in [Workers -> BOOLEAN]
  /\ parted \subseteq SUBSET Users /\ renewed \subseteq Sides /\ lost \subseteq Sides
  /\ crashes \in 0 .. MaxCrashes

FriendInit ==
  /\ rel = [s \in Sides |-> [state |-> "none", time |-> 0]]
  /\ reqs = {}
  /\ waiting \in Batches
  /\ serving = [w \in Workers |-> NoRequest]
  /\ pc = [w \in Workers |-> "idle"]
  /\ time = [w \in Workers |-> 0]
  /\ alone = [w \in Workers |-> FALSE]
  /\ parted = {} /\ renewed = {} /\ lost = {}
  /\ crashes = 0

-----------------------------------------------------------------------------
\* The servers put the times into the messages, each by its own clock.
Receive(w, r) ==
  /\ pc[w] = "idle" /\ r \in waiting
  /\ \E t \in (IF Ask[r].op \in {"add", "del", "single"} THEN 1 .. MaxTime ELSE {0}) :
       time' = [time EXCEPT ![w] = t]
  /\ waiting' = waiting \ {r}
  /\ serving' = [serving EXCEPT ![w] = r]
  /\ pc' = [pc EXCEPT ![w] = First(Ask[r].op)]
  /\ alone' = [alone EXCEPT ![w] = FALSE]
  /\ UNCHANGED <<rel, reqs, parted, renewed, lost, crashes>>

\* Mutant: the other side is not told that it lost a friend.
After_DelOne(w) ==
  IF pc[w] = "mine" /\ Op(w) = "add" THEN "theirs" ELSE IF pc[w] = "clear" THEN "insert" ELSE "idle"

\* The second statement of ADD and DEL, and of a request; the end of the others.
After(w) ==
  IF pc[w] = "mine" /\ Op(w) # "single" THEN "theirs"
  ELSE IF pc[w] = "clear" THEN "insert" ELSE "idle"

Go(w) == pc' = [pc EXCEPT ![w] = After(w)]
InRow(w) == pc[w] = "mine" \/ pc[w] = "theirs"

\* Is a handler between the two rows of the pair?
Halfway(w, p) == pc[w] = "theirs" /\ Pair(w) = p

\* insert .. on duplicate key update, or update .. set is_delete = 1: that one
\* changes nothing where there is no row.
Row(w) ==
  IF Op(w) # "del" THEN [state |-> "friend", time |-> time[w]]
  ELSE IF rel[Side(w)].state # "none" THEN [state |-> "deleted", time |-> time[w]]
  ELSE rel[Side(w)]

\* The handler that has come to its second row alone leaves both alike.
WriteRow(w) ==
  /\ InRow(w)
  /\ rel' = [rel EXCEPT ![Side(w)] = Row(w)]
  /\ alone' = [o \in Workers |-> IF o = w THEN pc[w] = "mine"
                                ELSE alone[o] /\ ~ (pc[o] # "idle" /\ Pair(o) = Pair(w))]
  /\ parted' = IF pc[w] = "mine" /\ Op(w) # "single" THEN parted
               ELSE IF pc[w] = "theirs" /\ alone[w] THEN parted \ {Pair(w)}
               ELSE parted \cup {Pair(w)}
  /\ Go(w)
  /\ UNCHANGED <<reqs, jobVars, renewed, lost, crashes>>

\* execute() fails: the other row is changed all the same.
RowFails(w) ==
  /\ "mysql" \in Failures /\ InRow(w)
  /\ alone' = [alone EXCEPT ![w] = FALSE]
  /\ parted' = parted \cup {Pair(w)}
  /\ Go(w)
  /\ UNCHANGED <<rel, reqs, jobVars, renewed, lost, crashes>>

\* init() fails: there is no answer either.
PrepareFails(w) ==
  /\ "mysql" \in Failures /\ pc[w] # "idle"
  /\ pc' = [pc EXCEPT ![w] = "idle"]
  /\ parted' = IF pc[w] = "theirs" THEN parted \cup {Pair(w)} ELSE parted
  /\ lost' = IF Op(w) = "ask" THEN lost \cup {Asked(w)} ELSE lost
  /\ UNCHANGED <<rel, reqs, jobVars, alone, renewed, crashes>>

-----------------------------------------------------------------------------
(* Requests for a friendship.                                              *)

Same(r, w) == Ask[r].from = From(w) /\ Ask[r].to = To(w)
Renewing(o, a) == pc[o] # "idle" /\ Op(o) = "ask" /\ Asked(o) = a

ClearRequest(w) ==
  /\ pc[w] = "clear"
  /\ reqs' = {q \in reqs : ~ Same(q.req, w)}
  /\ renewed' = IF \E o \in Workers \ {w} : Renewing(o, Asked(w))
                THEN renewed \cup {Asked(w)} ELSE renewed
  /\ Go(w)
  /\ UNCHANGED <<rel, jobVars, alone, parted, lost, crashes>>

InsertRequest(w) ==
  /\ pc[w] = "insert"
  /\ reqs' = reqs \cup {[req |-> serving[w], result |-> "asked"]}
  /\ Go(w)
  /\ UNCHANGED <<rel, jobVars, alone, parted, renewed, lost, crashes>>

\* update t_im_user_friend_req set req_result = ?
AnswerRequest(w) ==
  /\ pc[w] = "update"
  /\ reqs' = {IF Same(q.req, w) THEN [req |-> q.req, result |-> "answered"] ELSE q : q \in reqs}
  /\ Go(w)
  /\ UNCHANGED <<rel, jobVars, alone, parted, renewed, lost, crashes>>

\* A failed delete may leave the old request beside the new one.
RequestFails(w) ==
  /\ "mysql" \in Failures
  /\ \/ pc[w] = "clear" /\ renewed' = renewed \cup {Asked(w)} /\ UNCHANGED lost
     \/ pc[w] = "insert" /\ lost' = lost \cup {Asked(w)} /\ UNCHANGED renewed
     \/ pc[w] = "update" /\ UNCHANGED <<renewed, lost>>
  /\ Go(w)
  /\ UNCHANGED <<rel, reqs, jobVars, alone, parted, crashes>>

Crash ==
  /\ crashes < MaxCrashes
  /\ crashes' = crashes + 1
  /\ pc' = [w \in Workers |-> "idle"]
  /\ parted' = parted \cup {p \in SUBSET Users : \E w \in Workers : Halfway(w, p)}
  /\ lost' = lost \cup {a \in Sides : \E w \in Workers : Renewing(w, a)}
  /\ UNCHANGED <<rel, reqs, jobVars, alone, renewed>>

\* Every step that writes no row of a friendship.
FriendOther ==
  \/ \E w \in Workers :
       \/ \E r \in Requests : Receive(w, r)
       \/ RowFails(w) \/ PrepareFails(w)
       \/ ClearRequest(w) \/ InsertRequest(w) \/ AnswerRequest(w) \/ RequestFails(w)
  \/ Crash

-----------------------------------------------------------------------------
IsFriend(u, v) == rel[<<u, v>>].state = "friend"

\* Two users are each other's friends or neither is the other's, except while
\* a handler is between the two rows, after two handlers were at the pair at
\* once, a statement failed, the process died, or only one side was asked for.
\* A handler that then changes the pair undisturbed mends it.
MutualFriends ==
  \A u, v \in Users :
    IsFriend(u, v) /\ ~ IsFriend(v, u) =>
      {u, v} \in parted \/ \E w \in Workers : Halfway(w, {u, v})

\* A user who was asked has one request of the asker, the latest, unless two
\* were stored at once or the old one could not be deleted.
OneRequest ==
  \A q, p \in reqs :
    q # p /\ Ask[q.req].from = Ask[p.req].from /\ Ask[q.req].to = Ask[p.req].to =>
      <<Ask[q.req].from, Ask[q.req].to>> \in renewed

\* A request that was handled, and that no handler is renewing, is there
\* unless its insert failed or the handler died before it.
RequestKept ==
  \A w \in Workers :
    serving[w] \in Requests /\ Op(w) = "ask" /\ pc[w] = "idle" =>
      \/ \E q \in reqs : Same(q.req, w)
      \/ Asked(w) \in lost
      \/ \E o \in Workers : Renewing(o, Asked(w))

\* set_friend_req deletes and inserts: but for failures and for two workers at
\* it at once there is exactly one request of an asker to a user it has asked.
RequestStoredOnce == OneRequest /\ RequestKept
=============================================================================
