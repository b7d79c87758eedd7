--------------------------- MODULE OfflineMessages ---------------------------
(***************************************************************************)
(* Messages in MySQL (handler_msg.cpp): every message has a row in a       *)
(* history table, and one for a user who is away has a second row in       *)
(* t_im_chat_offline_msg, until that user asks how many there are.  The    *)
(* count is a select grouped by sender, a look into the history for one    *)
(* message of each sender, a delete of all the user's rows, and only then  *)
(* the answer.  A recall renames the message in both tables to the id of   *)
(* its notice.  No two statements of a handler are in one transaction, and *)
(* the pool gives the requests of one client to different workers.         *)
(*                                                                         *)
(* A message stands for its id; To[m] is a user, or a group whose messages *)
(* have a history and no offline rows.                                     *)
(***************************************************************************)
EXTENDS Integers, FiniteSets

CONSTANTS Workers,
          Ids, NoId,    \* the ids of messages and of notices
          Users, Groups,
          From, To,     \* who sent a message, and to whom
          Requests,     \* the requests of a behaviour
          NoRequest,
          Ask,          \* what each of them asks for
          MaxFaults     \* bound: how many statements fail, and kills

Ops == {"offline", "online", "recall", "count"}

ASSUME MessagesAssumption ==
  /\ Users \cap Groups = {} /\ NoRequest \notin Requests /\ NoId \notin Ids
  /\ From \in [Ids -> Users] /\ To \in [Ids -> Users \cup Groups]
  /\ Ask \in [Requests -> [op : Ops, id : Ids, of : Ids, user : Users]]
  \* A message is stored once, and a notice is new and of its message's conversation.
  /\ \A q, r \in Requests :
       Ask[q].op # "count" /\ Ask[r].op # "count" /\ Ask[q].id = Ask[r].id => q = r
  /\ \A r \in Requests :
       Ask[r].op = "recall" => /\ From[Ask[r].of] = From[Ask[r].id]
                               /\ To[Ask[r].of] = To[Ask[r].id]
                               /\ Ask[r].of # Ask[r].id
  /\ MaxFaults \in Nat

VARIABLES
  history,   \* the ids in the three history tables
  offline,   \* the ids in t_im_chat_offline_msg
  waiting,   \* requests no worker has taken yet
  serving,   \* the request of each worker
  pc,        \* the statement it is at
  seen,      \* the offline rows its count has selected
  pick,      \* of the senders still to look up, the message the select gave
  listed,    \* the rows of the senders put into the answer
  told,      \* history: the messages whose count was answered
  twice,     \* history: those that were counted again
  gone,      \* history: the messages whose offline row a count has deleted
  exposed,   \* history: messages something happened to while they were counted
  torn,      \* history: messages stored or recalled by half, too early, or at once
  recalled,  \* history: messages whose recall went through
  redone,    \* history: users with overlapping counts, or a count that deleted nothing
  faults

tables == <<history, offline>>
job    == <<waiting, serving, pc>>
count  == <<seen, pick, listed>>
ghosts == <<told, twice, gone, exposed, torn, recalled, redone>>
vars   == <<tables, job, count, ghosts, faults>>

-----------------------------------------------------------------------------
Q(w)  == Ask[serving[w]]
M(w)  == Q(w).id
Of(w) == Q(w).of

Box(u) == {m \in offline : To[m] = u}
Talk(m) == {n \in Ids : From[n] = From[m] /\ To[n] = To[m]}

\* Between its select and its delete.
Counting(w, u) == pc[w] = "lookup" /\ Q(w).user = u
BeingCounted(u) == \E w \in Workers : Counting(w, u)

\* A request that brings m is waiting, or a worker is at it.
Coming(m) ==
  \E r \in Requests :
    /\ Ask[r].op # "count" /\ Ask[r].id = m
    /\ r \in waiting \/ \E w \in Workers : serving[w] = r /\ pc[w] # "idle"

\* The notices under way that are to replace m.
Notices(m) == {M(w) : w \in {v \in Workers : pc[v] \in {"rename", "notice"} /\ Of(v) = m}}

Pcs == {"idle", "history", "offline", "rename", "notice", "select", "lookup", "answer"}

TypeOK ==
  /\ history \subseteq Ids /\ offline \subseteq Ids
  /\ waiting \subseteq Requests
  /\ serving \in [Workers -> Requests \cup {NoRequest}]
  /\ pc \in [Workers -> Pcs]
  /\ \A w \in Workers : pc[w] # "idle" => serving[w] \in Requests
  /\ seen \in [Workers -> SUBSET Ids] /\ listed \in [Workers -> SUBSET Ids]
  /\ pick \in [Workers -> [Users -> Ids \cup {NoId}]]
  /\ told \subseteq Ids /\ twice \subseteq Ids /\ gone \subseteq Ids
  /\ exposed \subseteq Ids /\ torn \subseteq Ids /\ recalled \subseteq Ids
  /\ redone \subseteq Users
  /\ faults \in 0 .. MaxFaults

NoPick == [u \in Users |-> NoId]

Init ==
  /\ history = {} /\ offline = {}
  /\ waiting = Requests
  /\ serving = [w \in Workers |-> NoRequest]
  /\ pc = [w \in Workers |-> "idle"]
  /\ seen = [w \in Workers |-> {}] /\ listed = [w \in Workers |-> {}]
  /\ pick = [w \in Workers |-> NoPick]
  /\ told = {} /\ twice = {} /\ gone = {}
  /\ exposed = {} /\ torn = {} /\ recalled = {} /\ redone = {}
  /\ faults = 0

-----------------------------------------------------------------------------
Go(w, to) == pc' = [pc EXCEPT ![w] = to] /\ UNCHANGED <<waiting, serving>>

Fail == faults < MaxFaults /\ faults' = faults + 1

\* The statement each handler starts with.  set_offline_msg_data does nothing
\* for a group; for a group's message set_recall_msg_data has no offline row
\* to rename.
First(q) ==
  CASE q.op = "offline" -> IF To[q.id] \in Users THEN "history" ELSE "idle"
    [] q.op = "online"  -> "history"
    [] q.op = "recall"  -> IF To[q.of] \in Users THEN "rename" ELSE "notice"
    [] q.op = "count"   -> "select"

Receive(w, r) ==
  /\ pc[w] = "idle" /\ r \in waiting
  /\ waiting' = waiting \ {r}
  /\ serving' = [serving EXCEPT ![w] = r]
  /\ pc' = [pc EXCEPT ![w] = First(Ask[r])]
  /\ torn' = IF Ask[r].op = "recall" /\ (Coming(Ask[r].of) \/ Notices(Ask[r].of) # {})
             THEN torn \cup {Ask[r].of} \cup Notices(Ask[r].of) ELSE torn
  /\ UNCHANGED <<tables, count, told, twice, gone, exposed, recalled, redone, faults>>

-----------------------------------------------------------------------------
(* set_offline_msg_data, set_online_msg_data                               *)

AfterHistory(w) == IF Q(w).op = "offline" THEN "offline" ELSE "idle"

InsertHistory(w) ==
  /\ pc[w] = "history"
  /\ history' = history \cup {M(w)}
  /\ Go(w, AfterHistory(w))
  /\ UNCHANGED <<offline, count, ghosts, faults>>

\* A statement that cannot be prepared ends the handler; one that fails when
\* it is executed only writes a line to the log.
InsertHistoryFails(w) ==
  /\ pc[w] = "history" /\ Fail
  /\ Go(w, "idle") \/ Go(w, AfterHistory(w))
  /\ torn' = torn \cup {M(w)}
  /\ UNCHANGED <<tables, count, told, twice, gone, exposed, recalled, redone>>

InsertOffline(w) ==
  /\ pc[w] = "offline"
  /\ offline' = offline \cup {M(w)}
  /\ exposed' = IF BeingCounted(To[M(w)]) THEN exposed \cup {M(w)} ELSE exposed
  /\ Go(w, "idle")
  /\ UNCHANGED <<history, count, told, twice, gone, torn, recalled, redone, faults>>

InsertOfflineFails(w) ==
  /\ pc[w] = "offline" /\ Fail
  /\ Go(w, "idle")
  /\ UNCHANGED <<tables, count, ghosts>>

-----------------------------------------------------------------------------
(* set_recall_msg_data                                                     *)

\* Mutant: the notice is added and the message stays.
Renamed_Kept(table, w) == IF Of(w) \in table THEN table \cup {M(w)} ELSE table

Renamed(table, w) == IF Of(w) \in table THEN (table \ {Of(w)}) \cup {M(w)} ELSE table

\* A recall during a count may hide any message of the conversation.
Expose(w, box) ==
  exposed' = IF BeingCounted(To[M(w)]) THEN exposed \cup (box \cap Talk(M(w))) ELSE exposed

\* Mutant: only the history is renamed.
Rename_HistoryOnly(w) ==
  /\ pc[w] = "rename"
  /\ Go(w, "notice")
  /\ UNCHANGED <<tables, count, ghosts, faults>>

Rename(w) ==
  /\ pc[w] = "rename"
  /\ offline' = Renamed(offline, w)
  /\ torn' = IF Of(w) \in torn THEN torn \cup {M(w)} ELSE torn
  /\ Expose(w, offline')
  /\ Go(w, "notice")
  /\ UNCHANGED <<history, count, told, twice, gone, recalled, redone, faults>>

RenameFails(w) ==
  /\ pc[w] = "rename" /\ Fail
  /\ \/ Go(w, "idle") /\ UNCHANGED torn
     \/ Go(w, "notice") /\ torn' = torn \cup {Of(w)}
  /\ UNCHANGED <<tables, count, told, twice, gone, exposed, recalled, redone>>

Notice(w) ==
  /\ pc[w] = "notice"
  /\ history' = Renamed(history, w)
  /\ recalled' = recalled \cup {Of(w)}
  /\ Expose(w, offline)
  /\ Go(w, "idle")
  /\ UNCHANGED <<offline, count, told, twice, gone, torn, redone, faults>>

NoticeFails(w) ==
  /\ pc[w] = "notice" /\ Fail
  /\ torn' = torn \cup {M(w), Of(w)}
  /\ Go(w, "idle")
  /\ UNCHANGED <<tables, count, told, twice, gone, exposed, recalled, redone>>

-----------------------------------------------------------------------------
(* get_offline_msg_cnt                                                     *)

\* count(*), msg_id ... group by sender: MySQL gives some id of the group.
Picks(rows) ==
  {f \in [Users -> rows \cup {NoId}] :
     \A u \in Users : IF \E m \in rows : From[m] = u THEN f[u] # NoId /\ From[f[u]] = u
                                                     ELSE f[u] = NoId}

\* A count that starts when no other count of the user is running sees what
\* was exposed before; a recall half done exposes its conversation.
Select(w) ==
  LET u == Q(w).user  rows == Box(u)
      halfway == {m \in rows : \E v \in Workers : pc[v] = "notice" /\ m \in Talk(M(v))} IN
  /\ pc[w] = "select"
  /\ seen' = [seen EXCEPT ![w] = rows]
  /\ \E f \in Picks(rows) : pick' = [pick EXCEPT ![w] = f]
  /\ listed' = [listed EXCEPT ![w] = {}]
  /\ exposed' = (IF BeingCounted(u) THEN exposed ELSE exposed \ rows) \cup halfway
  /\ redone' = IF BeingCounted(u) THEN redone \cup {u} ELSE redone
  /\ Go(w, "lookup")
  /\ UNCHANGED <<tables, told, twice, gone, torn, recalled, faults>>

\* Until the statement that looks a message up is prepared, a failure ends the
\* handler.
SelectFails(w) ==
  /\ pc[w] = "select" /\ Fail
  /\ Go(w, "idle")
  /\ UNCHANGED <<tables, count, ghosts>>

ToLookUp(w) == {u \in Users : pick[w][u] # NoId}

\* Mutant: a sender counts for one message.
Lookup_OnlyLatest(w) ==
  /\ pc[w] = "lookup"
  /\ \E u \in ToLookUp(w) :
       /\ listed' = [listed EXCEPT ![w] = @ \cup ({pick[w][u]} \cap history)]
       /\ pick' = [pick EXCEPT ![w][u] = NoId]
  /\ UNCHANGED <<tables, job, seen, ghosts, faults>>

\* A sender whose message is not in the history is left out of the answer.
\* (So is one whose message is longer than the 8 KB it is read into: every
\* message here is short enough.)
Lookup(w) ==
  /\ pc[w] = "lookup"
  /\ \E u \in ToLookUp(w) :
       /\ listed' = [listed EXCEPT ![w] =
                       IF pick[w][u] \in history THEN @ \cup {m \in seen[w] : From[m] = u} ELSE @]
       /\ pick' = [pick EXCEPT ![w][u] = NoId]
  /\ UNCHANGED <<tables, job, seen, ghosts, faults>>

\* The break leaves only the loop over the senders: the delete still follows.
LookupFails(w) ==
  /\ pc[w] = "lookup" /\ ToLookUp(w) # {} /\ Fail
  /\ exposed' = exposed \cup {m \in seen[w] : From[m] \in ToLookUp(w)}
  /\ pick' = [pick EXCEPT ![w] = NoPick]
  /\ UNCHANGED <<tables, job, seen, listed, told, twice, gone, torn, recalled, redone>>

\* Mutant: the rows are left where they are.
Delete_Nothing(w) ==
  /\ pc[w] = "lookup" /\ ToLookUp(w) = {}
  /\ Go(w, "answer")
  /\ UNCHANGED <<tables, count, ghosts, faults>>

Delete(w) ==
  /\ pc[w] = "lookup" /\ ToLookUp(w) = {}
  /\ offline' = offline \ Box(Q(w).user)
  /\ gone' = gone \cup Box(Q(w).user)
  /\ Go(w, "answer")
  /\ UNCHANGED <<history, count, told, twice, exposed, torn, recalled, redone, faults>>

DeleteFails(w) ==
  /\ pc[w] = "lookup" /\ ToLookUp(w) = {} /\ Fail
  /\ Go(w, "idle") \/ Go(w, "answer")
  /\ redone' = redone \cup {Q(w).user}
  /\ UNCHANGED <<tables, count, told, twice, gone, exposed, torn, recalled>>

Answer(w) ==
  /\ pc[w] = "answer"
  /\ told' = told \cup listed[w]
  /\ twice' = twice \cup (told \cap listed[w])
  /\ Go(w, "idle")
  /\ UNCHANGED <<tables, count, gone, exposed, torn, recalled, redone, faults>>

-----------------------------------------------------------------------------
\* killall -9, and restart.sh.  What a handler had left to do stays undone.
Crash ==
  /\ Fail
  /\ pc' = [w \in Workers |-> "idle"]
  /\ exposed' = exposed \cup UNION {listed[w] : w \in {v \in Workers : pc[v] = "answer"}}
  /\ torn' = torn \cup UNION {{M(w), Of(w)} : w \in {v \in Workers : pc[v] = "notice"}}
  /\ UNCHANGED <<tables, waiting, serving, count, told, twice, gone, recalled, redone>>

Work(w) ==
  \/ \E r \in Requests : Receive(w, r)
  \/ InsertHistory(w) \/ InsertHistoryFails(w)
  \/ InsertOffline(w) \/ InsertOfflineFails(w)
  \/ Rename(w) \/ RenameFails(w) \/ Notice(w) \/ NoticeFails(w)
  \/ Select(w) \/ SelectFails(w) \/ Lookup(w) \/ LookupFails(w)
  \/ Delete(w) \/ DeleteFails(w) \/ Answer(w)

Next == (\E w \in Workers : Work(w)) \/ Crash

Spec == Init /\ [][Next]_vars

-----------------------------------------------------------------------------
Announcing(m) == \E w \in Workers : pc[w] = "answer" /\ m \in listed[w]

\* Every offline row has its message in the history, or a worker is between
\* the two statements of its recall; unless a statement about the message
\* failed, or its recall was begun before it had been stored or during another.
OfflineHasHistory ==
  \A m \in offline :
    m \in history \/ m \in torn \/ \E w \in Workers : pc[w] = "notice" /\ M(w) = m

\* A message deleted from the offline table has been counted in an answer, or
\* is about to be; unless it came in or its conversation saw a recall while the
\* count was running, a lookup failed, the process was killed before the answer,
\* or its sender has another message that was torn.
NothingSlips ==
  \A m \in gone :
    m \in told \/ Announcing(m) \/ m \in exposed \/ Talk(m) \cap torn # {}

\* A message that was recalled is in no table, unless its recall came too early
\* or during another, or a statement about it failed.
RecalledStaysAway ==
  \A m \in recalled : m \in torn \/ (m \notin history /\ m \notin offline)

\* No message is counted for its user a second time, unless two counts of that
\* user overlapped or a delete failed.
ToldOnce == \A m \in twice : To[m] \in redone
=============================================================================
