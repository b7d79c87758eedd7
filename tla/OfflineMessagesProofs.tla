------------------------ MODULE OfflineMessagesProofs ------------------------
(***************************************************************************)
(* Theorems about OfflineMessages, for any number of workers, users,       *)
(* messages, requests and faults.                                          *)
(***************************************************************************)
EXTENDS OfflineMessages, TLAPS

(* The inductive invariant.                                                *)

Busy(w) == pc[w] # "idle"
Looking(w) == pc[w] \in {"lookup", "answer"}

\* What a worker is at, by the kind of its request.
PhaseInv ==
  \A w \in Workers :
    /\ pc[w] = "history" => \/ Q(w).op = "offline" /\ To[M(w)] \in Users
                           \/ Q(w).op = "online"
    /\ pc[w] = "offline" => Q(w).op = "offline" /\ To[M(w)] \in Users
    /\ pc[w] \in {"rename", "notice"} => Q(w).op = "recall"
    /\ pc[w] \in {"select", "lookup", "answer"} => Q(w).op = "count"

\* A request is waiting, or one worker has it.
OneServer ==
  \A w \in Workers : Busy(w) =>
    /\ serving[w] \notin waiting
    /\ \A v \in Workers : Busy(v) /\ serving[v] = serving[w] => v = w

\* Has m been nowhere yet?
Away(m) ==
  /\ m \notin offline /\ m \notin gone /\ m \notin told
  /\ \A v \in Workers : Looking(v) => m \notin seen[v]

\* A group has no offline rows.
OfflineUsers == \A m \in offline : To[m] \in Users

\* An id is nowhere before its request brings it.
Fresh ==
  /\ \A r \in waiting : Ask[r].op # "count" => Ask[r].id \notin history /\ Away(Ask[r].id)
  /\ \A w \in Workers :
       /\ pc[w] \in {"history", "offline", "rename"} => Away(M(w))
       /\ pc[w] \in {"history", "rename", "notice"} => M(w) \notin history

\* A recall under way of a message that is still coming knows it; so do two
\* recalls of one message.
EarlyInv ==
  \A w \in Workers : pc[w] \in {"rename", "notice"} =>
    /\ Coming(Of(w)) => Of(w) \in torn
    /\ \A v \in Workers \ {w} :
         pc[v] \in {"rename", "notice"} /\ Of(v) = Of(w) =>
           /\ Of(w) \in torn
           /\ pc[w] = "notice" /\ M(w) \in offline => M(w) \in torn

\* A message recalled, but still coming, is torn.
LateInv == \A m \in recalled : Coming(m) => m \in torn

\* The second insert of a message finds it in the history.
StoreInv == \A w \in Workers : pc[w] = "offline" => M(w) \in history \cup torn

\* Between the two renames of a recall.
NoticeInv ==
  \A w \in Workers : pc[w] = "notice" =>
    /\ Of(w) \in offline => Of(w) \in torn
    /\ M(w) \in offline => Of(w) \in history \/ M(w) \in torn

\* What a count has selected, put into its answer and still to look up.
SeenInv ==
  \A w \in Workers : Looking(w) =>
    /\ listed[w] \subseteq seen[w]
    /\ \A m \in seen[w] : To[m] = Q(w).user

PickInv ==
  \A w \in Workers : pc[w] = "lookup" =>
    \A x \in ToLookUp(w) : pick[w][x] \in seen[w] /\ From[pick[w][x]] = x

\* An offline row a count has not selected is exposed.
UnseenInv ==
  \A w \in Workers : pc[w] = "lookup" =>
    \A m \in Box(Q(w).user) : m \in seen[w] \/ m \in exposed

\* Will the count of w list m, or is there a reason why not?
Excused(m) == m \in exposed \/ Talk(m) \cap torn # {}

LookInv ==
  \A w \in Workers : pc[w] = "lookup" =>
    \A m \in seen[w] \cap offline :
      \/ m \in listed[w] \/ Excused(m)
      \/ From[m] \in ToLookUp(w) /\ pick[w][From[m]] \in history

\* Once deleted, or told, a message does not come back.
GoneInv == \A m \in gone : m \notin offline

ToldInv ==
  /\ \A m \in told : m \notin offline \/ To[m] \in redone
  /\ \A w \in Workers : Looking(w) =>
       /\ \A m \in seen[w] : m \in told => To[m] \in redone
       /\ pc[w] = "answer" => \A m \in seen[w] : m \notin offline \/ To[m] \in redone
       /\ \A v \in Workers \ {w} : Looking(v) =>
            \A m \in seen[w] \cap seen[v] : To[m] \in redone

IInv ==
  /\ TypeOK /\ PhaseInv /\ OneServer /\ Fresh /\ OfflineUsers
  /\ EarlyInv /\ LateInv /\ StoreInv /\ NoticeInv /\ OfflineHasHistory /\ RecalledStaysAway
  /\ SeenInv /\ PickInv /\ UnseenInv /\ LookInv /\ GoneInv /\ NothingSlips
  /\ ToldInv /\ ToldOnce

-----------------------------------------------------------------------------
(* Facts every proof needs.                                                *)

\* What a request says.
LEMMA AskTypes ==
  \A r \in Requests :
    /\ Ask[r].op \in Ops /\ Ask[r].user \in Users
    /\ Ask[r].id \in Ids /\ Ask[r].of \in Ids
    /\ To[Ask[r].id] \in Users \cup Groups /\ From[Ask[r].id] \in Users
BY MessagesAssumption

\* What the request of a busy worker says.
LEMMA Known ==
  ASSUME TypeOK, NEW w \in Workers, pc[w] # "idle"
  PROVE  /\ Q(w).op \in Ops /\ Q(w).user \in Users /\ M(w) \in Ids /\ Of(w) \in Ids
         /\ To[M(w)] \in Users \cup Groups /\ From[M(w)] \in Users
BY AskTypes DEF TypeOK, Q, M, Of

\* A notice belongs to the conversation of its message.
LEMMA SameTalk ==
  ASSUME TypeOK, PhaseInv, NEW w \in Workers, pc[w] \in {"rename", "notice"}
  PROVE  From[Of(w)] = From[M(w)] /\ To[Of(w)] = To[M(w)] /\ Of(w) # M(w)
BY MessagesAssumption DEF TypeOK, PhaseInv, Q, M, Of

\* A failure is within the bound.
LEMMA FailType == ASSUME faults \in 0 .. MaxFaults, Fail PROVE faults' \in 0 .. MaxFaults
BY MessagesAssumption DEF Fail

\* A worker that goes on to another statement keeps its request.
LEMMA GoType ==
  ASSUME TypeOK, NEW w \in Workers, NEW to \in Pcs, Go(w, to), pc[w] # "idle"
  PROVE  /\ pc' \in [Workers -> Pcs] /\ pc'[w] = to
         /\ \A v \in Workers : v # w => pc'[v] = pc[v]
         /\ waiting' = waiting /\ serving' = serving
         /\ \A v \in Workers : pc'[v] # "idle" => serving'[v] \in Requests
BY DEF Go, TypeOK

\* Of the ids to come each worker and each waiting request has its own.
LEMMA OwnId ==
  ASSUME TypeOK, PhaseInv, OneServer, NEW w \in Workers, pc[w] # "idle", Q(w).op # "count"
  PROVE  /\ \A r \in waiting : Ask[r].op # "count" => Ask[r].id # M(w)
         /\ \A v \in Workers : pc[v] # "idle" /\ Q(v).op # "count" /\ v # w => M(v) # M(w)
BY MessagesAssumption DEF TypeOK, OneServer, Busy, Q, M

-----------------------------------------------------------------------------
(* What each step keeps, one lemma for each part of the invariant.         *)

\* Every action assigns values of the right type.
LEMMA TypeStep ==
  ASSUME TypeOK, PhaseInv, [Next]_vars
  PROVE  TypeOK'
<1> USE DEF TypeOK, PhaseInv, Ops, Pcs
<1>1. ASSUME NEW w \in Workers, NEW r \in Requests, Receive(w, r) PROVE TypeOK'
  BY <1>1, AskTypes DEF Receive, First, Notices, Q, M, tables, count
<1>2. ASSUME NEW w \in Workers, InsertHistory(w) PROVE TypeOK'
  BY <1>2, AskTypes DEF InsertHistory, AfterHistory, Go, Q, M, count, ghosts
<1>3. ASSUME NEW w \in Workers, InsertHistoryFails(w) PROVE TypeOK'
  BY <1>3, MessagesAssumption
     DEF InsertHistoryFails, AfterHistory, Go, Fail, Q, M, tables, count, vars
<1>4. ASSUME NEW w \in Workers, InsertOffline(w) PROVE TypeOK'
  BY <1>4, AskTypes DEF InsertOffline, Go, Q, M, count
<1>5. ASSUME NEW w \in Workers, InsertOfflineFails(w) PROVE TypeOK'
  BY <1>5, MessagesAssumption DEF InsertOfflineFails, Go, Fail, tables, count, ghosts
<1>6. ASSUME NEW w \in Workers, Rename(w) PROVE TypeOK'
  BY <1>6, AskTypes DEF Rename, Renamed, Expose, Go, Q, M, count
<1>7. ASSUME NEW w \in Workers, RenameFails(w) PROVE TypeOK'
  <2>1. Of(w) \in Ids /\ faults' \in 0 .. MaxFaults
    BY <1>7, Known, FailType DEF RenameFails
  <2>2. Go(w, "idle") \/ Go(w, "notice")
    BY <1>7 DEF RenameFails
  <2>3. pc' \in [Workers -> Pcs] /\ serving' = serving /\ waiting' = waiting
        /\ \A v \in Workers : pc'[v] # "idle" => serving'[v] \in Requests
    BY <1>7, <2>2, GoType DEF RenameFails
  <2> QED BY <1>7, <2>1, <2>3 DEF RenameFails, tables, count
<1>8. ASSUME NEW w \in Workers, Notice(w) PROVE TypeOK'
  BY <1>8, AskTypes DEF Notice, Renamed, Expose, Go, Q, M, Of, count
<1>9. ASSUME NEW w \in Workers, NoticeFails(w) PROVE TypeOK'
  BY <1>9, MessagesAssumption DEF NoticeFails, Go, Fail, Q, M, Of, tables, count
<1>10. ASSUME NEW w \in Workers, Select(w) PROVE TypeOK'
  BY <1>10, AskTypes DEF Select, Box, Picks, Go, Q, tables
<1>11. ASSUME NEW w \in Workers, SelectFails(w) PROVE TypeOK'
  BY <1>11, MessagesAssumption DEF SelectFails, Go, Fail, tables, count, ghosts
<1>12. ASSUME NEW w \in Workers, Lookup(w) PROVE TypeOK'
  BY <1>12 DEF Lookup, ToLookUp, tables, job, ghosts
<1>13. ASSUME NEW w \in Workers, LookupFails(w) PROVE TypeOK'
  BY <1>13, MessagesAssumption DEF LookupFails, NoPick, Fail, tables, job
<1>14. ASSUME NEW w \in Workers, Delete(w) PROVE TypeOK'
  BY <1>14 DEF Delete, Box, Go, count
<1>15. ASSUME NEW w \in Workers, DeleteFails(w) PROVE TypeOK'
  <2>1. Q(w).user \in Users /\ faults' \in 0 .. MaxFaults
    BY <1>15, Known, FailType DEF DeleteFails
  <2>2. pc' \in [Workers -> Pcs] /\ serving' = serving /\ waiting' = waiting
        /\ \A v \in Workers : pc'[v] # "idle" => serving'[v] \in Requests
    BY <1>15, GoType DEF DeleteFails
  <2> QED BY <1>15, <2>1, <2>2 DEF DeleteFails, tables, count
<1>16. ASSUME NEW w \in Workers, Answer(w) PROVE TypeOK'
  BY <1>16 DEF Answer, Go, tables, count
<1>17. ASSUME Crash PROVE TypeOK'
  <2>1. faults' \in 0 .. MaxFaults
    BY <1>17, FailType DEF Crash
  <2>2. UNION {listed[w] : w \in {v \in Workers : pc[v] = "answer"}} \subseteq Ids
    OBVIOUS
  <2>3. \A w \in Workers : pc[w] = "notice" => M(w) \in Ids /\ Of(w) \in Ids
    BY Known
  <2>4. UNION {{M(w), Of(w)} : w \in {v \in Workers : pc[v] = "notice"}} \subseteq Ids
    BY <2>3
  <2> QED BY <1>17, <2>1, <2>2, <2>4 DEF Crash, tables, count
<1>18. ASSUME UNCHANGED vars PROVE TypeOK'
  BY <1>18 DEF tables, job, count, ghosts, vars
<1> QED BY <1>1, <1>2, <1>3, <1>4, <1>5, <1>6, <1>7, <1>8, <1>9,
          <1>10, <1>11, <1>12, <1>13, <1>14, <1>15, <1>16, <1>17, <1>18 DEF Next, Work

\* First and Go take a worker only through the statements of its request.
LEMMA PhaseStep ==
  ASSUME TypeOK, PhaseInv, [Next]_vars
  PROVE  PhaseInv'
<1> USE DEF TypeOK, PhaseInv, Ops, Pcs
<1>1. ASSUME NEW w \in Workers, NEW r \in Requests, Receive(w, r) PROVE PhaseInv'
  BY <1>1, AskTypes DEF Receive, First, Q, M
<1>2. ASSUME NEW w \in Workers, InsertHistory(w) PROVE PhaseInv'
  BY <1>2 DEF InsertHistory, AfterHistory, Go, Q, M
<1>3. ASSUME NEW w \in Workers, InsertHistoryFails(w) PROVE PhaseInv'
  BY <1>3 DEF InsertHistoryFails, AfterHistory, Go, Q, M
<1>4. ASSUME NEW w \in Workers, InsertOffline(w) PROVE PhaseInv'
  BY <1>4 DEF InsertOffline, Go, Q, M
<1>5. ASSUME NEW w \in Workers, InsertOfflineFails(w) PROVE PhaseInv'
  BY <1>5 DEF InsertOfflineFails, Go, Q, M
<1>6. ASSUME NEW w \in Workers, Rename(w) PROVE PhaseInv'
  BY <1>6 DEF Rename, Go, Q, M
<1>7. ASSUME NEW w \in Workers, RenameFails(w) PROVE PhaseInv'
  BY <1>7 DEF RenameFails, Go, Q, M
<1>8. ASSUME NEW w \in Workers, Notice(w) PROVE PhaseInv'
  BY <1>8 DEF Notice, Go, Q, M
<1>9. ASSUME NEW w \in Workers, NoticeFails(w) PROVE PhaseInv'
  BY <1>9 DEF NoticeFails, Go, Q, M
<1>10. ASSUME NEW w \in Workers, Select(w) PROVE PhaseInv'
  BY <1>10 DEF Select, Go, Q, M
<1>11. ASSUME NEW w \in Workers, SelectFails(w) PROVE PhaseInv'
  BY <1>11 DEF SelectFails, Go, Q, M
<1>12. ASSUME NEW w \in Workers, Lookup(w) PROVE PhaseInv'
  BY <1>12 DEF Lookup, Q, M, job
<1>13. ASSUME NEW w \in Workers, LookupFails(w) PROVE PhaseInv'
  BY <1>13 DEF LookupFails, Q, M, job
<1>14. ASSUME NEW w \in Workers, Delete(w) PROVE PhaseInv'
  BY <1>14 DEF Delete, Go, Q, M
<1>15. ASSUME NEW w \in Workers, DeleteFails(w) PROVE PhaseInv'
  BY <1>15 DEF DeleteFails, Go, Q, M
<1>16. ASSUME NEW w \in Workers, Answer(w) PROVE PhaseInv'
  BY <1>16 DEF Answer, Go, Q, M
<1>17. ASSUME Crash PROVE PhaseInv'
  BY <1>17 DEF Crash
<1>18. ASSUME UNCHANGED vars PROVE PhaseInv'
  BY <1>18 DEF Q, M, job, vars
<1> QED BY <1>1, <1>2, <1>3, <1>4, <1>5, <1>6, <1>7, <1>8, <1>9,
          <1>10, <1>11, <1>12, <1>13, <1>14, <1>15, <1>16, <1>17, <1>18 DEF Next, Work

\* Only Receive hands out a request, and it is waiting no more.
LEMMA ServerStep ==
  ASSUME TypeOK, OneServer, [Next]_vars
  PROVE  OneServer'
<1> USE DEF TypeOK, OneServer, Busy, Pcs
<1>1. ASSUME NEW w \in Workers, NEW r \in Requests, Receive(w, r) PROVE OneServer'
  BY <1>1 DEF Receive
<1>2. ASSUME NEW w \in Workers, InsertHistory(w) PROVE OneServer'
  BY <1>2 DEF InsertHistory, Go
<1>3. ASSUME NEW w \in Workers, InsertHistoryFails(w) PROVE OneServer'
  BY <1>3 DEF InsertHistoryFails, Go
<1>4. ASSUME NEW w \in Workers, InsertOffline(w) PROVE OneServer'
  BY <1>4 DEF InsertOffline, Go
<1>5. ASSUME NEW w \in Workers, InsertOfflineFails(w) PROVE OneServer'
  BY <1>5 DEF InsertOfflineFails, Go
<1>6. ASSUME NEW w \in Workers, Rename(w) PROVE OneServer'
  BY <1>6 DEF Rename, Go
<1>7. ASSUME NEW w \in Workers, RenameFails(w) PROVE OneServer'
  BY <1>7 DEF RenameFails, Go
<1>8. ASSUME NEW w \in Workers, Notice(w) PROVE OneServer'
  BY <1>8 DEF Notice, Go
<1>9. ASSUME NEW w \in Workers, NoticeFails(w) PROVE OneServer'
  BY <1>9 DEF NoticeFails, Go
<1>10. ASSUME NEW w \in Workers, Select(w) PROVE OneServer'
  BY <1>10 DEF Select, Go
<1>11. ASSUME NEW w \in Workers, SelectFails(w) PROVE OneServer'
  BY <1>11 DEF SelectFails, Go
<1>12. ASSUME NEW w \in Workers, Lookup(w) PROVE OneServer'
  BY <1>12 DEF Lookup, job
<1>13. ASSUME NEW w \in Workers, LookupFails(w) PROVE OneServer'
  BY <1>13 DEF LookupFails, job
<1>14. ASSUME NEW w \in Workers, Delete(w) PROVE OneServer'
  BY <1>14 DEF Delete, Go
<1>15. ASSUME NEW w \in Workers, DeleteFails(w) PROVE OneServer'
  BY <1>15 DEF DeleteFails, Go
<1>16. ASSUME NEW w \in Workers, Answer(w) PROVE OneServer'
  BY <1>16 DEF Answer, Go
<1>17. ASSUME Crash PROVE OneServer'
  BY <1>17 DEF Crash
<1>18. ASSUME UNCHANGED vars PROVE OneServer'
  BY <1>18 DEF job, vars
<1> QED BY <1>1, <1>2, <1>3, <1>4, <1>5, <1>6, <1>7, <1>8, <1>9,
          <1>10, <1>11, <1>12, <1>13, <1>14, <1>15, <1>16, <1>17, <1>18 DEF Next, Work

\* Only the statements of its own request put an id anywhere, and OwnId says there
\* is one such request.
LEMMA FreshStep ==
  ASSUME TypeOK, PhaseInv, OneServer, SeenInv, Fresh, [Next]_vars
  PROVE  Fresh'
<1> USE DEF TypeOK, PhaseInv, OneServer, Busy, SeenInv, Fresh, Away, Looking, Ops, Pcs
<1>1. ASSUME NEW w \in Workers, NEW r \in Requests, Receive(w, r) PROVE Fresh'
  BY <1>1, AskTypes DEF Receive, First, Q, M, tables, count
<1>2. ASSUME NEW w \in Workers, InsertHistory(w) PROVE Fresh'
  <2>1. \A m : Away(m) => Away(m)'
    BY <1>2 DEF InsertHistory, AfterHistory, Away, Looking, Go, count, ghosts
  <2>2. Q(w).op # "count" /\ pc[w] # "idle" /\ M(w) \in Ids
    BY <1>2, Known DEF InsertHistory, PhaseInv
  <2>3. /\ waiting' = waiting /\ serving' = serving /\ pc'[w] \in {"offline", "idle"}
        /\ \A v \in Workers : v # w => pc'[v] = pc[v]
    BY <1>2 DEF InsertHistory, AfterHistory, Go, TypeOK
  <2>4. history' = history \cup {M(w)} /\ Away(M(w))
    BY <1>2 DEF InsertHistory, Fresh
  <2>5. ASSUME NEW r \in waiting, Ask[r].op # "count"
        PROVE  Ask[r].id \notin history' /\ Away(Ask[r].id)'
    BY <2>1, <2>2, <2>4, <2>5, OwnId DEF Fresh
  <2>6. ASSUME NEW v \in Workers, v # w
        PROVE  /\ pc[v] \in {"history", "offline", "rename"} => Away(M(v))'
               /\ pc[v] \in {"history", "rename", "notice"} => M(v) \notin history'
    BY <2>1, <2>2, <2>3, <2>4, <2>6, OwnId DEF Fresh, PhaseInv, M, Q
  <2> QED BY <2>1, <2>3, <2>4, <2>5, <2>6 DEF Fresh, M, Q
<1>3. ASSUME NEW w \in Workers, InsertHistoryFails(w) PROVE Fresh'
  BY <1>3 DEF InsertHistoryFails, AfterHistory, Go, Q, M, tables, count
<1>4. ASSUME NEW w \in Workers, InsertOffline(w) PROVE Fresh'
  <2>1. \A m : Away(m) /\ m # M(w) => Away(m)'
    BY <1>4 DEF InsertOffline, Away, Looking, Go, tables, count, ghosts
  <2>2. Q(w).op # "count" /\ pc[w] # "idle" /\ M(w) \in Ids
    BY <1>4, Known DEF InsertOffline, PhaseInv
  <2>3. /\ waiting' = waiting /\ serving' = serving /\ pc'[w] \in {"idle"}
        /\ \A v \in Workers : v # w => pc'[v] = pc[v]
    BY <1>4 DEF InsertOffline, Go, TypeOK
  <2>4. history' \subseteq history \cup {M(w)}
    BY <1>4 DEF InsertOffline, tables
  <2>5. ASSUME NEW r \in waiting, Ask[r].op # "count"
        PROVE  Ask[r].id \notin history' /\ Away(Ask[r].id)'
    BY <2>1, <2>2, <2>4, <2>5, OwnId DEF Fresh
  <2>6. ASSUME NEW v \in Workers, v # w
        PROVE  /\ pc[v] \in {"history", "offline", "rename"} => Away(M(v))'
               /\ pc[v] \in {"history", "rename", "notice"} => M(v) \notin history'
    BY <2>1, <2>2, <2>3, <2>4, <2>6, OwnId DEF Fresh, PhaseInv, M, Q
  <2> QED BY <1>4, <2>1, <2>2, <2>3, <2>5, <2>6 DEF Fresh, M, Q, InsertOffline, tables
<1>5. ASSUME NEW w \in Workers, InsertOfflineFails(w) PROVE Fresh'
  BY <1>5 DEF InsertOfflineFails, Go, Q, M, tables, count, ghosts
<1>6. ASSUME NEW w \in Workers, Rename(w) PROVE Fresh'
  <2>1. \A m : Away(m) /\ m # M(w) => Away(m)'
    BY <1>6 DEF Rename, Renamed, Away, Looking, Go, tables, count, ghosts
  <2>2. Q(w).op # "count" /\ pc[w] # "idle" /\ M(w) \in Ids
    BY <1>6, Known DEF Rename, PhaseInv
  <2>3. /\ waiting' = waiting /\ serving' = serving /\ pc'[w] \in {"notice"}
        /\ \A v \in Workers : v # w => pc'[v] = pc[v]
    BY <1>6 DEF Rename, Renamed, Go, TypeOK
  <2>4. history' \subseteq history \cup {M(w)}
    BY <1>6 DEF Rename, Renamed, tables
  <2>5. ASSUME NEW r \in waiting, Ask[r].op # "count"
        PROVE  Ask[r].id \notin history' /\ Away(Ask[r].id)'
    BY <2>1, <2>2, <2>4, <2>5, OwnId DEF Fresh
  <2>6. ASSUME NEW v \in Workers, v # w
        PROVE  /\ pc[v] \in {"history", "offline", "rename"} => Away(M(v))'
               /\ pc[v] \in {"history", "rename", "notice"} => M(v) \notin history'
    BY <2>1, <2>2, <2>3, <2>4, <2>6, OwnId DEF Fresh, PhaseInv, M, Q
  <2> QED BY <1>6, <2>1, <2>2, <2>3, <2>5, <2>6 DEF Fresh, M, Q, Rename, Renamed, tables
<1>7. ASSUME NEW w \in Workers, RenameFails(w) PROVE Fresh'
  BY <1>7 DEF RenameFails, Go, Q, M, tables, count
<1>8. ASSUME NEW w \in Workers, Notice(w) PROVE Fresh'
  <2>1. \A m : Away(m) /\ m # M(w) => Away(m)'
    BY <1>8 DEF Notice, Renamed, Away, Looking, Go, tables, count, ghosts
  <2>2. Q(w).op # "count" /\ pc[w] # "idle" /\ M(w) \in Ids
    BY <1>8, Known DEF Notice, PhaseInv
  <2>3. /\ waiting' = waiting /\ serving' = serving /\ pc'[w] \in {"idle"}
        /\ \A v \in Workers : v # w => pc'[v] = pc[v]
    BY <1>8 DEF Notice, Renamed, Go, TypeOK
  <2>4. history' \subseteq history \cup {M(w)}
    BY <1>8 DEF Notice, Renamed, tables
  <2>5. ASSUME NEW r \in waiting, Ask[r].op # "count"
        PROVE  Ask[r].id \notin history' /\ Away(Ask[r].id)'
    BY <2>1, <2>2, <2>4, <2>5, OwnId DEF Fresh
  <2>6. ASSUME NEW v \in Workers, v # w
        PROVE  /\ pc[v] \in {"history", "offline", "rename"} => Away(M(v))'
               /\ pc[v] \in {"history", "rename", "notice"} => M(v) \notin history'
    BY <2>1, <2>2, <2>3, <2>4, <2>6, OwnId DEF Fresh, PhaseInv, M, Q
  <2> QED BY <1>8, <2>1, <2>2, <2>3, <2>5, <2>6 DEF Fresh, M, Q, Notice, Renamed, tables
<1>9. ASSUME NEW w \in Workers, NoticeFails(w) PROVE Fresh'
  BY <1>9 DEF NoticeFails, Go, Q, M, tables, count
<1>10. ASSUME NEW w \in Workers, Select(w) PROVE Fresh'
  BY <1>10 DEF Select, Box, Go, Q, M, tables
<1>11. ASSUME NEW w \in Workers, SelectFails(w) PROVE Fresh'
  BY <1>11 DEF SelectFails, Go, Q, M, tables, count, ghosts
<1>12. ASSUME NEW w \in Workers, Lookup(w) PROVE Fresh'
  BY <1>12 DEF Lookup, Q, M, tables, job, ghosts
<1>13. ASSUME NEW w \in Workers, LookupFails(w) PROVE Fresh'
  BY <1>13 DEF LookupFails, Q, M, tables, job
<1>14. ASSUME NEW w \in Workers, Delete(w) PROVE Fresh'
  BY <1>14 DEF Delete, Box, Go, Q, M, count
<1>15. ASSUME NEW w \in Workers, DeleteFails(w) PROVE Fresh'
  BY <1>15 DEF DeleteFails, Go, Q, M, tables, count
<1>16. ASSUME NEW w \in Workers, Answer(w) PROVE Fresh'
  BY <1>16 DEF Answer, Go, Q, M, tables, count
<1>17. ASSUME Crash PROVE Fresh'
  BY <1>17 DEF Crash, tables
<1>18. ASSUME UNCHANGED vars PROVE Fresh'
  BY <1>18 DEF Q, M, tables, job, count, ghosts, vars
<1> QED BY <1>1, <1>2, <1>3, <1>4, <1>5, <1>6, <1>7, <1>8, <1>9,
          <1>10, <1>11, <1>12, <1>13, <1>14, <1>15, <1>16, <1>17, <1>18 DEF Next, Work

\* Select picks from the rows it has selected; Lookup only takes away.
LEMMA PickStep ==
  ASSUME TypeOK, PhaseInv, PickInv, [Next]_vars
  PROVE  PickInv'
<1> USE DEF TypeOK, PhaseInv, PickInv, ToLookUp, Ops, Pcs
<1>1. ASSUME NEW w \in Workers, NEW r \in Requests, Receive(w, r) PROVE PickInv'
  BY <1>1, AskTypes DEF Receive, First, count
<1>2. ASSUME NEW w \in Workers, InsertHistory(w) PROVE PickInv'
  BY <1>2 DEF InsertHistory, AfterHistory, Go, count
<1>3. ASSUME NEW w \in Workers, InsertHistoryFails(w) PROVE PickInv'
  BY <1>3 DEF InsertHistoryFails, AfterHistory, Go, count
<1>4. ASSUME NEW w \in Workers, InsertOffline(w) PROVE PickInv'
  BY <1>4 DEF InsertOffline, Go, count
<1>5. ASSUME NEW w \in Workers, InsertOfflineFails(w) PROVE PickInv'
  BY <1>5 DEF InsertOfflineFails, Go, count
<1>6. ASSUME NEW w \in Workers, Rename(w) PROVE PickInv'
  BY <1>6 DEF Rename, Go, count
<1>7. ASSUME NEW w \in Workers, RenameFails(w) PROVE PickInv'
  BY <1>7 DEF RenameFails, Go, count
<1>8. ASSUME NEW w \in Workers, Notice(w) PROVE PickInv'
  BY <1>8 DEF Notice, Go, count
<1>9. ASSUME NEW w \in Workers, NoticeFails(w) PROVE PickInv'
  BY <1>9 DEF NoticeFails, Go, count
<1>10. ASSUME NEW w \in Workers, Select(w) PROVE PickInv'
  BY <1>10 DEF Select, Picks, Go
<1>11. ASSUME NEW w \in Workers, SelectFails(w) PROVE PickInv'
  BY <1>11 DEF SelectFails, Go, count
<1>12. ASSUME NEW w \in Workers, Lookup(w) PROVE PickInv'
  BY <1>12 DEF Lookup, job
<1>13. ASSUME NEW w \in Workers, LookupFails(w) PROVE PickInv'
  BY <1>13 DEF LookupFails, NoPick, job
<1>14. ASSUME NEW w \in Workers, Delete(w) PROVE PickInv'
  BY <1>14 DEF Delete, Go, count
<1>15. ASSUME NEW w \in Workers, DeleteFails(w) PROVE PickInv'
  BY <1>15 DEF DeleteFails, Go, count
<1>16. ASSUME NEW w \in Workers, Answer(w) PROVE PickInv'
  BY <1>16 DEF Answer, Go, count
<1>17. ASSUME Crash PROVE PickInv'
  BY <1>17 DEF Crash
<1>18. ASSUME UNCHANGED vars PROVE PickInv'
  BY <1>18 DEF job, count, vars
<1> QED BY <1>1, <1>2, <1>3, <1>4, <1>5, <1>6, <1>7, <1>8, <1>9,
          <1>10, <1>11, <1>12, <1>13, <1>14, <1>15, <1>16, <1>17, <1>18 DEF Next, Work

\* Select takes the rows of one user, and Lookup lists some of what was selected.
LEMMA SeenStep ==
  ASSUME TypeOK, PhaseInv, SeenInv, [Next]_vars
  PROVE  SeenInv'
<1> USE DEF TypeOK, PhaseInv, SeenInv, Looking, Ops, Pcs
<1>1. ASSUME NEW w \in Workers, NEW r \in Requests, Receive(w, r) PROVE SeenInv'
  BY <1>1, AskTypes DEF Receive, First, Q, count
<1>2. ASSUME NEW w \in Workers, InsertHistory(w) PROVE SeenInv'
  BY <1>2 DEF InsertHistory, AfterHistory, Go, Q, count
<1>3. ASSUME NEW w \in Workers, InsertHistoryFails(w) PROVE SeenInv'
  BY <1>3 DEF InsertHistoryFails, AfterHistory, Go, Q, count
<1>4. ASSUME NEW w \in Workers, InsertOffline(w) PROVE SeenInv'
  BY <1>4 DEF InsertOffline, Go, Q, count
<1>5. ASSUME NEW w \in Workers, InsertOfflineFails(w) PROVE SeenInv'
  BY <1>5 DEF InsertOfflineFails, Go, Q, count
<1>6. ASSUME NEW w \in Workers, Rename(w) PROVE SeenInv'
  BY <1>6 DEF Rename, Go, Q, count
<1>7. ASSUME NEW w \in Workers, RenameFails(w) PROVE SeenInv'
  BY <1>7 DEF RenameFails, Go, Q, count
<1>8. ASSUME NEW w \in Workers, Notice(w) PROVE SeenInv'
  BY <1>8 DEF Notice, Go, Q, count
<1>9. ASSUME NEW w \in Workers, NoticeFails(w) PROVE SeenInv'
  BY <1>9 DEF NoticeFails, Go, Q, count
<1>10. ASSUME NEW w \in Workers, Select(w) PROVE SeenInv'
  BY <1>10 DEF Select, Box, Go, Q
<1>11. ASSUME NEW w \in Workers, SelectFails(w) PROVE SeenInv'
  BY <1>11 DEF SelectFails, Go, Q, count
<1>12. ASSUME NEW w \in Workers, Lookup(w) PROVE SeenInv'
  BY <1>12 DEF Lookup, Q, job
<1>13. ASSUME NEW w \in Workers, LookupFails(w) PROVE SeenInv'
  BY <1>13 DEF LookupFails, Q, job
<1>14. ASSUME NEW w \in Workers, Delete(w) PROVE SeenInv'
  BY <1>14 DEF Delete, Go, Q, count
<1>15. ASSUME NEW w \in Workers, DeleteFails(w) PROVE SeenInv'
  BY <1>15 DEF DeleteFails, Go, Q, count
<1>16. ASSUME NEW w \in Workers, Answer(w) PROVE SeenInv'
  BY <1>16 DEF Answer, Go, Q, count
<1>17. ASSUME Crash PROVE SeenInv'
  BY <1>17 DEF Crash
<1>18. ASSUME UNCHANGED vars PROVE SeenInv'
  BY <1>18 DEF Q, job, count, vars
<1> QED BY <1>1, <1>2, <1>3, <1>4, <1>5, <1>6, <1>7, <1>8, <1>9,
          <1>10, <1>11, <1>12, <1>13, <1>14, <1>15, <1>16, <1>17, <1>18 DEF Next, Work

\* What a delete takes is no longer fresh, so no insert or rename brings it back.
LEMMA GoneStep ==
  ASSUME TypeOK, PhaseInv, Fresh, GoneInv, [Next]_vars
  PROVE  GoneInv'
<1> USE DEF TypeOK, PhaseInv, Fresh, Away, GoneInv, Ops, Pcs
<1>1. ASSUME NEW w \in Workers, NEW r \in Requests, Receive(w, r) PROVE GoneInv'
  BY <1>1 DEF Receive, tables
<1>2. ASSUME NEW w \in Workers, InsertHistory(w) PROVE GoneInv'
  BY <1>2 DEF InsertHistory, ghosts
<1>3. ASSUME NEW w \in Workers, InsertHistoryFails(w) PROVE GoneInv'
  BY <1>3 DEF InsertHistoryFails, tables
<1>4. ASSUME NEW w \in Workers, InsertOffline(w) PROVE GoneInv'
  BY <1>4 DEF InsertOffline
<1>5. ASSUME NEW w \in Workers, InsertOfflineFails(w) PROVE GoneInv'
  BY <1>5 DEF InsertOfflineFails, tables, ghosts
<1>6. ASSUME NEW w \in Workers, Rename(w) PROVE GoneInv'
  BY <1>6 DEF Rename, Renamed
<1>7. ASSUME NEW w \in Workers, RenameFails(w) PROVE GoneInv'
  BY <1>7 DEF RenameFails, tables
<1>8. ASSUME NEW w \in Workers, Notice(w) PROVE GoneInv'
  BY <1>8 DEF Notice
<1>9. ASSUME NEW w \in Workers, NoticeFails(w) PROVE GoneInv'
  BY <1>9 DEF NoticeFails, tables
<1>10. ASSUME NEW w \in Workers, Select(w) PROVE GoneInv'
  BY <1>10 DEF Select, tables
<1>11. ASSUME NEW w \in Workers, SelectFails(w) PROVE GoneInv'
  BY <1>11 DEF SelectFails, tables, ghosts
<1>12. ASSUME NEW w \in Workers, Lookup(w) PROVE GoneInv'
  BY <1>12 DEF Lookup, tables, ghosts
<1>13. ASSUME NEW w \in Workers, LookupFails(w) PROVE GoneInv'
  BY <1>13 DEF LookupFails, tables
<1>14. ASSUME NEW w \in Workers, Delete(w) PROVE GoneInv'
  BY <1>14 DEF Delete
<1>15. ASSUME NEW w \in Workers, DeleteFails(w) PROVE GoneInv'
  BY <1>15 DEF DeleteFails, tables
<1>16. ASSUME NEW w \in Workers, Answer(w) PROVE GoneInv'
  BY <1>16 DEF Answer, tables
<1>17. ASSUME Crash PROVE GoneInv'
  BY <1>17 DEF Crash, tables
<1>18. ASSUME UNCHANGED vars PROVE GoneInv'
  BY <1>18 DEF tables, ghosts, vars
<1> QED BY <1>1, <1>2, <1>3, <1>4, <1>5, <1>6, <1>7, <1>8, <1>9,
          <1>10, <1>11, <1>12, <1>13, <1>14, <1>15, <1>16, <1>17, <1>18 DEF Next, Work

\* No message starts coming: its request waits from the beginning.
LEMMA ComingOnly ==
  ASSUME TypeOK, [Next]_vars
  PROVE  \A m \in Ids : Coming(m)' => Coming(m)
<1> USE DEF TypeOK, Pcs, Coming
<1>1. ASSUME NEW w \in Workers, NEW r \in Requests, Receive(w, r) PROVE \A m \in Ids : Coming(m)' => Coming(m)
  BY <1>1 DEF Receive
<1>2. ASSUME NEW w \in Workers, InsertHistory(w) PROVE \A m \in Ids : Coming(m)' => Coming(m)
  BY <1>2 DEF InsertHistory, Go
<1>3. ASSUME NEW w \in Workers, InsertHistoryFails(w) PROVE \A m \in Ids : Coming(m)' => Coming(m)
  BY <1>3 DEF InsertHistoryFails, Go
<1>4. ASSUME NEW w \in Workers, InsertOffline(w) PROVE \A m \in Ids : Coming(m)' => Coming(m)
  BY <1>4 DEF InsertOffline, Go
<1>5. ASSUME NEW w \in Workers, InsertOfflineFails(w) PROVE \A m \in Ids : Coming(m)' => Coming(m)
  BY <1>5 DEF InsertOfflineFails, Go
<1>6. ASSUME NEW w \in Workers, Rename(w) PROVE \A m \in Ids : Coming(m)' => Coming(m)
  BY <1>6 DEF Rename, Go
<1>7. ASSUME NEW w \in Workers, RenameFails(w) PROVE \A m \in Ids : Coming(m)' => Coming(m)
  BY <1>7 DEF RenameFails, Go
<1>8. ASSUME NEW w \in Workers, Notice(w) PROVE \A m \in Ids : Coming(m)' => Coming(m)
  BY <1>8 DEF Notice, Go
<1>9. ASSUME NEW w \in Workers, NoticeFails(w) PROVE \A m \in Ids : Coming(m)' => Coming(m)
  BY <1>9 DEF NoticeFails, Go
<1>10. ASSUME NEW w \in Workers, Select(w) PROVE \A m \in Ids : Coming(m)' => Coming(m)
  BY <1>10 DEF Select, Go
<1>11. ASSUME NEW w \in Workers, SelectFails(w) PROVE \A m \in Ids : Coming(m)' => Coming(m)
  BY <1>11 DEF SelectFails, Go
<1>12. ASSUME NEW w \in Workers, Lookup(w) PROVE \A m \in Ids : Coming(m)' => Coming(m)
  BY <1>12 DEF Lookup, job
<1>13. ASSUME NEW w \in Workers, LookupFails(w) PROVE \A m \in Ids : Coming(m)' => Coming(m)
  BY <1>13 DEF LookupFails, job
<1>14. ASSUME NEW w \in Workers, Delete(w) PROVE \A m \in Ids : Coming(m)' => Coming(m)
  BY <1>14 DEF Delete, Go
<1>15. ASSUME NEW w \in Workers, DeleteFails(w) PROVE \A m \in Ids : Coming(m)' => Coming(m)
  BY <1>15 DEF DeleteFails, Go
<1>16. ASSUME NEW w \in Workers, Answer(w) PROVE \A m \in Ids : Coming(m)' => Coming(m)
  BY <1>16 DEF Answer, Go
<1>17. ASSUME Crash PROVE \A m \in Ids : Coming(m)' => Coming(m)
  BY <1>17 DEF Crash
<1>18. ASSUME UNCHANGED vars PROVE \A m \in Ids : Coming(m)' => Coming(m)
  BY <1>18 DEF job, vars
<1> QED BY <1>1, <1>2, <1>3, <1>4, <1>5, <1>6, <1>7, <1>8, <1>9,
          <1>10, <1>11, <1>12, <1>13, <1>14, <1>15, <1>16, <1>17, <1>18 DEF Next, Work

\* Receive marks a recall that meets its message, or another recall of it; after
\* that Coming only shrinks.
LEMMA EarlyStep ==
  ASSUME TypeOK, PhaseInv, OneServer, Fresh, EarlyInv, [Next]_vars
  PROVE  EarlyInv'
<1> USE DEF TypeOK, PhaseInv, Ops, Pcs, EarlyInv
<1>1. ASSUME NEW w \in Workers, NEW r \in Requests, Receive(w, r) PROVE EarlyInv'
  <2>1. /\ serving' = [serving EXCEPT ![w] = r] /\ torn \subseteq torn' /\ offline' = offline
        /\ pc[w] = "idle" /\ r \in waiting
        /\ \A v \in Workers : v # w => pc'[v] = pc[v]
    BY <1>1 DEF Receive, tables
  <2>2. \A v \in Workers : v # w => M(v)' = M(v) /\ Of(v)' = Of(v)
    BY <2>1 DEF M, Of, Q
  <2>3. M(w)' = Ask[r].id /\ Of(w)' = Ask[r].of /\ Ask[r].of \in Ids
    BY <2>1, AskTypes DEF M, Of, Q
  <2>4. ASSUME NEW v \in Workers, v # w, pc'[v] \in {"rename", "notice"}
        PROVE  /\ (Coming(Of(v)) => Of(v) \in torn)'
               /\ \A x \in Workers \ {v, w} :
                    pc'[x] \in {"rename", "notice"} /\ Of(x)' = Of(v)' =>
                      /\ Of(v)' \in torn'
                      /\ pc'[v] = "notice" /\ M(v)' \in offline' => M(v)' \in torn'
    BY <2>1, <2>2, <2>4, ComingOnly, Known
  <2>5. ASSUME pc'[w] \in {"rename", "notice"}
        PROVE  /\ (Coming(Of(w)) => Of(w) \in torn)'
               /\ M(w)' \notin offline'
               /\ \A v \in Workers \ {w} :
                    pc'[v] \in {"rename", "notice"} /\ Of(v)' = Of(w)' =>
                      Of(w)' \in torn' /\ M(v)' \in torn'
    <3>1. Ask[r].op = "recall"
      BY <1>1, <2>5, AskTypes DEF Receive, First
    <3>2. M(w)' \notin offline'
      BY <2>1, <2>3, <3>1 DEF Fresh, Away
    <3>3. torn' = IF Coming(Ask[r].of) \/ Notices(Ask[r].of) # {}
                  THEN torn \cup {Ask[r].of} \cup Notices(Ask[r].of) ELSE torn
      BY <1>1, <3>1 DEF Receive
    <3>4. \A v \in Workers \ {w} : pc'[v] \in {"rename", "notice"} /\ Of(v)' = Of(w)' =>
            M(v)' \in Notices(Ask[r].of)
      BY <2>1, <2>2, <2>3 DEF Notices
    <3> QED BY <2>3, <3>2, <3>3, <3>4, ComingOnly
  <2> QED BY <2>1, <2>2, <2>3, <2>4, <2>5
<1>2. ASSUME NEW w \in Workers, InsertHistory(w) PROVE EarlyInv'
  BY <1>2, AskTypes, ComingOnly DEF InsertHistory, AfterHistory, Go, Q, M, Of, ghosts
<1>3. ASSUME NEW w \in Workers, InsertHistoryFails(w) PROVE EarlyInv'
  BY <1>3, MessagesAssumption, ComingOnly, OwnId
     DEF InsertHistoryFails, AfterHistory, Go, Q, M, Of, tables, count, vars
<1>4. ASSUME NEW w \in Workers, InsertOffline(w) PROVE EarlyInv'
  BY <1>4, AskTypes, ComingOnly, OwnId DEF InsertOffline, Go, Q, M, Of
<1>5. ASSUME NEW w \in Workers, InsertOfflineFails(w) PROVE EarlyInv'
  BY <1>5, AskTypes, ComingOnly DEF InsertOfflineFails, Go, Q, M, Of, tables, ghosts
<1>6. ASSUME NEW w \in Workers, Rename(w) PROVE EarlyInv'
  BY <1>6, AskTypes, ComingOnly, OwnId DEF Rename, Renamed, Go, Q, M, Of
<1>7. ASSUME NEW w \in Workers, RenameFails(w) PROVE EarlyInv'
  <2>1. /\ serving' = serving /\ torn \subseteq torn' /\ offline' = offline
        /\ \A v \in Workers : pc'[v] = pc[v] \/ (v = w /\ pc'[v] \in {"idle", "notice"})
    <3>1. CASE Go(w, "idle") /\ UNCHANGED torn
      BY <1>7, <3>1 DEF RenameFails, Go, tables
    <3>2. CASE Go(w, "notice") /\ torn' = torn \cup {Of(w)}
      BY <1>7, <3>2 DEF RenameFails, Go, tables
    <3> QED BY <1>7, <3>1, <3>2 DEF RenameFails
  <2>2. \A v \in Workers : M(v)' = M(v) /\ Of(v)' = Of(v)
    BY <2>1 DEF M, Of, Q
  <2>3. pc[w] = "rename" /\ M(w) \notin offline
    BY <1>7 DEF RenameFails, Fresh, Away
  <2>4. \A v \in Workers : pc'[v] \in {"rename", "notice"} => pc[v] \in {"rename", "notice"} /\ Of(v) \in Ids
    BY <2>1, <2>3, Known
  <2> QED BY <2>1, <2>2, <2>3, <2>4, ComingOnly
<1>8. ASSUME NEW w \in Workers, Notice(w) PROVE EarlyInv'
  BY <1>8, AskTypes, ComingOnly DEF Notice, Go, Q, M, Of
<1>9. ASSUME NEW w \in Workers, NoticeFails(w) PROVE EarlyInv'
  BY <1>9, AskTypes, ComingOnly DEF NoticeFails, Go, Q, M, Of, tables
<1>10. ASSUME NEW w \in Workers, Select(w) PROVE EarlyInv'
  BY <1>10, AskTypes, ComingOnly DEF Select, Go, Q, M, Of, tables
<1>11. ASSUME NEW w \in Workers, SelectFails(w) PROVE EarlyInv'
  BY <1>11, AskTypes, ComingOnly DEF SelectFails, Go, Q, M, Of, tables, ghosts
<1>12. ASSUME NEW w \in Workers, Lookup(w) PROVE EarlyInv'
  BY <1>12, AskTypes, ComingOnly DEF Lookup, Q, M, Of, tables, job, ghosts
<1>13. ASSUME NEW w \in Workers, LookupFails(w) PROVE EarlyInv'
  BY <1>13, AskTypes, ComingOnly DEF LookupFails, Q, M, Of, tables, job
<1>14. ASSUME NEW w \in Workers, Delete(w) PROVE EarlyInv'
  BY <1>14, AskTypes, ComingOnly DEF Delete, Go, Q, M, Of
<1>15. ASSUME NEW w \in Workers, DeleteFails(w) PROVE EarlyInv'
  <2>1. /\ serving' = serving /\ torn' = torn /\ offline' = offline
        /\ \A v \in Workers : pc'[v] = pc[v] \/ (v = w /\ pc'[v] \in {"idle", "answer"})
    <3>1. CASE Go(w, "idle")
      BY <1>15, <3>1 DEF DeleteFails, Go, tables
    <3>2. CASE Go(w, "answer")
      BY <1>15, <3>2 DEF DeleteFails, Go, tables
    <3> QED BY <1>15, <3>1, <3>2 DEF DeleteFails
  <2>2. \A v \in Workers : M(v)' = M(v) /\ Of(v)' = Of(v)
    BY <2>1 DEF M, Of, Q
  <2>3. \A v \in Workers : pc'[v] \in {"rename", "notice"} => pc'[v] = pc[v] /\ Of(v) \in Ids
    BY <2>1, Known
  <2> QED BY <2>1, <2>2, <2>3, ComingOnly
<1>16. ASSUME NEW w \in Workers, Answer(w) PROVE EarlyInv'
  BY <1>16, AskTypes, ComingOnly DEF Answer, Go, Q, M, Of, tables
<1>17. ASSUME Crash PROVE EarlyInv'
  BY <1>17 DEF Crash
<1>18. ASSUME UNCHANGED vars PROVE EarlyInv'
  BY <1>18, ComingOnly, Known DEF Q, M, Of, tables, job, ghosts, vars
<1> QED BY <1>1, <1>2, <1>3, <1>4, <1>5, <1>6, <1>7, <1>8, <1>9,
          <1>10, <1>11, <1>12, <1>13, <1>14, <1>15, <1>16, <1>17, <1>18 DEF Next, Work

\* A recall that goes through knows whether its message was coming (EarlyInv).
LEMMA LateStep ==
  ASSUME TypeOK, PhaseInv, OneServer, Fresh, EarlyInv, LateInv, [Next]_vars
  PROVE  LateInv'
<1> USE DEF TypeOK, PhaseInv, Ops, Pcs, EarlyInv, LateInv
<1>1. ASSUME NEW w \in Workers, NEW r \in Requests, Receive(w, r) PROVE LateInv'
  BY <1>1, ComingOnly DEF Receive
<1>2. ASSUME NEW w \in Workers, InsertHistory(w) PROVE LateInv'
  BY <1>2, ComingOnly DEF InsertHistory, ghosts
<1>3. ASSUME NEW w \in Workers, InsertHistoryFails(w) PROVE LateInv'
  BY <1>3, ComingOnly DEF InsertHistoryFails
<1>4. ASSUME NEW w \in Workers, InsertOffline(w) PROVE LateInv'
  BY <1>4, ComingOnly DEF InsertOffline
<1>5. ASSUME NEW w \in Workers, InsertOfflineFails(w) PROVE LateInv'
  BY <1>5, ComingOnly DEF InsertOfflineFails, ghosts
<1>6. ASSUME NEW w \in Workers, Rename(w) PROVE LateInv'
  BY <1>6, ComingOnly DEF Rename
<1>7. ASSUME NEW w \in Workers, RenameFails(w) PROVE LateInv'
  BY <1>7, ComingOnly DEF RenameFails
<1>8. ASSUME NEW w \in Workers, Notice(w) PROVE LateInv'
  BY <1>8, AskTypes, ComingOnly DEF Notice, Q, Of
<1>9. ASSUME NEW w \in Workers, NoticeFails(w) PROVE LateInv'
  BY <1>9, ComingOnly DEF NoticeFails
<1>10. ASSUME NEW w \in Workers, Select(w) PROVE LateInv'
  BY <1>10, ComingOnly DEF Select
<1>11. ASSUME NEW w \in Workers, SelectFails(w) PROVE LateInv'
  BY <1>11, ComingOnly DEF SelectFails, ghosts
<1>12. ASSUME NEW w \in Workers, Lookup(w) PROVE LateInv'
  BY <1>12, ComingOnly DEF Lookup, ghosts
<1>13. ASSUME NEW w \in Workers, LookupFails(w) PROVE LateInv'
  BY <1>13, ComingOnly DEF LookupFails
<1>14. ASSUME NEW w \in Workers, Delete(w) PROVE LateInv'
  BY <1>14, ComingOnly DEF Delete
<1>15. ASSUME NEW w \in Workers, DeleteFails(w) PROVE LateInv'
  BY <1>15, ComingOnly DEF DeleteFails
<1>16. ASSUME NEW w \in Workers, Answer(w) PROVE LateInv'
  BY <1>16, ComingOnly DEF Answer
<1>17. ASSUME Crash PROVE LateInv'
  BY <1>17, ComingOnly DEF Crash
<1>18. ASSUME UNCHANGED vars PROVE LateInv'
  BY <1>18, ComingOnly DEF ghosts, vars
<1> QED BY <1>1, <1>2, <1>3, <1>4, <1>5, <1>6, <1>7, <1>8, <1>9,
          <1>10, <1>11, <1>12, <1>13, <1>14, <1>15, <1>16, <1>17, <1>18 DEF Next, Work

\* Between the two inserts only a recall can take the message out of the history,
\* and that one has torn it.
LEMMA StoreStep ==
  ASSUME TypeOK, PhaseInv, OneServer, Fresh, EarlyInv, StoreInv, [Next]_vars
  PROVE  StoreInv'
<1> USE DEF TypeOK, PhaseInv, Ops, Pcs, EarlyInv, StoreInv, Coming
<1>1. ASSUME NEW w \in Workers, NEW r \in Requests, Receive(w, r) PROVE StoreInv'
  BY <1>1, AskTypes DEF Receive, First, Q, M, tables
<1>2. ASSUME NEW w \in Workers, InsertHistory(w) PROVE StoreInv'
  BY <1>2 DEF InsertHistory, Go, Q, M, ghosts
<1>3. ASSUME NEW w \in Workers, InsertHistoryFails(w) PROVE StoreInv'
  BY <1>3 DEF InsertHistoryFails, Go, Q, M, tables
<1>4. ASSUME NEW w \in Workers, InsertOffline(w) PROVE StoreInv'
  BY <1>4 DEF InsertOffline, Go, Q, M
<1>5. ASSUME NEW w \in Workers, InsertOfflineFails(w) PROVE StoreInv'
  BY <1>5 DEF InsertOfflineFails, Go, Q, M, tables, ghosts
<1>6. ASSUME NEW w \in Workers, Rename(w) PROVE StoreInv'
  BY <1>6 DEF Rename, Go, Q, M
<1>7. ASSUME NEW w \in Workers, RenameFails(w) PROVE StoreInv'
  BY <1>7 DEF RenameFails, Go, Q, M, tables
<1>8. ASSUME NEW w \in Workers, Notice(w) PROVE StoreInv'
  BY <1>8 DEF Notice, Renamed, Go, Q, M
<1>9. ASSUME NEW w \in Workers, NoticeFails(w) PROVE StoreInv'
  BY <1>9 DEF NoticeFails, Go, Q, M, tables
<1>10. ASSUME NEW w \in Workers, Select(w) PROVE StoreInv'
  BY <1>10 DEF Select, Go, Q, M, tables
<1>11. ASSUME NEW w \in Workers, SelectFails(w) PROVE StoreInv'
  BY <1>11 DEF SelectFails, Go, Q, M, tables, ghosts
<1>12. ASSUME NEW w \in Workers, Lookup(w) PROVE StoreInv'
  BY <1>12 DEF Lookup, Q, M, tables, job, ghosts
<1>13. ASSUME NEW w \in Workers, LookupFails(w) PROVE StoreInv'
  BY <1>13 DEF LookupFails, Q, M, tables, job
<1>14. ASSUME NEW w \in Workers, Delete(w) PROVE StoreInv'
  BY <1>14 DEF Delete, Go, Q, M
<1>15. ASSUME NEW w \in Workers, DeleteFails(w) PROVE StoreInv'
  BY <1>15 DEF DeleteFails, Go, Q, M, tables
<1>16. ASSUME NEW w \in Workers, Answer(w) PROVE StoreInv'
  BY <1>16 DEF Answer, Go, Q, M, tables
<1>17. ASSUME Crash PROVE StoreInv'
  BY <1>17 DEF Crash
<1>18. ASSUME UNCHANGED vars PROVE StoreInv'
  BY <1>18 DEF Q, M, tables, job, ghosts, vars
<1> QED BY <1>1, <1>2, <1>3, <1>4, <1>5, <1>6, <1>7, <1>8, <1>9,
          <1>10, <1>11, <1>12, <1>13, <1>14, <1>15, <1>16, <1>17, <1>18 DEF Next, Work

\* Rows come from set_offline_msg_data for users, and a recall keeps the addressee.
LEMMA UsersStep ==
  ASSUME TypeOK, PhaseInv, OneServer, Fresh, OfflineUsers, [Next]_vars
  PROVE  OfflineUsers'
<1> USE DEF TypeOK, PhaseInv, Ops, Pcs, OfflineUsers
<1>1. ASSUME NEW w \in Workers, NEW r \in Requests, Receive(w, r) PROVE OfflineUsers'
  BY <1>1 DEF Receive, tables
<1>2. ASSUME NEW w \in Workers, InsertHistory(w) PROVE OfflineUsers'
  BY <1>2 DEF InsertHistory
<1>3. ASSUME NEW w \in Workers, InsertHistoryFails(w) PROVE OfflineUsers'
  BY <1>3 DEF InsertHistoryFails, tables
<1>4. ASSUME NEW w \in Workers, InsertOffline(w) PROVE OfflineUsers'
  BY <1>4 DEF InsertOffline
<1>5. ASSUME NEW w \in Workers, InsertOfflineFails(w) PROVE OfflineUsers'
  BY <1>5 DEF InsertOfflineFails, tables
<1>6. ASSUME NEW w \in Workers, Rename(w) PROVE OfflineUsers'
  BY <1>6, SameTalk DEF Rename, Renamed
<1>7. ASSUME NEW w \in Workers, RenameFails(w) PROVE OfflineUsers'
  BY <1>7 DEF RenameFails, tables
<1>8. ASSUME NEW w \in Workers, Notice(w) PROVE OfflineUsers'
  BY <1>8 DEF Notice
<1>9. ASSUME NEW w \in Workers, NoticeFails(w) PROVE OfflineUsers'
  BY <1>9 DEF NoticeFails, tables
<1>10. ASSUME NEW w \in Workers, Select(w) PROVE OfflineUsers'
  BY <1>10 DEF Select, tables
<1>11. ASSUME NEW w \in Workers, SelectFails(w) PROVE OfflineUsers'
  BY <1>11 DEF SelectFails, tables
<1>12. ASSUME NEW w \in Workers, Lookup(w) PROVE OfflineUsers'
  BY <1>12 DEF Lookup, tables
<1>13. ASSUME NEW w \in Workers, LookupFails(w) PROVE OfflineUsers'
  BY <1>13 DEF LookupFails, tables
<1>14. ASSUME NEW w \in Workers, Delete(w) PROVE OfflineUsers'
  BY <1>14 DEF Delete
<1>15. ASSUME NEW w \in Workers, DeleteFails(w) PROVE OfflineUsers'
  BY <1>15 DEF DeleteFails, tables
<1>16. ASSUME NEW w \in Workers, Answer(w) PROVE OfflineUsers'
  BY <1>16 DEF Answer, tables
<1>17. ASSUME Crash PROVE OfflineUsers'
  BY <1>17 DEF Crash, tables
<1>18. ASSUME UNCHANGED vars PROVE OfflineUsers'
  BY <1>18 DEF tables, vars
<1> QED BY <1>1, <1>2, <1>3, <1>4, <1>5, <1>6, <1>7, <1>8, <1>9,
          <1>10, <1>11, <1>12, <1>13, <1>14, <1>15, <1>16, <1>17, <1>18 DEF Next, Work

\* The first rename takes the offline row to the notice, with the history still to
\* follow; a message that comes in between was coming when the recall began.
LEMMA NoticeStep ==
  ASSUME TypeOK, PhaseInv, OneServer, Fresh, OfflineUsers, EarlyInv, NoticeInv, OfflineHasHistory, [Next]_vars
  PROVE  NoticeInv'
<1> USE DEF TypeOK, PhaseInv, Ops, Pcs, OfflineUsers, EarlyInv, NoticeInv, OfflineHasHistory
<1>1. ASSUME NEW w \in Workers, NEW r \in Requests, Receive(w, r) PROVE NoticeInv'
  <2>1. /\ serving' = [serving EXCEPT ![w] = r] /\ torn \subseteq torn' /\ offline' = offline
        /\ history' = history /\ pc[w] = "idle" /\ r \in waiting
        /\ \A v \in Workers : v # w => pc'[v] = pc[v]
    BY <1>1 DEF Receive, tables
  <2>2. \A v \in Workers : v # w => M(v)' = M(v) /\ Of(v)' = Of(v)
    BY <2>1 DEF M, Of, Q
  <2>3. M(w)' = Ask[r].id /\ Of(w)' = Ask[r].of
    BY <2>1 DEF M, Of, Q
  <2>4. ASSUME pc'[w] = "notice" PROVE M(w)' \notin offline /\ Of(w)' \notin offline
    <3>1. Ask[r].op = "recall" /\ To[Ask[r].of] \notin Users
      BY <1>1, <2>4, AskTypes DEF Receive, First
    <3> QED BY <2>1, <2>3, <3>1 DEF Fresh, Away
  <2> QED BY <2>1, <2>2, <2>4
<1>2. ASSUME NEW w \in Workers, InsertHistory(w) PROVE NoticeInv'
  BY <1>2 DEF InsertHistory, AfterHistory, Go, Q, M, Of, ghosts
<1>3. ASSUME NEW w \in Workers, InsertHistoryFails(w) PROVE NoticeInv'
  BY <1>3 DEF InsertHistoryFails, AfterHistory, Go, Q, M, Of, tables
<1>4. ASSUME NEW w \in Workers, InsertOffline(w) PROVE NoticeInv'
  <2>1. /\ offline' = offline \cup {M(w)} /\ history' = history /\ torn' = torn
        /\ serving' = serving /\ pc[w] = "offline" /\ pc'[w] = "idle"
        /\ \A v \in Workers : v # w => pc'[v] = pc[v]
    BY <1>4 DEF InsertOffline, Go
  <2>2. \A v \in Workers : M(v)' = M(v) /\ Of(v)' = Of(v)
    BY <2>1 DEF M, Of, Q
  <2>3. Q(w).op = "offline" /\ Coming(M(w))
    BY <2>1 DEF Coming, M, Q
  <2>4. ASSUME NEW v \in Workers, v # w, pc[v] = "notice" PROVE M(v) # M(w)
    BY <2>1, <2>3, <2>4, OwnId
  <2> QED BY <2>1, <2>2, <2>3, <2>4
<1>5. ASSUME NEW w \in Workers, InsertOfflineFails(w) PROVE NoticeInv'
  BY <1>5 DEF InsertOfflineFails, Go, Q, M, Of, tables, ghosts
<1>6. ASSUME NEW w \in Workers, Rename(w) PROVE NoticeInv'
  <2>1. /\ offline' = Renamed(offline, w) /\ history' = history /\ serving' = serving
        /\ torn' = IF Of(w) \in torn THEN torn \cup {M(w)} ELSE torn
        /\ pc[w] = "rename" /\ pc'[w] = "notice"
        /\ \A v \in Workers : v # w => pc'[v] = pc[v]
    BY <1>6 DEF Rename, Go
  <2>2. \A v \in Workers : M(v)' = M(v) /\ Of(v)' = Of(v)
    BY <2>1 DEF M, Of, Q
  <2>3. offline' \subseteq offline \cup {M(w)} /\ Of(w) \notin offline'
        /\ (M(w) \in offline' => Of(w) \in offline)
    BY <2>1, SameTalk DEF Renamed, Fresh, Away
  <2>4. Of(w) \in offline => Of(w) \in history \/ M(w) \in torn'
    <3> SUFFICES ASSUME Of(w) \in offline PROVE Of(w) \in history \/ M(w) \in torn'
      OBVIOUS
    <3>1. CASE Of(w) \in torn
      BY <2>1, <3>1
    <3>2. ASSUME NEW v \in Workers, pc[v] = "notice", M(v) = Of(w) PROVE Of(w) \in torn
      <4>1. Q(v).op = "recall" /\ Coming(Of(w))
        BY <3>2 DEF Coming, M, Q
      <4> QED BY <2>1, <4>1
    <3> QED BY <3>1, <3>2
  <2>5. ASSUME NEW v \in Workers, v # w, pc[v] = "notice"
        PROVE  /\ M(v) # M(w)
               /\ Of(v) = M(w) => Of(v) \in torn
    <3>1. M(v) # M(w)
      BY <2>1, <2>5, OwnId
    <3>2. Coming(M(w))
      BY <2>1 DEF Coming, M, Q
    <3> QED BY <2>5, <3>1, <3>2
  <2> QED BY <2>1, <2>2, <2>3, <2>4, <2>5
<1>7. ASSUME NEW w \in Workers, RenameFails(w) PROVE NoticeInv'
  <2>1. /\ serving' = serving /\ torn \subseteq torn' /\ offline' = offline /\ history' = history
        /\ \A v \in Workers : v # w => pc'[v] = pc[v]
        /\ pc[w] = "rename" /\ (pc'[w] = "notice" => Of(w) \in torn')
    <3>1. CASE Go(w, "idle") /\ UNCHANGED torn
      BY <1>7, <3>1 DEF RenameFails, Go, tables
    <3>2. CASE Go(w, "notice") /\ torn' = torn \cup {Of(w)}
      BY <1>7, <3>2 DEF RenameFails, Go, tables
    <3> QED BY <1>7, <3>1, <3>2 DEF RenameFails
  <2>2. \A v \in Workers : M(v)' = M(v) /\ Of(v)' = Of(v)
    BY <2>1 DEF M, Of, Q
  <2>3. M(w) \notin offline
    BY <2>1 DEF Fresh, Away
  <2> QED BY <2>1, <2>2, <2>3
<1>8. ASSUME NEW w \in Workers, Notice(w) PROVE NoticeInv'
  BY <1>8 DEF Notice, Renamed, Go, Q, M, Of
<1>9. ASSUME NEW w \in Workers, NoticeFails(w) PROVE NoticeInv'
  BY <1>9 DEF NoticeFails, Go, Q, M, Of, tables
<1>10. ASSUME NEW w \in Workers, Select(w) PROVE NoticeInv'
  BY <1>10 DEF Select, Go, Q, M, Of, tables
<1>11. ASSUME NEW w \in Workers, SelectFails(w) PROVE NoticeInv'
  BY <1>11 DEF SelectFails, Go, Q, M, Of, tables, ghosts
<1>12. ASSUME NEW w \in Workers, Lookup(w) PROVE NoticeInv'
  BY <1>12 DEF Lookup, Q, M, Of, tables, job, ghosts
<1>13. ASSUME NEW w \in Workers, LookupFails(w) PROVE NoticeInv'
  BY <1>13 DEF LookupFails, Q, M, Of, tables, job
<1>14. ASSUME NEW w \in Workers, Delete(w) PROVE NoticeInv'
  BY <1>14 DEF Delete, Go, Q, M, Of
<1>15. ASSUME NEW w \in Workers, DeleteFails(w) PROVE NoticeInv'
  BY <1>15 DEF DeleteFails, Go, Q, M, Of, tables
<1>16. ASSUME NEW w \in Workers, Answer(w) PROVE NoticeInv'
  BY <1>16 DEF Answer, Go, Q, M, Of, tables
<1>17. ASSUME Crash PROVE NoticeInv'
  BY <1>17 DEF Crash
<1>18. ASSUME UNCHANGED vars PROVE NoticeInv'
  BY <1>18 DEF Q, M, Of, tables, job, ghosts, vars
<1> QED BY <1>1, <1>2, <1>3, <1>4, <1>5, <1>6, <1>7, <1>8, <1>9,
          <1>10, <1>11, <1>12, <1>13, <1>14, <1>15, <1>16, <1>17, <1>18 DEF Next, Work

\* Both tables have the message before, during and after its renames.
LEMMA HistoryStep ==
  ASSUME TypeOK, PhaseInv, OneServer, Fresh, EarlyInv, StoreInv, NoticeInv, OfflineHasHistory, [Next]_vars
  PROVE  OfflineHasHistory'
<1> USE DEF TypeOK, PhaseInv, Ops, Pcs, EarlyInv, StoreInv, NoticeInv, OfflineHasHistory, Coming
<1>1. ASSUME NEW w \in Workers, NEW r \in Requests, Receive(w, r) PROVE OfflineHasHistory'
  BY <1>1 DEF Receive, Q, M, tables
<1>2. ASSUME NEW w \in Workers, InsertHistory(w) PROVE OfflineHasHistory'
  BY <1>2 DEF InsertHistory, Go, Q, M, ghosts
<1>3. ASSUME NEW w \in Workers, InsertHistoryFails(w) PROVE OfflineHasHistory'
  BY <1>3 DEF InsertHistoryFails, Go, Q, M, tables
<1>4. ASSUME NEW w \in Workers, InsertOffline(w) PROVE OfflineHasHistory'
  BY <1>4 DEF InsertOffline, Go, Q, M
<1>5. ASSUME NEW w \in Workers, InsertOfflineFails(w) PROVE OfflineHasHistory'
  BY <1>5 DEF InsertOfflineFails, Go, Q, M, tables, ghosts
<1>6. ASSUME NEW w \in Workers, Rename(w) PROVE OfflineHasHistory'
  BY <1>6 DEF Rename, Renamed, Go, Q, M
<1>7. ASSUME NEW w \in Workers, RenameFails(w) PROVE OfflineHasHistory'
  BY <1>7 DEF RenameFails, Go, Q, M, tables
<1>8. ASSUME NEW w \in Workers, Notice(w) PROVE OfflineHasHistory'
  BY <1>8, AskTypes, Known DEF Notice, Renamed, Go, Q, M, vars
<1>9. ASSUME NEW w \in Workers, NoticeFails(w) PROVE OfflineHasHistory'
  BY <1>9 DEF NoticeFails, Go, Q, M, tables
<1>10. ASSUME NEW w \in Workers, Select(w) PROVE OfflineHasHistory'
  BY <1>10 DEF Select, Go, Q, M, tables
<1>11. ASSUME NEW w \in Workers, SelectFails(w) PROVE OfflineHasHistory'
  BY <1>11 DEF SelectFails, Go, Q, M, tables, ghosts
<1>12. ASSUME NEW w \in Workers, Lookup(w) PROVE OfflineHasHistory'
  BY <1>12 DEF Lookup, Q, M, tables, job, ghosts
<1>13. ASSUME NEW w \in Workers, LookupFails(w) PROVE OfflineHasHistory'
  BY <1>13 DEF LookupFails, Q, M, tables, job
<1>14. ASSUME NEW w \in Workers, Delete(w) PROVE OfflineHasHistory'
  BY <1>14 DEF Delete, Go, Q, M
<1>15. ASSUME NEW w \in Workers, DeleteFails(w) PROVE OfflineHasHistory'
  BY <1>15 DEF DeleteFails, Go, Q, M, tables
<1>16. ASSUME NEW w \in Workers, Answer(w) PROVE OfflineHasHistory'
  BY <1>16 DEF Answer, Go, Q, M, tables
<1>17. ASSUME Crash PROVE OfflineHasHistory'
  BY <1>17 DEF Crash, tables
<1>18. ASSUME UNCHANGED vars PROVE OfflineHasHistory'
  BY <1>18 DEF Q, M, tables, job, ghosts, vars
<1> QED BY <1>1, <1>2, <1>3, <1>4, <1>5, <1>6, <1>7, <1>8, <1>9,
          <1>10, <1>11, <1>12, <1>13, <1>14, <1>15, <1>16, <1>17, <1>18 DEF Next, Work

\* A message in no table, and not coming, stays in none.
LEMMA RecalledStep ==
  ASSUME TypeOK, PhaseInv, OneServer, Fresh, EarlyInv, LateInv, NoticeInv, RecalledStaysAway, [Next]_vars
  PROVE  RecalledStaysAway'
<1> USE DEF TypeOK, PhaseInv, Ops, Pcs, EarlyInv, LateInv, NoticeInv, RecalledStaysAway, Coming
<1>1. ASSUME NEW w \in Workers, NEW r \in Requests, Receive(w, r) PROVE RecalledStaysAway'
  BY <1>1 DEF Receive, tables
<1>2. ASSUME NEW w \in Workers, InsertHistory(w) PROVE RecalledStaysAway'
  BY <1>2 DEF InsertHistory, Q, M, ghosts
<1>3. ASSUME NEW w \in Workers, InsertHistoryFails(w) PROVE RecalledStaysAway'
  BY <1>3 DEF InsertHistoryFails, tables
<1>4. ASSUME NEW w \in Workers, InsertOffline(w) PROVE RecalledStaysAway'
  BY <1>4 DEF InsertOffline, Q, M
<1>5. ASSUME NEW w \in Workers, InsertOfflineFails(w) PROVE RecalledStaysAway'
  BY <1>5 DEF InsertOfflineFails, tables, ghosts
<1>6. ASSUME NEW w \in Workers, Rename(w) PROVE RecalledStaysAway'
  BY <1>6 DEF Rename, Renamed, Q, M
<1>7. ASSUME NEW w \in Workers, RenameFails(w) PROVE RecalledStaysAway'
  BY <1>7 DEF RenameFails, tables
<1>8. ASSUME NEW w \in Workers, Notice(w) PROVE RecalledStaysAway'
  BY <1>8 DEF Notice, Renamed, Q, M, tables, count, ghosts, vars
<1>9. ASSUME NEW w \in Workers, NoticeFails(w) PROVE RecalledStaysAway'
  BY <1>9 DEF NoticeFails, tables
<1>10. ASSUME NEW w \in Workers, Select(w) PROVE RecalledStaysAway'
  BY <1>10 DEF Select, tables
<1>11. ASSUME NEW w \in Workers, SelectFails(w) PROVE RecalledStaysAway'
  BY <1>11 DEF SelectFails, tables, ghosts
<1>12. ASSUME NEW w \in Workers, Lookup(w) PROVE RecalledStaysAway'
  BY <1>12 DEF Lookup, tables, ghosts
<1>13. ASSUME NEW w \in Workers, LookupFails(w) PROVE RecalledStaysAway'
  BY <1>13 DEF LookupFails, tables
<1>14. ASSUME NEW w \in Workers, Delete(w) PROVE RecalledStaysAway'
  BY <1>14 DEF Delete
<1>15. ASSUME NEW w \in Workers, DeleteFails(w) PROVE RecalledStaysAway'
  BY <1>15 DEF DeleteFails, tables
<1>16. ASSUME NEW w \in Workers, Answer(w) PROVE RecalledStaysAway'
  BY <1>16 DEF Answer, tables
<1>17. ASSUME Crash PROVE RecalledStaysAway'
  BY <1>17 DEF Crash, tables
<1>18. ASSUME UNCHANGED vars PROVE RecalledStaysAway'
  BY <1>18 DEF tables, ghosts, vars
<1> QED BY <1>1, <1>2, <1>3, <1>4, <1>5, <1>6, <1>7, <1>8, <1>9,
          <1>10, <1>11, <1>12, <1>13, <1>14, <1>15, <1>16, <1>17, <1>18 DEF Next, Work

\* A row that is stored or renamed while its user is counted is exposed.
LEMMA UnseenStep ==
  ASSUME TypeOK, PhaseInv, OneServer, Fresh, OfflineUsers, UnseenInv, [Next]_vars
  PROVE  UnseenInv'
<1> USE DEF TypeOK, PhaseInv, Ops, Pcs, UnseenInv, Box, BeingCounted, Counting, First, Talk, NoPick, ToLookUp
<1>1. ASSUME NEW w \in Workers, NEW r \in Requests, Receive(w, r) PROVE UnseenInv'
  BY <1>1, AskTypes DEF Receive, Q, tables, count
<1>2. ASSUME NEW w \in Workers, InsertHistory(w) PROVE UnseenInv'
  BY <1>2 DEF InsertHistory, AfterHistory, Go, Q, count, ghosts
<1>3. ASSUME NEW w \in Workers, InsertHistoryFails(w) PROVE UnseenInv'
  BY <1>3 DEF InsertHistoryFails, AfterHistory, Go, Q, tables, count
<1>4. ASSUME NEW w \in Workers, InsertOffline(w) PROVE UnseenInv'
  BY <1>4 DEF InsertOffline, Go, Q, count
<1>5. ASSUME NEW w \in Workers, InsertOfflineFails(w) PROVE UnseenInv'
  BY <1>5 DEF InsertOfflineFails, Go, Q, tables, count, ghosts
<1>6. ASSUME NEW w \in Workers, Rename(w) PROVE UnseenInv'
  BY <1>6, AskTypes DEF Rename, Renamed, Expose, Go, Q, M, count
<1>7. ASSUME NEW w \in Workers, RenameFails(w) PROVE UnseenInv'
  BY <1>7 DEF RenameFails, Go, Q, tables, count
<1>8. ASSUME NEW w \in Workers, Notice(w) PROVE UnseenInv'
  BY <1>8 DEF Notice, Expose, Go, Q, count
<1>9. ASSUME NEW w \in Workers, NoticeFails(w) PROVE UnseenInv'
  BY <1>9 DEF NoticeFails, Go, Q, tables, count
<1>10. ASSUME NEW w \in Workers, Select(w) PROVE UnseenInv'
  BY <1>10 DEF Select, Go, Q, tables
<1>11. ASSUME NEW w \in Workers, SelectFails(w) PROVE UnseenInv'
  BY <1>11 DEF SelectFails, Go, Q, tables, count, ghosts
<1>12. ASSUME NEW w \in Workers, Lookup(w) PROVE UnseenInv'
  BY <1>12 DEF Lookup, Q, tables, job, ghosts
<1>13. ASSUME NEW w \in Workers, LookupFails(w) PROVE UnseenInv'
  BY <1>13 DEF LookupFails, Q, tables, job
<1>14. ASSUME NEW w \in Workers, Delete(w) PROVE UnseenInv'
  BY <1>14 DEF Delete, Go, Q, count
<1>15. ASSUME NEW w \in Workers, DeleteFails(w) PROVE UnseenInv'
  BY <1>15 DEF DeleteFails, Go, Q, tables, count
<1>16. ASSUME NEW w \in Workers, Answer(w) PROVE UnseenInv'
  BY <1>16 DEF Answer, Go, Q, tables, count
<1>17. ASSUME Crash PROVE UnseenInv'
  BY <1>17 DEF Crash
<1>18. ASSUME UNCHANGED vars PROVE UnseenInv'
  BY <1>18 DEF Q, tables, job, count, ghosts, vars
<1> QED BY <1>1, <1>2, <1>3, <1>4, <1>5, <1>6, <1>7, <1>8, <1>9,
          <1>10, <1>11, <1>12, <1>13, <1>14, <1>15, <1>16, <1>17, <1>18 DEF Next, Work

\* A count keeps what it has if no row it has selected comes back and no reason goes away.
LEMMA LookFrame ==
  ASSUME LookInv, seen' = seen, pick' = pick, listed' = listed,
         \A v \in Workers : pc'[v] = "lookup" =>
           pc[v] = "lookup" /\ seen[v] \cap offline' \subseteq offline,
         history \subseteq history', exposed \subseteq exposed', torn \subseteq torn'
  PROVE  LookInv'
BY DEF LookInv, Excused, ToLookUp, Talk

\* Notice is the step that could break it: the message to be looked up leaves the
\* history, and then all rows of its conversation are exposed.
LEMMA LookStep ==
  ASSUME TypeOK, PhaseInv, OneServer, Fresh, SeenInv, PickInv, NoticeInv, OfflineHasHistory, LookInv,
         [Next]_vars
  PROVE  LookInv'
<1> USE DEF TypeOK, PhaseInv, Ops, Pcs
<1>1. ASSUME NEW w \in Workers, NEW r \in Requests, Receive(w, r) PROVE LookInv'
  <2>1. pc'[w] # "lookup" /\ \A v \in Workers : v # w => pc'[v] = pc[v]
    BY <1>1, AskTypes DEF Receive, First
  <2>2. seen' = seen /\ pick' = pick /\ listed' = listed
        /\ (\A v \in Workers : pc'[v] = "lookup" =>
             pc[v] = "lookup" /\ seen[v] \cap offline' \subseteq offline)
        /\ history \subseteq history' /\ exposed \subseteq exposed' /\ torn \subseteq torn'
    BY <1>1, <2>1 DEF Receive, tables, count
  <2> QED BY <2>2, LookFrame
<1>2. ASSUME NEW w \in Workers, InsertHistory(w) PROVE LookInv'
  <2>1. seen' = seen /\ pick' = pick /\ listed' = listed
        /\ (\A v \in Workers : pc'[v] = "lookup" =>
             pc[v] = "lookup" /\ seen[v] \cap offline' \subseteq offline)
        /\ history \subseteq history' /\ exposed \subseteq exposed' /\ torn \subseteq torn'
    BY <1>2 DEF InsertHistory, AfterHistory, Go, count, ghosts
  <2> QED BY <2>1, LookFrame
<1>3. ASSUME NEW w \in Workers, InsertHistoryFails(w) PROVE LookInv'
  <2>1. seen' = seen /\ pick' = pick /\ listed' = listed
        /\ (\A v \in Workers : pc'[v] = "lookup" =>
             pc[v] = "lookup" /\ seen[v] \cap offline' \subseteq offline)
        /\ history \subseteq history' /\ exposed \subseteq exposed' /\ torn \subseteq torn'
    <3>1. CASE Go(w, "idle")
      BY <1>3, <3>1 DEF InsertHistoryFails, Go, AfterHistory, tables, count
    <3>2. CASE Go(w, AfterHistory(w))
      BY <1>3, <3>2 DEF InsertHistoryFails, Go, AfterHistory, tables, count
    <3> QED BY <1>3, <3>1, <3>2 DEF InsertHistoryFails
  <2> QED BY <2>1, LookFrame
<1>4. ASSUME NEW w \in Workers, InsertOffline(w) PROVE LookInv'
  <2>1. seen' = seen /\ pick' = pick /\ listed' = listed
        /\ (\A v \in Workers : pc'[v] = "lookup" =>
             pc[v] = "lookup" /\ seen[v] \cap offline' \subseteq offline)
        /\ history \subseteq history' /\ exposed \subseteq exposed' /\ torn \subseteq torn'
    BY <1>4 DEF InsertOffline, Go, count, Fresh, Away, Looking
  <2> QED BY <2>1, LookFrame
<1>5. ASSUME NEW w \in Workers, InsertOfflineFails(w) PROVE LookInv'
  <2>1. seen' = seen /\ pick' = pick /\ listed' = listed
        /\ (\A v \in Workers : pc'[v] = "lookup" =>
             pc[v] = "lookup" /\ seen[v] \cap offline' \subseteq offline)
        /\ history \subseteq history' /\ exposed \subseteq exposed' /\ torn \subseteq torn'
    BY <1>5 DEF InsertOfflineFails, Go, tables, count, ghosts
  <2> QED BY <2>1, LookFrame
<1>6. ASSUME NEW w \in Workers, Rename(w) PROVE LookInv'
  <2>1. pc'[w] # "lookup" /\ \A v \in Workers : v # w => pc'[v] = pc[v]
    BY <1>6 DEF Rename, Go
  <2>2. exposed \subseteq exposed' /\ offline' \subseteq offline \cup {M(w)}
    BY <1>6 DEF Rename, Expose, Renamed
  <2>3. \A v \in Workers : pc[v] = "lookup" => M(w) \notin seen[v]
    BY <1>6 DEF Rename, Fresh, Away, Looking
  <2>4. seen' = seen /\ pick' = pick /\ listed' = listed
        /\ (\A v \in Workers : pc'[v] = "lookup" =>
             pc[v] = "lookup" /\ seen[v] \cap offline' \subseteq offline)
        /\ history \subseteq history' /\ exposed \subseteq exposed' /\ torn \subseteq torn'
    BY <1>6, <2>1, <2>2, <2>3 DEF Rename, count
  <2> QED BY <2>4, LookFrame
<1>7. ASSUME NEW w \in Workers, RenameFails(w) PROVE LookInv'
  <2>1. seen' = seen /\ pick' = pick /\ listed' = listed
        /\ (\A v \in Workers : pc'[v] = "lookup" =>
             pc[v] = "lookup" /\ seen[v] \cap offline' \subseteq offline)
        /\ history \subseteq history' /\ exposed \subseteq exposed' /\ torn \subseteq torn'
    <3>1. CASE Go(w, "idle") /\ UNCHANGED torn
      BY <1>7, <3>1 DEF RenameFails, Go, tables, count
    <3>2. CASE Go(w, "notice") /\ torn' = torn \cup {Of(w)}
      BY <1>7, <3>2 DEF RenameFails, Go, tables, count
    <3> QED BY <1>7, <3>1, <3>2 DEF RenameFails
  <2> QED BY <2>1, LookFrame
<1>8. ASSUME NEW w \in Workers, Notice(w) PROVE LookInv'
  <2>1. /\ pc[w] = "notice" /\ pc'[w] = "idle" /\ \A v \in Workers : v # w => pc'[v] = pc[v]
        /\ seen' = seen /\ pick' = pick /\ listed' = listed /\ offline' = offline /\ torn' = torn
        /\ exposed \subseteq exposed' /\ history \subseteq history' \cup {Of(w)}
        /\ serving' = serving
    BY <1>8 DEF Notice, Go, Expose, Renamed, count
  <2>2. ASSUME NEW v \in Workers, pc[v] = "lookup", Of(w) \in seen[v]
        PROVE  \A m \in seen[v] \cap offline : From[m] = From[Of(w)] => m \in exposed'
    <3>1. To[M(w)] = Q(v).user /\ From[M(w)] = From[Of(w)]
      BY <2>1, <2>2, SameTalk DEF SeenInv, Looking
    <3>2. BeingCounted(To[M(w)])
      BY <2>2, <3>1 DEF BeingCounted, Counting
    <3>3. exposed' = exposed \cup (offline \cap Talk(M(w)))
      BY <1>8, <3>2 DEF Notice, Expose
    <3>4. \A m \in seen[v] : m \in Ids /\ To[m] = To[M(w)]
      BY <2>2, <3>1 DEF SeenInv, Looking, TypeOK
    <3> QED BY <3>1, <3>3, <3>4 DEF Talk
  <2>3. ASSUME NEW v \in Workers, pc[v] = "lookup", NEW m \in seen[v] \cap offline
        PROVE  \/ m \in listed[v] \/ m \in exposed' \/ Talk(m) \cap torn # {}
               \/ From[m] \in ToLookUp(v) /\ pick[v][From[m]] \in history'
    <3>1. \/ m \in listed[v] \/ m \in exposed \/ Talk(m) \cap torn # {}
          \/ From[m] \in ToLookUp(v) /\ pick[v][From[m]] \in history
      BY <2>3 DEF LookInv, Excused
    <3>2. ASSUME From[m] \in ToLookUp(v), pick[v][From[m]] = Of(w) PROVE m \in exposed'
      <4>1. Of(w) \in seen[v] /\ From[Of(w)] = From[m]
        BY <2>3, <3>2 DEF PickInv
      <4> QED BY <2>2, <2>3, <4>1
    <3> QED BY <2>1, <3>1, <3>2
  <2> QED BY <2>1, <2>3 DEF LookInv, Excused, ToLookUp, Talk
<1>9. ASSUME NEW w \in Workers, NoticeFails(w) PROVE LookInv'
  <2>1. seen' = seen /\ pick' = pick /\ listed' = listed
        /\ (\A v \in Workers : pc'[v] = "lookup" =>
             pc[v] = "lookup" /\ seen[v] \cap offline' \subseteq offline)
        /\ history \subseteq history' /\ exposed \subseteq exposed' /\ torn \subseteq torn'
    BY <1>9 DEF NoticeFails, Go, tables, count
  <2> QED BY <2>1, LookFrame
<1>10. ASSUME NEW w \in Workers, Select(w) PROVE LookInv'
  <2> DEFINE u == Q(w).user
             rows == Box(u)
             halfway == {m \in rows : \E v \in Workers : pc[v] = "notice" /\ m \in Talk(M(v))}
  <2>1. /\ pc[w] = "select" /\ pc'[w] = "lookup" /\ seen'[w] = rows /\ listed'[w] = {}
        /\ \A v \in Workers : v # w => /\ pc'[v] = pc[v] /\ seen'[v] = seen[v]
                                       /\ listed'[v] = listed[v] /\ pick'[v] = pick[v]
        /\ history' = history /\ offline' = offline /\ torn' = torn
        /\ exposed' = (IF BeingCounted(u) THEN exposed ELSE exposed \ rows) \cup halfway
    BY <1>10 DEF Select, Go, tables
  <2>2. pick'[w] \in Picks(rows)
    BY <1>10 DEF Select
  <2>3. ASSUME NEW m \in rows
        PROVE  \/ m \in exposed' \/ Talk(m) \cap torn # {}
               \/ pick'[w][From[m]] # NoId /\ pick'[w][From[m]] \in history
    <3> DEFINE p == pick'[w][From[m]]
    <3>1. m \in Ids /\ m \in offline /\ To[m] = u /\ From[m] \in Users
      BY MessagesAssumption DEF Box, TypeOK
    <3>2. p # NoId /\ From[p] = From[m] /\ p \in rows
      BY <2>2, <3>1 DEF Picks
    <3>3. p \in offline /\ p \in Ids /\ To[p] = u
      BY <3>2 DEF Box, TypeOK
    <3>4. p \in Talk(m)
      BY <3>1, <3>2, <3>3 DEF Talk
    <3>5. ASSUME NEW v \in Workers, pc[v] = "notice", M(v) = p PROVE m \in exposed'
      <4>1. m \in Talk(M(v))
        BY <3>1, <3>2, <3>3, <3>5 DEF Talk
      <4> QED BY <2>1, <3>5, <4>1
    <3> QED BY <3>2, <3>3, <3>4, <3>5 DEF OfflineHasHistory
  <2>4. ASSUME NEW v \in Workers, v # w, pc[v] = "lookup", NEW m \in seen[v], m \in exposed
        PROVE  m \in exposed'
    <3>1. To[m] = Q(v).user
      BY <2>4 DEF SeenInv, Looking
    <3>2. Q(v).user = u => BeingCounted(u)
      BY <2>4 DEF BeingCounted, Counting
    <3>3. m \in rows => To[m] = u
      BY DEF Box
    <3> QED BY <2>1, <2>4, <3>1, <3>2, <3>3
  <2>5. ASSUME NEW m \in rows, pick'[w][From[m]] # NoId PROVE (From[m] \in ToLookUp(w))'
    BY <2>5, MessagesAssumption DEF ToLookUp, Box, TypeOK
  <2> HIDE DEF u, rows, halfway
  <2>6. ASSUME NEW m \in rows
        PROVE  (Excused(m) \/ (From[m] \in ToLookUp(w) /\ pick[w][From[m]] \in history))'
    BY <2>1, <2>3, <2>5 DEF Excused, Talk
  <2>7. ASSUME NEW v \in Workers, v # w, pc[v] = "lookup", NEW m \in seen[v] \cap offline
        PROVE  (\/ m \in listed[v] \/ Excused(m)
                \/ From[m] \in ToLookUp(v) /\ pick[v][From[m]] \in history)'
    BY <2>1, <2>4, <2>7 DEF LookInv, Excused, Talk, ToLookUp
  <2> QED BY <2>1, <2>6, <2>7 DEF LookInv
<1>11. ASSUME NEW w \in Workers, SelectFails(w) PROVE LookInv'
  <2>1. seen' = seen /\ pick' = pick /\ listed' = listed
        /\ (\A v \in Workers : pc'[v] = "lookup" =>
             pc[v] = "lookup" /\ seen[v] \cap offline' \subseteq offline)
        /\ history \subseteq history' /\ exposed \subseteq exposed' /\ torn \subseteq torn'
    BY <1>11 DEF SelectFails, Go, tables, count, ghosts
  <2> QED BY <2>1, LookFrame
<1>12. ASSUME NEW w \in Workers, Lookup(w) PROVE LookInv'
  <2>1. PICK x \in ToLookUp(w) :
          /\ listed' = [listed EXCEPT ![w] =
                          IF pick[w][x] \in history THEN listed[w] \cup {m \in seen[w] : From[m] = x}
                          ELSE listed[w]]
          /\ pick' = [pick EXCEPT ![w][x] = NoId]
    BY <1>12 DEF Lookup
  <2>2. /\ pc' = pc /\ seen' = seen /\ exposed' = exposed /\ torn' = torn
        /\ offline' = offline /\ history' = history
        /\ \A v \in Workers : v # w => pick'[v] = pick[v] /\ listed'[v] = listed[v]
    BY <1>12, <2>1 DEF Lookup, job, tables, ghosts
  <2>3. \A y \in ToLookUp(w) : y # x => y \in ToLookUp(w)' /\ pick'[w][y] = pick[w][y]
    BY <2>1 DEF ToLookUp
  <2>4. ASSUME NEW v \in Workers, v # w, pc[v] = "lookup", NEW m \in seen[v] \cap offline
        PROVE  (\/ m \in listed[v] \/ Excused(m)
                \/ From[m] \in ToLookUp(v) /\ pick[v][From[m]] \in history)'
    BY <2>2, <2>4 DEF LookInv, Excused, Talk, ToLookUp
  <2>5. ASSUME pc[w] = "lookup", NEW m \in seen[w] \cap offline
        PROVE  (\/ m \in listed[w] \/ Excused(m)
                \/ From[m] \in ToLookUp(w) /\ pick[w][From[m]] \in history)'
    <3>1. CASE From[m] = x /\ pick[w][x] \in history
      BY <2>1, <2>5, <3>1
    <3>2. CASE From[m] = x /\ pick[w][x] \notin history
      BY <2>1, <2>2, <2>5, <3>2 DEF LookInv, Excused, Talk
    <3>3. CASE From[m] # x
      <4>1. m \in listed[w] => m \in listed'[w]
        BY <2>1
      <4> QED BY <2>2, <2>3, <2>5, <3>3, <4>1 DEF LookInv, Excused, Talk
    <3> QED BY <3>1, <3>2, <3>3
  <2> QED BY <2>2, <2>4, <2>5 DEF LookInv
<1>13. ASSUME NEW w \in Workers, LookupFails(w) PROVE LookInv'
  <2>1. /\ exposed' = exposed \cup {m \in seen[w] : From[m] \in ToLookUp(w)}
        /\ \A v \in Workers : v # w => pick'[v] = pick[v]
        /\ pc' = pc /\ seen' = seen /\ listed' = listed /\ torn' = torn
        /\ offline' = offline /\ history' = history
    BY <1>13 DEF LookupFails, job, tables
  <2>2. ASSUME NEW v \in Workers, v # w, pc[v] = "lookup", NEW m \in seen[v] \cap offline
        PROVE  (\/ m \in listed[v] \/ Excused(m)
                \/ From[m] \in ToLookUp(v) /\ pick[v][From[m]] \in history)'
    BY <2>1, <2>2 DEF LookInv, Excused, Talk, ToLookUp
  <2>3. ASSUME pc[w] = "lookup", NEW m \in seen[w] \cap offline
        PROVE  m \in listed'[w] \/ Excused(m)'
    BY <2>1, <2>3 DEF LookInv, Excused, Talk
  <2> QED BY <2>1, <2>2, <2>3 DEF LookInv
<1>14. ASSUME NEW w \in Workers, Delete(w) PROVE LookInv'
  <2>1. seen' = seen /\ pick' = pick /\ listed' = listed
        /\ (\A v \in Workers : pc'[v] = "lookup" =>
             pc[v] = "lookup" /\ seen[v] \cap offline' \subseteq offline)
        /\ history \subseteq history' /\ exposed \subseteq exposed' /\ torn \subseteq torn'
    BY <1>14 DEF Delete, Go, count, Box
  <2> QED BY <2>1, LookFrame
<1>15. ASSUME NEW w \in Workers, DeleteFails(w) PROVE LookInv'
  <2>1. seen' = seen /\ pick' = pick /\ listed' = listed
        /\ (\A v \in Workers : pc'[v] = "lookup" =>
             pc[v] = "lookup" /\ seen[v] \cap offline' \subseteq offline)
        /\ history \subseteq history' /\ exposed \subseteq exposed' /\ torn \subseteq torn'
    <3>1. CASE Go(w, "idle")
      BY <1>15, <3>1 DEF DeleteFails, Go, tables, count
    <3>2. CASE Go(w, "answer")
      BY <1>15, <3>2 DEF DeleteFails, Go, tables, count
    <3> QED BY <1>15, <3>1, <3>2 DEF DeleteFails
  <2> QED BY <2>1, LookFrame
<1>16. ASSUME NEW w \in Workers, Answer(w) PROVE LookInv'
  <2>1. seen' = seen /\ pick' = pick /\ listed' = listed
        /\ (\A v \in Workers : pc'[v] = "lookup" =>
             pc[v] = "lookup" /\ seen[v] \cap offline' \subseteq offline)
        /\ history \subseteq history' /\ exposed \subseteq exposed' /\ torn \subseteq torn'
    BY <1>16 DEF Answer, Go, tables, count
  <2> QED BY <2>1, LookFrame
<1>17. ASSUME Crash PROVE LookInv'
  BY <1>17 DEF Crash, LookInv
<1>18. ASSUME UNCHANGED vars PROVE LookInv'
  <2>1. seen' = seen /\ pick' = pick /\ listed' = listed
        /\ (\A v \in Workers : pc'[v] = "lookup" =>
             pc[v] = "lookup" /\ seen[v] \cap offline' \subseteq offline)
        /\ history \subseteq history' /\ exposed \subseteq exposed' /\ torn \subseteq torn'
    BY <1>18 DEF vars, tables, job, count, ghosts
  <2> QED BY <2>1, LookFrame
<1> QED BY <1>1, <1>2, <1>3, <1>4, <1>5, <1>6, <1>7, <1>8, <1>9,
          <1>10, <1>11, <1>12, <1>13, <1>14, <1>15, <1>16, <1>17, <1>18 DEF Next, Work

\* Delete takes only rows that LookInv, with nothing left to look up, finds listed
\* or excused.
LEMMA SlipStep ==
  ASSUME TypeOK, PhaseInv, OneServer, Fresh, SeenInv, UnseenInv, LookInv, GoneInv, NothingSlips, [Next]_vars
  PROVE  NothingSlips'
<1> USE DEF TypeOK, PhaseInv, Ops, Pcs, SeenInv, UnseenInv, LookInv, GoneInv, NothingSlips,
       Announcing, Excused, Looking, Counting
<1>1. ASSUME NEW w \in Workers, NEW r \in Requests, Receive(w, r) PROVE NothingSlips'
  BY <1>1 DEF Receive, count
<1>2. ASSUME NEW w \in Workers, InsertHistory(w) PROVE NothingSlips'
  BY <1>2 DEF InsertHistory, Go, count, ghosts
<1>3. ASSUME NEW w \in Workers, InsertHistoryFails(w) PROVE NothingSlips'
  BY <1>3 DEF InsertHistoryFails, Go, count
<1>4. ASSUME NEW w \in Workers, InsertOffline(w) PROVE NothingSlips'
  BY <1>4 DEF InsertOffline, Go, count
<1>5. ASSUME NEW w \in Workers, InsertOfflineFails(w) PROVE NothingSlips'
  BY <1>5 DEF InsertOfflineFails, Go, count, ghosts
<1>6. ASSUME NEW w \in Workers, Rename(w) PROVE NothingSlips'
  BY <1>6 DEF Rename, Expose, Go, count
<1>7. ASSUME NEW w \in Workers, RenameFails(w) PROVE NothingSlips'
  BY <1>7 DEF RenameFails, Go, count
<1>8. ASSUME NEW w \in Workers, Notice(w) PROVE NothingSlips'
  BY <1>8 DEF Notice, Expose, Go, count
<1>9. ASSUME NEW w \in Workers, NoticeFails(w) PROVE NothingSlips'
  BY <1>9 DEF NoticeFails, Go, count
<1>10. ASSUME NEW w \in Workers, Select(w) PROVE NothingSlips'
  BY <1>10 DEF Select, Box, Go
<1>11. ASSUME NEW w \in Workers, SelectFails(w) PROVE NothingSlips'
  BY <1>11 DEF SelectFails, Go, count, ghosts
<1>12. ASSUME NEW w \in Workers, Lookup(w) PROVE NothingSlips'
  BY <1>12 DEF Lookup, job, ghosts
<1>13. ASSUME NEW w \in Workers, LookupFails(w) PROVE NothingSlips'
  BY <1>13 DEF LookupFails, job
<1>14. ASSUME NEW w \in Workers, Delete(w) PROVE NothingSlips'
  BY <1>14 DEF Delete, Box, Go, count
<1>15. ASSUME NEW w \in Workers, DeleteFails(w) PROVE NothingSlips'
  BY <1>15 DEF DeleteFails, Go, count
<1>16. ASSUME NEW w \in Workers, Answer(w) PROVE NothingSlips'
  BY <1>16 DEF Answer, Go, count
<1>17. ASSUME Crash PROVE NothingSlips'
  BY <1>17 DEF Crash
<1>18. ASSUME UNCHANGED vars PROVE NothingSlips'
  BY <1>18 DEF job, count, ghosts, vars
<1> QED BY <1>1, <1>2, <1>3, <1>4, <1>5, <1>6, <1>7, <1>8, <1>9,
          <1>10, <1>11, <1>12, <1>13, <1>14, <1>15, <1>16, <1>17, <1>18 DEF Next, Work

\* Where nothing is counted and no row is stored, nothing changes about the told.
LEMMA ToldFrame ==
  ASSUME SeenInv, ToldInv, listed' = listed, seen' = seen, told' = told, serving' = serving,
         \A v \in Workers : Looking(v)' => pc'[v] = pc[v] /\ seen[v] \cap offline' \subseteq offline,
         told \cap offline' \subseteq offline, redone \subseteq redone'
  PROVE  ToldInv'
BY DEF ToldInv, SeenInv, Looking

\* Two counts have a row in common only if they overlapped, or the first did not
\* delete.
LEMMA ToldStep ==
  ASSUME TypeOK, PhaseInv, OneServer, Fresh, SeenInv, ToldInv, [Next]_vars
  PROVE  ToldInv'
<1> USE DEF TypeOK, PhaseInv, Ops, Pcs, SeenInv, ToldInv, Looking, Counting
<1>1. ASSUME NEW w \in Workers, NEW r \in Requests, Receive(w, r) PROVE ToldInv'
  BY <1>1, AskTypes DEF Receive, First, tables, count
<1>2. ASSUME NEW w \in Workers, InsertHistory(w) PROVE ToldInv'
  BY <1>2 DEF InsertHistory, AfterHistory, Go, count, ghosts
<1>3. ASSUME NEW w \in Workers, InsertHistoryFails(w) PROVE ToldInv'
  <2>1. /\ listed' = listed /\ seen' = seen /\ told' = told /\ serving' = serving
        /\ (\A v \in Workers : Looking(v)' => pc'[v] = pc[v] /\ seen[v] \cap offline' \subseteq offline)
        /\ told \cap offline' \subseteq offline /\ redone \subseteq redone'
    <3>1. CASE Go(w, "idle")
      BY <1>3, <3>1 DEF InsertHistoryFails, Go, AfterHistory, Looking, tables, count
    <3>2. CASE Go(w, AfterHistory(w))
      BY <1>3, <3>2 DEF InsertHistoryFails, Go, AfterHistory, Looking, tables, count
    <3> QED BY <1>3, <3>1, <3>2 DEF InsertHistoryFails
  <2> QED BY <2>1, ToldFrame
<1>4. ASSUME NEW w \in Workers, InsertOffline(w) PROVE ToldInv'
  <2>1. /\ listed' = listed /\ seen' = seen /\ told' = told /\ serving' = serving
        /\ (\A v \in Workers : Looking(v)' => pc'[v] = pc[v] /\ seen[v] \cap offline' \subseteq offline)
        /\ told \cap offline' \subseteq offline /\ redone \subseteq redone'
    BY <1>4 DEF InsertOffline, Go, count, Fresh, Away, Looking
  <2> QED BY <2>1, ToldFrame
<1>5. ASSUME NEW w \in Workers, InsertOfflineFails(w) PROVE ToldInv'
  BY <1>5 DEF InsertOfflineFails, Go, tables, count, ghosts
<1>6. ASSUME NEW w \in Workers, Rename(w) PROVE ToldInv'
  <2>1. offline' \subseteq offline \cup {M(w)}
    BY <1>6 DEF Rename, Renamed
  <2>2. M(w) \notin told /\ \A v \in Workers : Looking(v) => M(w) \notin seen[v]
    BY <1>6 DEF Rename, Fresh, Away
  <2>3. \A v \in Workers : Looking(v)' => pc'[v] = pc[v] /\ Looking(v)
    BY <1>6 DEF Rename, Go, Looking
  <2>4. /\ listed' = listed /\ seen' = seen /\ told' = told /\ serving' = serving
        /\ (\A v \in Workers : Looking(v)' => pc'[v] = pc[v] /\ seen[v] \cap offline' \subseteq offline)
        /\ told \cap offline' \subseteq offline /\ redone \subseteq redone'
    BY <1>6, <2>1, <2>2, <2>3 DEF Rename, Go, count
  <2> QED BY <2>4, ToldFrame
<1>7. ASSUME NEW w \in Workers, RenameFails(w) PROVE ToldInv'
  <2>1. /\ listed' = listed /\ seen' = seen /\ told' = told /\ serving' = serving
        /\ (\A v \in Workers : Looking(v)' => pc'[v] = pc[v] /\ seen[v] \cap offline' \subseteq offline)
        /\ told \cap offline' \subseteq offline /\ redone \subseteq redone'
    <3>1. CASE Go(w, "idle") /\ UNCHANGED torn
      BY <1>7, <3>1 DEF RenameFails, Go, Looking, tables, count
    <3>2. CASE Go(w, "notice") /\ torn' = torn \cup {Of(w)}
      BY <1>7, <3>2 DEF RenameFails, Go, Looking, tables, count
    <3> QED BY <1>7, <3>1, <3>2 DEF RenameFails
  <2> QED BY <2>1, ToldFrame
<1>8. ASSUME NEW w \in Workers, Notice(w) PROVE ToldInv'
  BY <1>8 DEF Notice, Go, count
<1>9. ASSUME NEW w \in Workers, NoticeFails(w) PROVE ToldInv'
  BY <1>9 DEF NoticeFails, Go, tables, count
<1>10. ASSUME NEW w \in Workers, Select(w) PROVE ToldInv'
  <2>1. /\ pc[w] = "select" /\ pc'[w] = "lookup" /\ seen'[w] = Box(Q(w).user) /\ listed'[w] = {}
        /\ \A v \in Workers : v # w => /\ pc'[v] = pc[v] /\ seen'[v] = seen[v] /\ listed'[v] = listed[v]
        /\ offline' = offline /\ told' = told
        /\ redone' = IF BeingCounted(Q(w).user) THEN redone \cup {Q(w).user} ELSE redone
    BY <1>10 DEF Select, Go, tables
  <2>2. \A m \in Box(Q(w).user) : m \in offline /\ To[m] = Q(w).user
    BY DEF Box
  <2>3. ASSUME NEW v \in Workers, v # w, Looking(v), NEW m \in Box(Q(w).user) \cap seen[v]
        PROVE  To[m] \in redone'
    <3>1. CASE pc[v] = "lookup"
      <4>1. BeingCounted(Q(w).user)
        BY <2>2, <2>3, <3>1 DEF BeingCounted, Counting, SeenInv
      <4> QED BY <2>1, <2>2, <4>1
    <3>2. CASE pc[v] = "answer"
      BY <2>1, <2>2, <2>3, <3>2 DEF ToldInv
    <3> QED BY <2>3, <3>1, <3>2 DEF Looking
  <2> QED BY <2>1, <2>2, <2>3 DEF ToldInv, Looking
<1>11. ASSUME NEW w \in Workers, SelectFails(w) PROVE ToldInv'
  BY <1>11 DEF SelectFails, Go, tables, count, ghosts
<1>12. ASSUME NEW w \in Workers, Lookup(w) PROVE ToldInv'
  BY <1>12 DEF Lookup, tables, job, ghosts
<1>13. ASSUME NEW w \in Workers, LookupFails(w) PROVE ToldInv'
  BY <1>13 DEF LookupFails, tables, job
<1>14. ASSUME NEW w \in Workers, Delete(w) PROVE ToldInv'
  BY <1>14 DEF Delete, Box, Go, count
<1>15. ASSUME NEW w \in Workers, DeleteFails(w) PROVE ToldInv'
  <2>1. /\ offline' = offline /\ seen' = seen /\ listed' = listed /\ told' = told
        /\ redone' = redone \cup {Q(w).user} /\ pc[w] = "lookup"
        /\ \A v \in Workers : v # w => pc'[v] = pc[v]
    <3>1. CASE Go(w, "idle")
      BY <1>15, <3>1 DEF DeleteFails, Go, tables, count
    <3>2. CASE Go(w, "answer")
      BY <1>15, <3>2 DEF DeleteFails, Go, tables, count
    <3> QED BY <1>15, <3>1, <3>2 DEF DeleteFails
  <2>2. \A m \in seen[w] : To[m] \in redone'
    BY <2>1 DEF SeenInv, Looking
  <2> QED BY <2>1, <2>2 DEF ToldInv, SeenInv, Looking
<1>16. ASSUME NEW w \in Workers, Answer(w) PROVE ToldInv'
  BY <1>16 DEF Answer, Go, tables, count
<1>17. ASSUME Crash PROVE ToldInv'
  BY <1>17 DEF Crash, tables
<1>18. ASSUME UNCHANGED vars PROVE ToldInv'
  BY <1>18 DEF tables, job, count, ghosts, vars
<1> QED BY <1>1, <1>2, <1>3, <1>4, <1>5, <1>6, <1>7, <1>8, <1>9,
          <1>10, <1>11, <1>12, <1>13, <1>14, <1>15, <1>16, <1>17, <1>18 DEF Next, Work

\* What an answer lists again was told before, and ToldInv knows why.
LEMMA OnceStep ==
  ASSUME TypeOK, PhaseInv, OneServer, Fresh, SeenInv, ToldInv, ToldOnce, [Next]_vars
  PROVE  ToldOnce'
<1> USE DEF TypeOK, PhaseInv, Ops, Pcs, SeenInv, ToldInv, ToldOnce, Looking
<1>1. ASSUME NEW w \in Workers, NEW r \in Requests, Receive(w, r) PROVE ToldOnce'
  BY <1>1 DEF Receive
<1>2. ASSUME NEW w \in Workers, InsertHistory(w) PROVE ToldOnce'
  BY <1>2 DEF InsertHistory, ghosts
<1>3. ASSUME NEW w \in Workers, InsertHistoryFails(w) PROVE ToldOnce'
  BY <1>3 DEF InsertHistoryFails
<1>4. ASSUME NEW w \in Workers, InsertOffline(w) PROVE ToldOnce'
  BY <1>4 DEF InsertOffline
<1>5. ASSUME NEW w \in Workers, InsertOfflineFails(w) PROVE ToldOnce'
  BY <1>5 DEF InsertOfflineFails, ghosts
<1>6. ASSUME NEW w \in Workers, Rename(w) PROVE ToldOnce'
  BY <1>6 DEF Rename
<1>7. ASSUME NEW w \in Workers, RenameFails(w) PROVE ToldOnce'
  BY <1>7 DEF RenameFails
<1>8. ASSUME NEW w \in Workers, Notice(w) PROVE ToldOnce'
  BY <1>8 DEF Notice
<1>9. ASSUME NEW w \in Workers, NoticeFails(w) PROVE ToldOnce'
  BY <1>9 DEF NoticeFails
<1>10. ASSUME NEW w \in Workers, Select(w) PROVE ToldOnce'
  BY <1>10 DEF Select
<1>11. ASSUME NEW w \in Workers, SelectFails(w) PROVE ToldOnce'
  BY <1>11 DEF SelectFails, ghosts
<1>12. ASSUME NEW w \in Workers, Lookup(w) PROVE ToldOnce'
  BY <1>12 DEF Lookup, ghosts
<1>13. ASSUME NEW w \in Workers, LookupFails(w) PROVE ToldOnce'
  BY <1>13 DEF LookupFails
<1>14. ASSUME NEW w \in Workers, Delete(w) PROVE ToldOnce'
  BY <1>14 DEF Delete
<1>15. ASSUME NEW w \in Workers, DeleteFails(w) PROVE ToldOnce'
  BY <1>15 DEF DeleteFails
<1>16. ASSUME NEW w \in Workers, Answer(w) PROVE ToldOnce'
  BY <1>16 DEF Answer
<1>17. ASSUME Crash PROVE ToldOnce'
  BY <1>17 DEF Crash
<1>18. ASSUME UNCHANGED vars PROVE ToldOnce'
  BY <1>18 DEF ghosts, vars
<1> QED BY <1>1, <1>2, <1>3, <1>4, <1>5, <1>6, <1>7, <1>8, <1>9,
          <1>10, <1>11, <1>12, <1>13, <1>14, <1>15, <1>16, <1>17, <1>18 DEF Next, Work

-----------------------------------------------------------------------------
(* The theorems.                                                           *)

\* Everything starts empty, and idle.
LEMMA InitIInv == ASSUME Init PROVE IInv
<1>1. TypeOK
  BY MessagesAssumption DEF Init, TypeOK, Pcs, NoPick
<1>2. Fresh /\ ToldInv /\ ToldOnce
  BY DEF Init, Fresh, Away, Looking, ToldInv, ToldOnce
<1>3. EarlyInv /\ LateInv /\ NoticeInv /\ StoreInv /\ OfflineHasHistory /\ RecalledStaysAway
  BY DEF Init, EarlyInv, LateInv, NoticeInv, StoreInv, OfflineHasHistory, RecalledStaysAway
<1>4. PhaseInv /\ OneServer /\ OfflineUsers /\ GoneInv /\ NothingSlips
  BY DEF Init, PhaseInv, OneServer, Busy, OfflineUsers, GoneInv, NothingSlips
<1>5. SeenInv /\ PickInv /\ UnseenInv /\ LookInv
  BY DEF Init, SeenInv, Looking, PickInv, UnseenInv, LookInv
<1> QED BY <1>1, <1>2, <1>3, <1>4, <1>5 DEF IInv

\* Every step keeps the inductive invariant.
LEMMA StepIInv == ASSUME IInv, [Next]_vars PROVE IInv'
<1> USE DEF IInv
<1>1. (TypeOK /\ PhaseInv /\ OneServer /\ OfflineUsers)'
  BY TypeStep, PhaseStep, ServerStep, UsersStep
<1>2. (Fresh /\ GoneInv /\ SeenInv /\ PickInv)'
  BY FreshStep, GoneStep, SeenStep, PickStep
<1>3. (EarlyInv /\ LateInv /\ StoreInv /\ NoticeInv)'
  BY EarlyStep, LateStep, StoreStep, NoticeStep
<1>4. (OfflineHasHistory /\ RecalledStaysAway)'
  BY HistoryStep, RecalledStep
<1>5. (UnseenInv /\ LookInv /\ NothingSlips)'
  BY UnseenStep, LookStep, SlipStep
<1>6. (ToldInv /\ ToldOnce)'
  BY ToldStep, OnceStep
<1> QED BY <1>1, <1>2, <1>3, <1>4, <1>5, <1>6

\* The inductive invariant holds in every behaviour of the handlers.
THEOREM Invariance == Spec => []IInv
BY InitIInv, StepIInv, PTL DEF Spec

\* The state keeps its types, with any number of workers and requests.
THEOREM TypeCorrect == Spec => []TypeOK
<1>1. IInv => TypeOK
  BY DEF IInv
<1> QED BY <1>1, Invariance, PTL

\* No offline row is left without the message it stands for: the history is
\* written first, and the two renames of a recall meet none of a store.
THEOREM OfflineRowsHaveHistory == Spec => []OfflineHasHistory
<1>1. IInv => OfflineHasHistory
  BY DEF IInv
<1> QED BY <1>1, Invariance, PTL

\* A message whose recall found it stored is in no table afterwards, however the
\* statements of the other handlers fall between.
THEOREM RecalledMessagesStayAway == Spec => []RecalledStaysAway
<1>1. IInv => RecalledStaysAway
  BY DEF IInv
<1> QED BY <1>1, Invariance, PTL

\* The delete of a count takes no row the count did not put into its answer,
\* apart from what the exceptions of NothingSlips name.
THEOREM NothingSlipsAway == Spec => []NothingSlips
<1>1. IInv => NothingSlips
  BY DEF IInv
<1> QED BY <1>1, Invariance, PTL

\* Counts of one user that do not overlap, and do delete, never count a message
\* twice.
THEOREM CountedOnce == Spec => []ToldOnce
<1>1. IInv => ToldOnce
  BY DEF IInv
<1> QED BY <1>1, Invariance, PTL

=============================================================================
