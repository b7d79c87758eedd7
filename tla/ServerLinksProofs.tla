-------------------------- MODULE ServerLinksProofs --------------------------
(***************************************************************************)
(* Theorems about ServerLinks, for any number of workers, descriptors,     *)
(* servers, pieces, connections and failures.                              *)
(***************************************************************************)
EXTENDS ServerLinks, TLAPS, FiniteSetTheorems, WellFoundedInduction

(* The inductive invariant.                                                *)

WorkerPcs == {"idle", "check", "socket", "rearm", "send"} \cup Connecting
LoopPcs == {"idle", "socket", "rearm", "delete", "free", "freeone", "reread", "rsocket",
            "rconnect", "rrearm"}
             \cup Connecting

\* What each thread may be at, and what it has left to do there.
Busy ==
  /\ pc[Loop] \in LoopPcs /\ \A w \in Workers : pc[w] \in WorkerPcs
  /\ \A t \in Threads : pc[t] \in {"socket", "rearm", "send"} \cup Connecting => left[t] > 0
  /\ \A t \in Threads : pc[t] = "send" => left[t] <= Pieces
  /\ closing # NoFd => conns[closing] > 0
  /\ pc[Loop] = "freeone" => conns[closing] > 1
  /\ pc[Loop] \in {"delete", "free", "freeone", "reread"} => closing # NoFd
  /\ pc[Loop] \in {"idle", "socket", "rearm"} \cup Connecting => closing = NoFd

\* The net_conn objects: one for each descriptor the loop watches, one being
\* deleted, and the one that was registered while another had its number.
Owned ==
  \A f \in Fds :
    IF f \in watched
    THEN conns[f] = 1 /\ peer[f] \in {"router", "status", "client"}
    ELSE Conns(f) = IF shadowed /\ f = statusFd THEN 1 ELSE 0

\* The connection being closed is watched to the end, and is no longer the
\* router's once the new socket is there, nor the status server's; after the
\* close its number may be.
Closing ==
  /\ pc[Loop] \notin {"freeone", "reread"}
  /\ closing # NoFd =>
       /\ pc[Loop] # "rsocket" => closing # routerFd
       /\ IF pc[Loop] = "free" THEN closing \notin watched
          ELSE closing \in watched /\ (statusEnable => closing # statusFd)

\* A link the loop does not watch is the last: the flag stays up.
Shadow ==
  shadowed => /\ statusEnable /\ statusFd # NoFd /\ statusFd \notin watched
              /\ \A t \in Threads : pc[t] \notin Connecting

\* Only one thread is in do_status_connect, and knows what m_status_fd is.
Dialling ==
  /\ \A t, o \in Threads : pc[t] \in Connecting /\ pc[o] \in Connecting => t = o
  /\ \A t \in Threads : pc[t] = "connect" =>
       ~ statusEnable /\ (statusFd # NoFd => peer[statusFd] = "fresh" /\ statusFd # routerFd)
  /\ \A t \in Threads : pc[t] = "enable" =>
       ~ statusEnable /\ statusFd # NoFd /\ peer[statusFd] = "status" /\ statusFd \notin watched
  /\ \A t \in Threads : pc[t] = "register" =>
       statusEnable /\ statusFd # NoFd /\ peer[statusFd] = "status" /\ statusFd \notin watched

\* What the two links are.
Linked ==
  /\ routerFd # NoFd => peer[routerFd] \in {"fresh", "router"}
  /\ pc[Loop] = "rconnect" /\ routerFd # NoFd => peer[routerFd] = "fresh"
  /\ statusEnable =>
       /\ statusFd # NoFd /\ peer[statusFd] = "status"
       /\ statusFd \in watched \/ shadowed \/ \E t \in Threads : pc[t] = "register"
  /\ \A f \in Fds : peer[f] = "status" /\ f \notin gone =>
       f = statusFd /\ (statusEnable \/ \E t \in Threads : pc[t] = "enable")

\* The sockets nobody will close.
Leaked == {f \in Fds \ (FreeFds \cup watched) : ~ Held(f)}

AloneInv ==
  /\ Owned /\ Closing /\ Shadow /\ Dialling /\ Linked
  /\ ~ shadowed => Cardinality(Leaked) = failed

\* Where a notification has got to on the status link.
SendInv ==
  /\ \A f \in Fds : peer[f] = "status" /\ wire[f] = Torn => f \in crossed
  /\ statusFd # NoFd /\ statusFd \notin crossed =>
       /\ \A w, o \in Threads : pc[w] = "send" /\ pc[o] = "send" => w = o
       /\ \A t \in Threads : pc[t] = "connect" =>
            wire[statusFd] = 0 /\ \A w \in Threads : pc[w] = "send" => left[w] = Pieces
       /\ peer[statusFd] = "status" /\ statusFd \notin gone =>
            /\ \A w \in Threads : pc[w] = "send" => wire[statusFd] = Pieces - left[w]
            /\ (\A w \in Threads : pc[w] # "send") => wire[statusFd] = 0

IndInv ==
  /\ TypeOK /\ Busy
  /\ overlaps = 0 => AloneInv /\ SendInv

-----------------------------------------------------------------------------
(* Descriptors.                                                            *)

\* A socket gets a free number, when there is one.
LEMMA NewFdFree ==
  (FreeFds = {} /\ NewFd = NoFd) \/ (NewFd \in FreeFds /\ NewFd \in Fds /\ peer[NewFd] = "free")
<1>1. CASE FreeFds = {}
  BY <1>1 DEF NewFd
<1>2. CASE FreeFds # {}
  <2>1. FreeFds \subseteq Nat
    BY LinksAssumption DEF FreeFds, Fds
  <2>2. PICK f \in FreeFds : \A g \in FreeFds : ~ (<<g, f>> \in OpToRel(<, Nat))
    BY <1>2, <2>1, NatLessThanWellFounded, WFMin, Zenon
  <2>3. ASSUME NEW g \in FreeFds PROVE f <= g
    <3>1. f \in Nat /\ g \in Nat
      BY <2>1
    <3>2. ~ (g < f)
      BY <3>1, <2>2, Zenon DEF OpToRel
    <3> QED BY <3>1, <3>2
  <2>4. Lowest(FreeFds) \in FreeFds
    BY <2>3 DEF Lowest
  <2> QED BY <1>2, <2>4 DEF NewFd, FreeFds
<1> QED BY <1>1, <1>2

\* No descriptor has the number that stands for none.
LEMMA NoFdIsNone ==
  NoFd \notin Fds /\ Loop \notin Workers /\ Workers \subseteq Threads /\ Loop \in Threads
BY LinksAssumption DEF NoFd, Fds, Threads

-----------------------------------------------------------------------------
(* The steps.                                                              *)

\* Every step keeps the types.
LEMMA TypeStep ==
  ASSUME TypeOK, Busy, [Next]_vars
  PROVE  TypeOK'
<1> USE NoFdIsNone, LinksAssumption DEF TypeOK, Busy, WorkerPcs, LoopPcs, Connecting, Peers,
    Torn, Threads, osVars, linkVars, bounds
<1>1. ASSUME RouterSocket PROVE TypeOK'
  BY <1>1, NewFdFree DEF RouterSocket, Open, Goto
<1>2. ASSUME RouterConnected PROVE TypeOK'
  BY <1>2 DEF RouterConnected, AddConn, AfterRouter, Goto
<1>3. ASSUME RouterConnectFails PROVE TypeOK'
  BY <1>3 DEF RouterConnectFails, CountFailure, ConnectFails, AfterRouter, Goto
<1>4. ASSUME RouterReConnect PROVE TypeOK'
  BY <1>4 DEF RouterReConnect, AfterRouter, Goto
<1>5. ASSUME RouterTimer PROVE TypeOK'
  BY <1>5 DEF RouterTimer, Goto
<1>6. ASSUME NEW w \in Workers, NEW n \in 1 .. MaxServers, RouterPush(w, n) PROVE TypeOK'
  BY <1>6 DEF RouterPush, Goto
<1>7. ASSUME NEW w \in Workers, GetRouterTable(w) PROVE TypeOK'
  BY <1>7 DEF GetRouterTable, Goto
<1>8. ASSUME StatusTimer PROVE TypeOK'
  <2>1. CASE statusEnable
    BY <1>8, <2>1 DEF StatusTimer
  <2>2. CASE ~ statusEnable
    <3>1. left' = [left EXCEPT ![Loop] = 1] /\ pc' = [pc EXCEPT ![Loop] = "socket"] /\ statusTimer' = FALSE
          /\ UNCHANGED <<osVars, conns, routerFd, statusFd, statusEnable, routerTimer,
                        closing, bounds, failed, overlaps, shadowed, crossed>>
      BY <1>8, <2>2 DEF StatusTimer, Goto
    <3> QED BY <3>1
  <2> QED BY <2>1, <2>2
<1>9. ASSUME NEW x \in Threads, StatusSocket(x) PROVE TypeOK'
  BY <1>9, NewFdFree DEF StatusSocket, Open, Goto
<1>10. ASSUME NEW x \in Threads, StatusConnected(x) PROVE TypeOK'
  BY <1>10 DEF StatusConnected, Goto
<1>11. ASSUME NEW x \in Threads, StatusConnectFails(x) PROVE TypeOK'
  BY <1>11 DEF StatusConnectFails, CountFailure, ConnectFails, Goto
<1>12. ASSUME NEW x \in Threads, StatusEnable(x) PROVE TypeOK'
  BY <1>12 DEF StatusEnable, Goto
<1>13. ASSUME NEW x \in Threads, StatusRegister(x) PROVE TypeOK'
  BY <1>13 DEF StatusRegister, AddConn, NextServer, Goto
<1>14. ASSUME NEW x \in Threads, StatusReConnect(x) PROVE TypeOK'
  BY <1>14 DEF StatusReConnect, NextServer, Goto
<1>15. ASSUME Accept PROVE TypeOK'
  BY <1>15, NewFdFree DEF Accept, Open, AddConn
<1>16. ASSUME NEW f \in Fds, PeerCloses(f) PROVE TypeOK'
  BY <1>16 DEF PeerCloses
<1>17. ASSUME NEW f \in Fds, ReadClose(f) PROVE TypeOK'
  BY <1>17 DEF ReadClose, CloseBranch, Ended, Goto
<1>18. ASSUME CloseFd PROVE TypeOK'
  BY <1>18 DEF CloseFd, Goto
<1>24. ASSUME FreeConn PROVE TypeOK'
  BY <1>24 DEF FreeConn, Goto
<1>19. ASSUME ReadAgain PROVE TypeOK'
  <2>1. CASE Ended(closing) /\ CloseBranch(closing)
    <3>1. statusEnable' \in BOOLEAN
      BY <2>1 DEF TypeOK, CloseBranch
    <3> QED BY <1>19, <2>1, <3>1 DEF CloseBranch, Goto
  <2>2. CASE ~ (Ended(closing) /\ CloseBranch(closing))
    BY <1>19, <2>2 DEF ReadAgain, Goto
  <2> QED BY <2>1, <2>2
<1>20. ASSUME NEW w \in Workers, Notify(w) PROVE TypeOK'
  BY <1>20 DEF Notify, Goto
<1>21. ASSUME NEW w \in Workers, NEW n \in 1 .. Pieces, SendPieces(w, n) PROVE TypeOK'
  BY <1>21 DEF SendPieces, Deaf, Written, Goto
<1>22. ASSUME NEW w \in Workers, SendFails(w) PROVE TypeOK'
  BY <1>22 DEF SendFails, Deaf, Goto
<1>23. ASSUME UNCHANGED vars PROVE TypeOK'
  BY <1>23 DEF vars
<1> QED BY <1>1, <1>2, <1>3, <1>4, <1>5, <1>6, <1>7, <1>8, <1>9, <1>10, <1>11, <1>12, <1>13,
    <1>14, <1>15, <1>16, <1>17, <1>18, <1>19, <1>20, <1>21, <1>22, <1>23, <1>24
  DEF Next, LoopStep, DoRouterConnect, DoStatusConnect, WorkerStep, Threads

\* A thread does the rest of what it began.
LEMMA BusyStep ==
  ASSUME TypeOK, Busy, [Next]_vars
  PROVE  Busy'
<1> USE NoFdIsNone, LinksAssumption DEF TypeOK, Busy, WorkerPcs, LoopPcs, Connecting, Peers,
    Torn, Threads, osVars, linkVars, bounds
<1>1. ASSUME RouterSocket PROVE Busy'
  BY <1>1, NewFdFree DEF RouterSocket, Open, Goto
<1>2. ASSUME RouterConnected PROVE Busy'
  BY <1>2 DEF RouterConnected, AddConn, AfterRouter, Goto
<1>3. ASSUME RouterConnectFails PROVE Busy'
  BY <1>3 DEF RouterConnectFails, CountFailure, ConnectFails, AfterRouter, Goto
<1>4. ASSUME RouterReConnect PROVE Busy'
  BY <1>4 DEF RouterReConnect, AfterRouter, Goto
<1>5. ASSUME RouterTimer PROVE Busy'
  BY <1>5 DEF RouterTimer, Goto
<1>6. ASSUME NEW w \in Workers, NEW n \in 1 .. MaxServers, RouterPush(w, n) PROVE Busy'
  BY <1>6 DEF RouterPush, Goto
<1>7. ASSUME NEW w \in Workers, GetRouterTable(w) PROVE Busy'
  BY <1>7 DEF GetRouterTable, Goto
<1>8. ASSUME StatusTimer PROVE Busy'
  BY <1>8 DEF StatusTimer, Goto
<1>9. ASSUME NEW x \in Threads, StatusSocket(x) PROVE Busy'
  BY <1>9, NewFdFree DEF StatusSocket, Open, Goto
<1>10. ASSUME NEW x \in Threads, StatusConnected(x) PROVE Busy'
  BY <1>10 DEF StatusConnected, Goto
<1>11. ASSUME NEW x \in Threads, StatusConnectFails(x) PROVE Busy'
  BY <1>11 DEF StatusConnectFails, CountFailure, ConnectFails, Goto
<1>12. ASSUME NEW x \in Threads, StatusEnable(x) PROVE Busy'
  BY <1>12 DEF StatusEnable, Goto
<1>13. ASSUME NEW x \in Threads, StatusRegister(x) PROVE Busy'
  BY <1>13 DEF StatusRegister, AddConn, NextServer, Goto
<1>14. ASSUME NEW x \in Threads, StatusReConnect(x) PROVE Busy'
  BY <1>14 DEF StatusReConnect, NextServer, Goto
<1>15. ASSUME Accept PROVE Busy'
  BY <1>15, NewFdFree DEF Accept, Open, AddConn
<1>16. ASSUME NEW f \in Fds, PeerCloses(f) PROVE Busy'
  BY <1>16 DEF PeerCloses
<1>17. ASSUME NEW f \in Fds, ReadClose(f) PROVE Busy'
  <2>1. /\ pc' = [pc EXCEPT ![Loop] = IF f = routerFd THEN "rsocket" ELSE "delete"]
        /\ left' = left /\ conns' = conns /\ closing' = f /\ conns[f] > 0 /\ f # NoFd
    BY <1>17 DEF ReadClose, CloseBranch, Goto
  <2> QED BY <2>1
<1>18. ASSUME CloseFd PROVE Busy'
  BY <1>18 DEF CloseFd, Goto
<1>24. ASSUME FreeConn PROVE Busy'
  BY <1>24 DEF FreeConn, Goto
<1>19. ASSUME ReadAgain PROVE Busy'
  <2>1. CASE CloseBranch(closing)
    <3>1. /\ pc' = [pc EXCEPT ![Loop] = IF closing = routerFd THEN "rsocket" ELSE "delete"]
          /\ left' = left /\ conns' = conns /\ closing' = closing
          /\ conns[closing] > 0 /\ closing # NoFd
      BY <1>19, <2>1 DEF ReadAgain, CloseBranch, Goto
    <3> QED BY <3>1
  <2>2. CASE ~ CloseBranch(closing)
    <3>1. pc' = [pc EXCEPT ![Loop] = "idle"] /\ left' = left /\ conns' = conns /\ closing' = NoFd
      BY <1>19, <2>2 DEF ReadAgain, Goto
    <3> QED BY <3>1
  <2> QED BY <2>1, <2>2
<1>20. ASSUME NEW w \in Workers, Notify(w) PROVE Busy'
  BY <1>20 DEF Notify, Goto
<1>21. ASSUME NEW w \in Workers, NEW n \in 1 .. Pieces, SendPieces(w, n) PROVE Busy'
  BY <1>21 DEF SendPieces, Deaf, Written, Goto
<1>22. ASSUME NEW w \in Workers, SendFails(w) PROVE Busy'
  BY <1>22 DEF SendFails, Deaf, Goto
<1>23. ASSUME UNCHANGED vars PROVE Busy'
  BY <1>23 DEF vars
<1> QED BY <1>1, <1>2, <1>3, <1>4, <1>5, <1>6, <1>7, <1>8, <1>9, <1>10, <1>11, <1>12, <1>13,
    <1>14, <1>15, <1>16, <1>17, <1>18, <1>19, <1>20, <1>21, <1>22, <1>23, <1>24
  DEF Next, LoopStep, DoRouterConnect, DoStatusConnect, WorkerStep, Threads

\* Every descriptor keeps at most one net_conn.
LEMMA OwnedStep ==
  ASSUME TypeOK, Busy, AloneInv, overlaps' = 0, [Next]_vars
  PROVE  Owned'
<1> USE NoFdIsNone, LinksAssumption DEF TypeOK, Busy, WorkerPcs, LoopPcs, Connecting, Peers,
    Torn, Overlaps, AloneInv, Owned, Conns, Closing, Shadow, Dialling, Linked, osVars, linkVars, bounds
<1>1. ASSUME RouterSocket PROVE Owned'
  BY <1>1, NewFdFree DEF RouterSocket, Open, Goto
<1>2. ASSUME RouterConnected PROVE Owned'
  BY <1>2 DEF RouterConnected, AddConn, AfterRouter, Goto
<1>3. ASSUME RouterConnectFails PROVE Owned'
  BY <1>3 DEF RouterConnectFails, CountFailure, ConnectFails, AfterRouter, Goto
<1>4. ASSUME RouterReConnect PROVE Owned'
  BY <1>4 DEF RouterReConnect, AfterRouter, Goto
<1>5. ASSUME RouterTimer PROVE Owned'
  BY <1>5 DEF RouterTimer, Goto
<1>6. ASSUME NEW w \in Workers, NEW n \in 1 .. MaxServers, RouterPush(w, n) PROVE Owned'
  BY <1>6 DEF RouterPush, Goto
<1>7. ASSUME NEW w \in Workers, GetRouterTable(w) PROVE Owned'
  BY <1>7 DEF GetRouterTable, Goto
<1>8. ASSUME StatusTimer PROVE Owned'
  BY <1>8 DEF StatusTimer, Goto
<1>9. ASSUME NEW x \in Threads, StatusSocket(x) PROVE Owned'
  BY <1>9, NewFdFree DEF StatusSocket, Open, Goto
<1>10. ASSUME NEW x \in Threads, StatusConnected(x) PROVE Owned'
  BY <1>10 DEF StatusConnected, Goto
<1>11. ASSUME NEW x \in Threads, StatusConnectFails(x) PROVE Owned'
  BY <1>11 DEF StatusConnectFails, CountFailure, ConnectFails, Goto
<1>12. ASSUME NEW x \in Threads, StatusEnable(x) PROVE Owned'
  BY <1>12 DEF StatusEnable, Goto
<1>13. ASSUME NEW x \in Threads, StatusRegister(x) PROVE Owned'
  BY <1>13 DEF StatusRegister, AddConn, NextServer, Goto
<1>14. ASSUME NEW x \in Threads, StatusReConnect(x) PROVE Owned'
  BY <1>14 DEF StatusReConnect, NextServer, Goto
<1>15. ASSUME Accept PROVE Owned'
  BY <1>15, NewFdFree DEF Accept, Open, AddConn
<1>16. ASSUME NEW f \in Fds, PeerCloses(f) PROVE Owned'
  BY <1>16 DEF PeerCloses
<1>17. ASSUME NEW f \in Fds, ReadClose(f) PROVE Owned'
  BY <1>17 DEF ReadClose, CloseBranch, Ended, Goto
<1>18. ASSUME CloseFd PROVE Owned'
  BY <1>18 DEF CloseFd, Goto
<1>24. ASSUME FreeConn PROVE Owned'
  BY <1>24 DEF FreeConn, Goto
<1>19. ASSUME ReadAgain PROVE Owned'
  BY <1>19 DEF ReadAgain, CloseBranch, Ended, Goto
<1>20. ASSUME NEW w \in Workers, Notify(w) PROVE Owned'
  BY <1>20 DEF Notify, Goto
<1>21. ASSUME NEW w \in Workers, NEW n \in 1 .. Pieces, SendPieces(w, n) PROVE Owned'
  BY <1>21 DEF SendPieces, Deaf, Written, Goto
<1>22. ASSUME NEW w \in Workers, SendFails(w) PROVE Owned'
  BY <1>22 DEF SendFails, Deaf, Goto
<1>23. ASSUME UNCHANGED vars PROVE Owned'
  BY <1>23 DEF vars
<1> QED BY <1>1, <1>2, <1>3, <1>4, <1>5, <1>6, <1>7, <1>8, <1>9, <1>10, <1>11, <1>12, <1>13,
    <1>14, <1>15, <1>16, <1>17, <1>18, <1>19, <1>20, <1>21, <1>22, <1>23, <1>24
  DEF Next, LoopStep, DoRouterConnect, DoStatusConnect, WorkerStep, Threads

\* The loop closes what it began to close.
LEMMA ClosingStep ==
  ASSUME TypeOK, Busy, AloneInv, overlaps' = 0, [Next]_vars
  PROVE  Closing'
<1> USE NoFdIsNone, LinksAssumption DEF TypeOK, Busy, WorkerPcs, LoopPcs, Connecting, Peers,
    Torn, Overlaps, AloneInv, Owned, Conns, Closing, Shadow, Dialling, Linked, osVars, linkVars, bounds
<1>1. ASSUME RouterSocket PROVE Closing'
  BY <1>1, NewFdFree DEF RouterSocket, Open, Goto
<1>2. ASSUME RouterConnected PROVE Closing'
  BY <1>2 DEF RouterConnected, AddConn, AfterRouter, Goto
<1>3. ASSUME RouterConnectFails PROVE Closing'
  BY <1>3 DEF RouterConnectFails, CountFailure, ConnectFails, AfterRouter, Goto
<1>4. ASSUME RouterReConnect PROVE Closing'
  BY <1>4 DEF RouterReConnect, AfterRouter, Goto
<1>5. ASSUME RouterTimer PROVE Closing'
  BY <1>5 DEF RouterTimer, Goto
<1>6. ASSUME NEW w \in Workers, NEW n \in 1 .. MaxServers, RouterPush(w, n) PROVE Closing'
  BY <1>6 DEF RouterPush, Goto
<1>7. ASSUME NEW w \in Workers, GetRouterTable(w) PROVE Closing'
  BY <1>7 DEF GetRouterTable, Goto
<1>8. ASSUME StatusTimer PROVE Closing'
  BY <1>8 DEF StatusTimer, Goto
<1>9. ASSUME NEW x \in Threads, StatusSocket(x) PROVE Closing'
  BY <1>9, NewFdFree DEF StatusSocket, Open, Goto
<1>10. ASSUME NEW x \in Threads, StatusConnected(x) PROVE Closing'
  BY <1>10 DEF StatusConnected, Goto
<1>11. ASSUME NEW x \in Threads, StatusConnectFails(x) PROVE Closing'
  BY <1>11 DEF StatusConnectFails, CountFailure, ConnectFails, Goto
<1>12. ASSUME NEW x \in Threads, StatusEnable(x) PROVE Closing'
  BY <1>12 DEF StatusEnable, Goto
<1>13. ASSUME NEW x \in Threads, StatusRegister(x) PROVE Closing'
  BY <1>13 DEF StatusRegister, AddConn, NextServer, Goto
<1>14. ASSUME NEW x \in Threads, StatusReConnect(x) PROVE Closing'
  BY <1>14 DEF StatusReConnect, NextServer, Goto
<1>15. ASSUME Accept PROVE Closing'
  BY <1>15, NewFdFree DEF Accept, Open, AddConn
<1>16. ASSUME NEW f \in Fds, PeerCloses(f) PROVE Closing'
  BY <1>16 DEF PeerCloses
<1>17. ASSUME NEW f \in Fds, ReadClose(f) PROVE Closing'
  <2>1. CASE f = routerFd
    BY <1>17, <2>1 DEF ReadClose, CloseBranch, Ended, Goto
  <2>2. CASE f # routerFd /\ f = statusFd
    BY <1>17, <2>2 DEF ReadClose, CloseBranch, Ended, Goto
  <2>3. CASE f # routerFd /\ f # statusFd
    BY <1>17, <2>3 DEF ReadClose, CloseBranch, Ended, Goto
  <2> QED BY <2>1, <2>2, <2>3
<1>18. ASSUME CloseFd PROVE Closing'
  BY <1>18 DEF CloseFd, Goto
<1>24. ASSUME FreeConn PROVE Closing'
  BY <1>24 DEF FreeConn, Goto
<1>19. ASSUME ReadAgain PROVE Closing'
  BY <1>19 DEF ReadAgain, CloseBranch, Ended, Goto
<1>20. ASSUME NEW w \in Workers, Notify(w) PROVE Closing'
  BY <1>20 DEF Notify, Goto
<1>21. ASSUME NEW w \in Workers, NEW n \in 1 .. Pieces, SendPieces(w, n) PROVE Closing'
  BY <1>21 DEF SendPieces, Deaf, Written, Goto
<1>22. ASSUME NEW w \in Workers, SendFails(w) PROVE Closing'
  BY <1>22 DEF SendFails, Deaf, Goto
<1>23. ASSUME UNCHANGED vars PROVE Closing'
  BY <1>23 DEF vars
<1> QED BY <1>1, <1>2, <1>3, <1>4, <1>5, <1>6, <1>7, <1>8, <1>9, <1>10, <1>11, <1>12, <1>13,
    <1>14, <1>15, <1>16, <1>17, <1>18, <1>19, <1>20, <1>21, <1>22, <1>23, <1>24
  DEF Next, LoopStep, DoRouterConnect, DoStatusConnect, WorkerStep, Threads

\* A status connect comes to its end undisturbed.
LEMMA DiallingStep ==
  ASSUME TypeOK, Busy, AloneInv, overlaps' = 0, [Next]_vars
  PROVE  Dialling'
<1> USE NoFdIsNone, LinksAssumption DEF TypeOK, Busy, WorkerPcs, LoopPcs, Connecting, Peers,
    Torn, Overlaps, AloneInv, Owned, Conns, Closing, Shadow, Dialling, Linked, osVars, linkVars, bounds
<1>1. ASSUME RouterSocket PROVE Dialling'
  BY <1>1, NewFdFree DEF RouterSocket, Open, Goto
<1>2. ASSUME RouterConnected PROVE Dialling'
  BY <1>2 DEF RouterConnected, AddConn, AfterRouter, Goto
<1>3. ASSUME RouterConnectFails PROVE Dialling'
  BY <1>3 DEF RouterConnectFails, CountFailure, ConnectFails, AfterRouter, Goto
<1>4. ASSUME RouterReConnect PROVE Dialling'
  BY <1>4 DEF RouterReConnect, AfterRouter, Goto
<1>5. ASSUME RouterTimer PROVE Dialling'
  BY <1>5 DEF RouterTimer, Goto
<1>6. ASSUME NEW w \in Workers, NEW n \in 1 .. MaxServers, RouterPush(w, n) PROVE Dialling'
  BY <1>6 DEF RouterPush, Goto
<1>7. ASSUME NEW w \in Workers, GetRouterTable(w) PROVE Dialling'
  BY <1>7 DEF GetRouterTable, Goto
<1>8. ASSUME StatusTimer PROVE Dialling'
  BY <1>8 DEF StatusTimer, Goto
<1>9. ASSUME NEW x \in Threads, StatusSocket(x) PROVE Dialling'
  <2>1. /\ pc' = [pc EXCEPT ![x] = "connect"] /\ pc[x] = "socket" /\ x \in Threads
        /\ ~ statusEnable /\ \A o \in Threads \ {x} : pc[o] \notin Connecting
        /\ statusEnable' = statusEnable /\ routerFd' = routerFd /\ statusFd' = NewFd
        /\ peer' = [g \in Fds |-> IF g = NewFd THEN "fresh" ELSE peer[g]]
    BY <1>9 DEF StatusSocket, Open, Goto
  <2>2. \A o \in Threads : pc'[o] \in Connecting => o = x
    BY <2>1 DEF TypeOK
  <2>3. pc'[x] = "connect"
    BY <2>1 DEF TypeOK
  <2>4. statusFd' # NoFd => peer'[statusFd'] = "fresh" /\ statusFd' # routerFd'
    BY <2>1, NewFdFree DEF AloneInv, Linked
  <2> QED BY <2>1, <2>2, <2>3, <2>4 DEF Dialling, Connecting
<1>10. ASSUME NEW x \in Threads, StatusConnected(x) PROVE Dialling'
  BY <1>10 DEF StatusConnected, Goto
<1>11. ASSUME NEW x \in Threads, StatusConnectFails(x) PROVE Dialling'
  BY <1>11 DEF StatusConnectFails, CountFailure, ConnectFails, Goto
<1>12. ASSUME NEW x \in Threads, StatusEnable(x) PROVE Dialling'
  BY <1>12 DEF StatusEnable, Goto
<1>13. ASSUME NEW x \in Threads, StatusRegister(x) PROVE Dialling'
  BY <1>13 DEF StatusRegister, AddConn, NextServer, Goto
<1>14. ASSUME NEW x \in Threads, StatusReConnect(x) PROVE Dialling'
  BY <1>14 DEF StatusReConnect, NextServer, Goto
<1>15. ASSUME Accept PROVE Dialling'
  BY <1>15, NewFdFree DEF Accept, Open, AddConn
<1>16. ASSUME NEW f \in Fds, PeerCloses(f) PROVE Dialling'
  BY <1>16 DEF PeerCloses
<1>17. ASSUME NEW f \in Fds, ReadClose(f) PROVE Dialling'
  <2>1. CASE f = routerFd
    BY <1>17, <2>1 DEF ReadClose, CloseBranch, Ended, Goto
  <2>2. CASE f # routerFd /\ f = statusFd
    BY <1>17, <2>2 DEF ReadClose, CloseBranch, Ended, Goto
  <2>3. CASE f # routerFd /\ f # statusFd
    BY <1>17, <2>3 DEF ReadClose, CloseBranch, Ended, Goto
  <2> QED BY <2>1, <2>2, <2>3
<1>18. ASSUME CloseFd PROVE Dialling'
  BY <1>18 DEF CloseFd, Goto
<1>24. ASSUME FreeConn PROVE Dialling'
  BY <1>24 DEF FreeConn, Goto
<1>19. ASSUME ReadAgain PROVE Dialling'
  BY <1>19 DEF ReadAgain, CloseBranch, Ended, Goto
<1>20. ASSUME NEW w \in Workers, Notify(w) PROVE Dialling'
  BY <1>20 DEF Notify, Goto
<1>21. ASSUME NEW w \in Workers, NEW n \in 1 .. Pieces, SendPieces(w, n) PROVE Dialling'
  BY <1>21 DEF SendPieces, Deaf, Written, Goto
<1>22. ASSUME NEW w \in Workers, SendFails(w) PROVE Dialling'
  BY <1>22 DEF SendFails, Deaf, Goto
<1>23. ASSUME UNCHANGED vars PROVE Dialling'
  BY <1>23 DEF vars
<1> QED BY <1>1, <1>2, <1>3, <1>4, <1>5, <1>6, <1>7, <1>8, <1>9, <1>10, <1>11, <1>12, <1>13,
    <1>14, <1>15, <1>16, <1>17, <1>18, <1>19, <1>20, <1>21, <1>22, <1>23, <1>24
  DEF Next, LoopStep, DoRouterConnect, DoStatusConnect, WorkerStep, Threads

\* The two links stay what they are.
LEMMA LinkedStep ==
  ASSUME TypeOK, Busy, AloneInv, overlaps' = 0, [Next]_vars
  PROVE  Linked'
<1> USE NoFdIsNone, LinksAssumption DEF TypeOK, Busy, WorkerPcs, LoopPcs, Connecting, Peers,
    Torn, Overlaps, AloneInv, Owned, Conns, Closing, Shadow, Dialling, Linked, osVars, linkVars, bounds
<1>1. ASSUME RouterSocket PROVE Linked'
  BY <1>1, NewFdFree DEF RouterSocket, Open, Goto
<1>2. ASSUME RouterConnected PROVE Linked'
  BY <1>2 DEF RouterConnected, AddConn, AfterRouter, Goto
<1>3. ASSUME RouterConnectFails PROVE Linked'
  BY <1>3 DEF RouterConnectFails, CountFailure, ConnectFails, AfterRouter, Goto
<1>4. ASSUME RouterReConnect PROVE Linked'
  BY <1>4 DEF RouterReConnect, AfterRouter, Goto
<1>5. ASSUME RouterTimer PROVE Linked'
  BY <1>5 DEF RouterTimer, Goto
<1>6. ASSUME NEW w \in Workers, NEW n \in 1 .. MaxServers, RouterPush(w, n) PROVE Linked'
  BY <1>6 DEF RouterPush, Goto
<1>7. ASSUME NEW w \in Workers, GetRouterTable(w) PROVE Linked'
  BY <1>7 DEF GetRouterTable, Goto
<1>8. ASSUME StatusTimer PROVE Linked'
  BY <1>8 DEF StatusTimer, Goto
<1>9. ASSUME NEW x \in Threads, StatusSocket(x) PROVE Linked'
  BY <1>9, NewFdFree DEF StatusSocket, Open, Goto
<1>10. ASSUME NEW x \in Threads, StatusConnected(x) PROVE Linked'
  BY <1>10 DEF StatusConnected, Goto
<1>11. ASSUME NEW x \in Threads, StatusConnectFails(x) PROVE Linked'
  BY <1>11 DEF StatusConnectFails, CountFailure, ConnectFails, Goto
<1>12. ASSUME NEW x \in Threads, StatusEnable(x) PROVE Linked'
  BY <1>12 DEF StatusEnable, Goto
<1>13. ASSUME NEW x \in Threads, StatusRegister(x) PROVE Linked'
  BY <1>13 DEF StatusRegister, AddConn, NextServer, Goto
<1>14. ASSUME NEW x \in Threads, StatusReConnect(x) PROVE Linked'
  BY <1>14 DEF StatusReConnect, NextServer, Goto
<1>15. ASSUME Accept PROVE Linked'
  BY <1>15, NewFdFree DEF Accept, Open, AddConn
<1>16. ASSUME NEW f \in Fds, PeerCloses(f) PROVE Linked'
  BY <1>16 DEF PeerCloses
<1>17. ASSUME NEW f \in Fds, ReadClose(f) PROVE Linked'
  <2>1. CASE f = routerFd
    BY <1>17, <2>1 DEF ReadClose, CloseBranch, Ended, Goto
  <2>2. CASE f # routerFd /\ f = statusFd
    BY <1>17, <2>2 DEF ReadClose, CloseBranch, Ended, Goto
  <2>3. CASE f # routerFd /\ f # statusFd
    BY <1>17, <2>3 DEF ReadClose, CloseBranch, Ended, Goto
  <2> QED BY <2>1, <2>2, <2>3
<1>18. ASSUME CloseFd PROVE Linked'
  BY <1>18 DEF CloseFd, Goto
<1>24. ASSUME FreeConn PROVE Linked'
  BY <1>24 DEF FreeConn, Goto
<1>19. ASSUME ReadAgain PROVE Linked'
  BY <1>19 DEF ReadAgain, CloseBranch, Ended, Goto
<1>20. ASSUME NEW w \in Workers, Notify(w) PROVE Linked'
  BY <1>20 DEF Notify, Goto
<1>21. ASSUME NEW w \in Workers, NEW n \in 1 .. Pieces, SendPieces(w, n) PROVE Linked'
  BY <1>21 DEF SendPieces, Deaf, Written, Goto
<1>22. ASSUME NEW w \in Workers, SendFails(w) PROVE Linked'
  BY <1>22 DEF SendFails, Deaf, Goto
<1>23. ASSUME UNCHANGED vars PROVE Linked'
  BY <1>23 DEF vars
<1> QED BY <1>1, <1>2, <1>3, <1>4, <1>5, <1>6, <1>7, <1>8, <1>9, <1>10, <1>11, <1>12, <1>13,
    <1>14, <1>15, <1>16, <1>17, <1>18, <1>19, <1>20, <1>21, <1>22, <1>23, <1>24
  DEF Next, LoopStep, DoRouterConnect, DoStatusConnect, WorkerStep, Threads

\* A link registered under the number of another stays up.
LEMMA ShadowStep ==
  ASSUME TypeOK, Busy, AloneInv, overlaps' = 0, [Next]_vars
  PROVE  Shadow'
<1> USE NoFdIsNone, LinksAssumption DEF TypeOK, Busy, WorkerPcs, LoopPcs, Connecting, Peers,
    Torn, Overlaps, AloneInv, Owned, Conns, Closing, Shadow, Dialling, Linked, osVars, linkVars, bounds
<1>1. ASSUME RouterSocket PROVE Shadow'
  BY <1>1, NewFdFree DEF RouterSocket, Open, Goto
<1>2. ASSUME RouterConnected PROVE Shadow'
  BY <1>2 DEF RouterConnected, AddConn, AfterRouter, Goto
<1>3. ASSUME RouterConnectFails PROVE Shadow'
  BY <1>3 DEF RouterConnectFails, CountFailure, ConnectFails, AfterRouter, Goto
<1>4. ASSUME RouterReConnect PROVE Shadow'
  BY <1>4 DEF RouterReConnect, AfterRouter, Goto
<1>5. ASSUME RouterTimer PROVE Shadow'
  BY <1>5 DEF RouterTimer, Goto
<1>6. ASSUME NEW w \in Workers, NEW n \in 1 .. MaxServers, RouterPush(w, n) PROVE Shadow'
  BY <1>6 DEF RouterPush, Goto
<1>7. ASSUME NEW w \in Workers, GetRouterTable(w) PROVE Shadow'
  BY <1>7 DEF GetRouterTable, Goto
<1>8. ASSUME StatusTimer PROVE Shadow'
  BY <1>8 DEF StatusTimer, Goto
<1>9. ASSUME NEW x \in Threads, StatusSocket(x) PROVE Shadow'
  BY <1>9, NewFdFree DEF StatusSocket, Open, Goto
<1>10. ASSUME NEW x \in Threads, StatusConnected(x) PROVE Shadow'
  BY <1>10 DEF StatusConnected, Goto
<1>11. ASSUME NEW x \in Threads, StatusConnectFails(x) PROVE Shadow'
  BY <1>11 DEF StatusConnectFails, CountFailure, ConnectFails, Goto
<1>12. ASSUME NEW x \in Threads, StatusEnable(x) PROVE Shadow'
  BY <1>12 DEF StatusEnable, Goto
<1>13. ASSUME NEW x \in Threads, StatusRegister(x) PROVE Shadow'
  BY <1>13 DEF StatusRegister, AddConn, NextServer, Goto
<1>14. ASSUME NEW x \in Threads, StatusReConnect(x) PROVE Shadow'
  BY <1>14 DEF StatusReConnect, NextServer, Goto
<1>15. ASSUME Accept PROVE Shadow'
  BY <1>15, NewFdFree DEF Accept, Open, AddConn
<1>16. ASSUME NEW f \in Fds, PeerCloses(f) PROVE Shadow'
  BY <1>16 DEF PeerCloses
<1>17. ASSUME NEW f \in Fds, ReadClose(f) PROVE Shadow'
  BY <1>17 DEF ReadClose, CloseBranch, Ended, Goto
<1>18. ASSUME CloseFd PROVE Shadow'
  BY <1>18 DEF CloseFd, Goto
<1>24. ASSUME FreeConn PROVE Shadow'
  BY <1>24 DEF FreeConn, Goto
<1>19. ASSUME ReadAgain PROVE Shadow'
  BY <1>19 DEF ReadAgain, CloseBranch, Ended, Goto
<1>20. ASSUME NEW w \in Workers, Notify(w) PROVE Shadow'
  BY <1>20 DEF Notify, Goto
<1>21. ASSUME NEW w \in Workers, NEW n \in 1 .. Pieces, SendPieces(w, n) PROVE Shadow'
  BY <1>21 DEF SendPieces, Deaf, Written, Goto
<1>22. ASSUME NEW w \in Workers, SendFails(w) PROVE Shadow'
  BY <1>22 DEF SendFails, Deaf, Goto
<1>23. ASSUME UNCHANGED vars PROVE Shadow'
  BY <1>23 DEF vars
<1> QED BY <1>1, <1>2, <1>3, <1>4, <1>5, <1>6, <1>7, <1>8, <1>9, <1>10, <1>11, <1>12, <1>13,
    <1>14, <1>15, <1>16, <1>17, <1>18, <1>19, <1>20, <1>21, <1>22, <1>23, <1>24
  DEF Next, LoopStep, DoRouterConnect, DoStatusConnect, WorkerStep, Threads

\* That connects have overlapped is remembered.
LEMMA Remembered ==
  ASSUME TypeOK, [Next]_vars
  PROVE  (overlaps' = 0 => overlaps = 0) /\ (shadowed => shadowed')
<1> USE DEF osVars, linkVars, bounds
<1>1. ASSUME RouterSocket
      PROVE  (overlaps' = 0 => overlaps = 0) /\ (shadowed => shadowed')
  BY <1>1 DEF RouterSocket, Open, Goto
<1>2. ASSUME RouterConnected
      PROVE  (overlaps' = 0 => overlaps = 0) /\ (shadowed => shadowed')
  BY <1>2 DEF RouterConnected, AddConn, AfterRouter, Goto
<1>3. ASSUME RouterConnectFails
      PROVE  (overlaps' = 0 => overlaps = 0) /\ (shadowed => shadowed')
  BY <1>3 DEF RouterConnectFails, CountFailure, ConnectFails, AfterRouter, Goto
<1>4. ASSUME RouterReConnect
      PROVE  (overlaps' = 0 => overlaps = 0) /\ (shadowed => shadowed')
  BY <1>4 DEF RouterReConnect, AfterRouter, Goto
<1>5. ASSUME RouterTimer
      PROVE  (overlaps' = 0 => overlaps = 0) /\ (shadowed => shadowed')
  BY <1>5 DEF RouterTimer, Goto
<1>6. ASSUME NEW w \in Workers, NEW n \in 1 .. MaxServers, RouterPush(w, n)
      PROVE  (overlaps' = 0 => overlaps = 0) /\ (shadowed => shadowed')
  BY <1>6 DEF RouterPush, Goto
<1>7. ASSUME NEW w \in Workers, GetRouterTable(w)
      PROVE  (overlaps' = 0 => overlaps = 0) /\ (shadowed => shadowed')
  BY <1>7 DEF GetRouterTable, Goto
<1>8. ASSUME StatusTimer
      PROVE  (overlaps' = 0 => overlaps = 0) /\ (shadowed => shadowed')
  BY <1>8 DEF StatusTimer, Goto
<1>9. ASSUME NEW x \in Threads, StatusSocket(x)
      PROVE  (overlaps' = 0 => overlaps = 0) /\ (shadowed => shadowed')
  BY <1>9 DEF StatusSocket, Open, Goto, TypeOK
<1>10. ASSUME NEW x \in Threads, StatusConnected(x)
      PROVE  (overlaps' = 0 => overlaps = 0) /\ (shadowed => shadowed')
  BY <1>10 DEF StatusConnected, Goto
<1>11. ASSUME NEW x \in Threads, StatusConnectFails(x)
      PROVE  (overlaps' = 0 => overlaps = 0) /\ (shadowed => shadowed')
  BY <1>11 DEF StatusConnectFails, CountFailure, ConnectFails, Goto
<1>12. ASSUME NEW x \in Threads, StatusEnable(x)
      PROVE  (overlaps' = 0 => overlaps = 0) /\ (shadowed => shadowed')
  BY <1>12 DEF StatusEnable, Goto
<1>13. ASSUME NEW x \in Threads, StatusRegister(x)
      PROVE  (overlaps' = 0 => overlaps = 0) /\ (shadowed => shadowed')
  BY <1>13 DEF StatusRegister, AddConn, NextServer, Goto
<1>14. ASSUME NEW x \in Threads, StatusReConnect(x)
      PROVE  (overlaps' = 0 => overlaps = 0) /\ (shadowed => shadowed')
  BY <1>14 DEF StatusReConnect, NextServer, Goto
<1>15. ASSUME Accept
      PROVE  (overlaps' = 0 => overlaps = 0) /\ (shadowed => shadowed')
  BY <1>15 DEF Accept, Open, AddConn
<1>16. ASSUME NEW f \in Fds, PeerCloses(f)
      PROVE  (overlaps' = 0 => overlaps = 0) /\ (shadowed => shadowed')
  BY <1>16 DEF PeerCloses
<1>17. ASSUME NEW f \in Fds, ReadClose(f)
      PROVE  (overlaps' = 0 => overlaps = 0) /\ (shadowed => shadowed')
  BY <1>17 DEF ReadClose, CloseBranch, Ended, Goto
<1>18. ASSUME CloseFd
      PROVE  (overlaps' = 0 => overlaps = 0) /\ (shadowed => shadowed')
  BY <1>18 DEF CloseFd, Goto
<1>24. ASSUME FreeConn
      PROVE  (overlaps' = 0 => overlaps = 0) /\ (shadowed => shadowed')
  BY <1>24 DEF FreeConn, Goto
<1>19. ASSUME ReadAgain
      PROVE  (overlaps' = 0 => overlaps = 0) /\ (shadowed => shadowed')
  <2>1. CASE CloseBranch(closing)
    BY <2>1 DEF CloseBranch
  <2>2. CASE UNCHANGED <<overlaps, shadowed>>
    BY <2>2
  <2> QED BY <1>19, <2>1, <2>2 DEF ReadAgain
<1>20. ASSUME NEW w \in Workers, Notify(w)
      PROVE  (overlaps' = 0 => overlaps = 0) /\ (shadowed => shadowed')
  BY <1>20 DEF Notify, Goto
<1>21. ASSUME NEW w \in Workers, NEW n \in 1 .. Pieces, SendPieces(w, n)
      PROVE  (overlaps' = 0 => overlaps = 0) /\ (shadowed => shadowed')
  BY <1>21 DEF SendPieces, Deaf, Written, Goto
<1>22. ASSUME NEW w \in Workers, SendFails(w)
      PROVE  (overlaps' = 0 => overlaps = 0) /\ (shadowed => shadowed')
  BY <1>22 DEF SendFails, Deaf, Goto
<1>23. ASSUME UNCHANGED vars
      PROVE  (overlaps' = 0 => overlaps = 0) /\ (shadowed => shadowed')
  BY <1>23 DEF vars
<1> QED BY <1>1, <1>2, <1>3, <1>4, <1>5, <1>6, <1>7, <1>8, <1>9, <1>10, <1>11, <1>12, <1>13,
    <1>14, <1>15, <1>16, <1>17, <1>18, <1>19, <1>20, <1>21, <1>22, <1>23, <1>24
  DEF Next, LoopStep, DoRouterConnect, DoStatusConnect, WorkerStep, Threads

\* Counting the leaked sockets.
LEMMA LeakedFinite ==
  IsFiniteSet(Leaked) /\ IsFiniteSet(Leaked') /\ Leaked \subseteq Fds /\ Leaked' \subseteq Fds
<1>1. IsFiniteSet(Fds)
  BY FS_Interval, LinksAssumption DEF Fds
<1>2. Leaked \subseteq Fds /\ Leaked' \subseteq Fds
  BY DEF Leaked
<1> QED BY <1>1, <1>2, FS_Subset

LEMMA LeakedSame ==
  ASSUME Cardinality(Leaked) = failed, failed' = failed,
         \A g \in Fds : g \in Leaked' <=> g \in Leaked
  PROVE  Cardinality(Leaked)' = failed'
<1>1. Leaked' = Leaked
  BY LeakedFinite
<1> QED BY <1>1

LEMMA LeakedMore ==
  ASSUME Cardinality(Leaked) = failed, failed' = failed + 1,
         NEW f \in Fds, f \notin Leaked, \A g \in Fds : g \in Leaked' <=> g \in Leaked \/ g = f
  PROVE  Cardinality(Leaked)' = failed'
<1>1. Leaked' = Leaked \cup {f}
  BY LeakedFinite
<1>2. Cardinality(Leaked \cup {f}) = Cardinality(Leaked) + 1
  BY LeakedFinite, FS_AddElement
<1> QED BY <1>1, <1>2

\* A failed connect leaks one socket, nothing else does.
LEMMA LeakedStep ==
  ASSUME TypeOK, Busy, AloneInv, overlaps' = 0, ~ shadowed', [Next]_vars
  PROVE  (Cardinality(Leaked) = failed)'
<1>0. ~ shadowed /\ Cardinality(Leaked) = failed
  BY Remembered DEF AloneInv
<1> USE NoFdIsNone, LinksAssumption DEF TypeOK, Busy, WorkerPcs, LoopPcs, Connecting, Peers,
    Torn, Overlaps, AloneInv, Owned, Conns, Closing, Shadow, Dialling, Linked, Held, FreeFds, Threads, osVars, linkVars,
    bounds
<1>1. ASSUME RouterSocket PROVE (Cardinality(Leaked) = failed)'
  <2>1. failed' = failed /\ \A g \in Fds : g \in Leaked' <=> g \in Leaked
    BY <1>0, <1>1, NewFdFree DEF Leaked, RouterSocket, Open, Goto
  <2> QED BY <2>1, LeakedSame, <1>0
<1>2. ASSUME RouterConnected PROVE (Cardinality(Leaked) = failed)'
  <2>1. failed' = failed /\ \A g \in Fds : g \in Leaked' <=> g \in Leaked
    BY <1>0, <1>2 DEF Leaked, RouterConnected, AddConn, AfterRouter, Goto
  <2> QED BY <2>1, LeakedSame, <1>0
<1>3. ASSUME RouterConnectFails PROVE (Cardinality(Leaked) = failed)'
  <2>1. CASE routerFd = NoFd \/ peer[routerFd] # "fresh"
    <3>1. failed' = failed /\ \A g \in Fds : g \in Leaked' <=> g \in Leaked
      BY <1>0, <1>3, <2>1 DEF Leaked, RouterConnectFails, CountFailure, ConnectFails, AfterRouter,
          Goto
    <3> QED BY <3>1, LeakedSame, <1>0
  <2>2. CASE routerFd # NoFd /\ peer[routerFd] = "fresh"
    <3>1. failed' = failed + 1 /\ routerFd \in Fds /\ routerFd \notin Leaked
          /\ \A g \in Fds : g \in Leaked' <=> g \in Leaked \/ g = routerFd
      BY <1>0, <1>3, <2>2 DEF Leaked, RouterConnectFails, CountFailure, ConnectFails, AfterRouter,
          Goto
    <3> QED BY <3>1, LeakedMore, <1>0
  <2> QED BY <2>1, <2>2
<1>4. ASSUME RouterReConnect PROVE (Cardinality(Leaked) = failed)'
  <2>1. failed' = failed /\ \A g \in Fds : g \in Leaked' <=> g \in Leaked
    BY <1>0, <1>4 DEF Leaked, RouterReConnect, AfterRouter, Goto
  <2> QED BY <2>1, LeakedSame, <1>0
<1>5. ASSUME RouterTimer PROVE (Cardinality(Leaked) = failed)'
  <2>1. failed' = failed /\ \A g \in Fds : g \in Leaked' <=> g \in Leaked
    BY <1>0, <1>5 DEF Leaked, RouterTimer, Goto
  <2> QED BY <2>1, LeakedSame, <1>0
<1>6. ASSUME NEW w \in Workers, NEW n \in 1 .. MaxServers, RouterPush(w,
    n) PROVE (Cardinality(Leaked) = failed)'
  <2>1. failed' = failed /\ \A g \in Fds : g \in Leaked' <=> g \in Leaked
    BY <1>0, <1>6 DEF Leaked, RouterPush, Goto
  <2> QED BY <2>1, LeakedSame, <1>0
<1>7. ASSUME NEW w \in Workers, GetRouterTable(w) PROVE (Cardinality(Leaked) = failed)'
  <2>1. failed' = failed /\ \A g \in Fds : g \in Leaked' <=> g \in Leaked
    BY <1>0, <1>7 DEF Leaked, GetRouterTable, Goto
  <2> QED BY <2>1, LeakedSame, <1>0
<1>8. ASSUME StatusTimer PROVE (Cardinality(Leaked) = failed)'
  <2>1. failed' = failed /\ \A g \in Fds : g \in Leaked' <=> g \in Leaked
    BY <1>0, <1>8 DEF Leaked, StatusTimer, Goto
  <2> QED BY <2>1, LeakedSame, <1>0
<1>9. ASSUME NEW x \in Threads, StatusSocket(x) PROVE (Cardinality(Leaked) = failed)'
  <2>1. /\ pc' = [pc EXCEPT ![x] = "connect"] /\ pc[x] = "socket"
        /\ \A o \in Threads : pc[o] \notin Connecting
        /\ failed' = failed /\ watched' = watched /\ routerFd' = routerFd /\ statusFd' = NewFd
        /\ peer' = [g \in Fds |-> IF g = NewFd THEN "fresh" ELSE peer[g]]
    <3>1. pc[x] \notin Connecting
      BY <1>0, <1>9 DEF StatusSocket, Connecting
    <3> QED BY <1>0, <1>9, <3>1 DEF StatusSocket, Open, Goto
  <2>2. (pc'[Loop] = "rconnect" <=> pc[Loop] = "rconnect") /\ \E t \in Threads : pc'[t] \in Connecting
    BY <2>1, NoFdIsNone DEF TypeOK, Connecting
  <2>3. ASSUME NEW g \in Fds PROVE g \in Leaked' <=> g \in Leaked
    <3>1. CASE g = NewFd
      BY <2>1, <2>2, <3>1, NewFdFree, NoFdIsNone DEF Leaked, FreeFds, Held
    <3>2. CASE g # NewFd
      <4>1. Held(g)' <=> Held(g)
        BY <2>1, <2>2, <3>2 DEF Held
      <4>2. peer'[g] = peer[g]
        BY <2>1, <3>2
      <4> QED BY <2>1, <4>1, <4>2 DEF Leaked, FreeFds
    <3> QED BY <3>1, <3>2
  <2> QED BY <2>1, <2>3, LeakedSame, <1>0
<1>10. ASSUME NEW x \in Threads, StatusConnected(x) PROVE (Cardinality(Leaked) = failed)'
  <2>1. failed' = failed /\ \A g \in Fds : g \in Leaked' <=> g \in Leaked
    BY <1>0, <1>10 DEF Leaked, StatusConnected, Goto
  <2> QED BY <2>1, LeakedSame, <1>0
<1>11. ASSUME NEW x \in Threads, StatusConnectFails(x) PROVE (Cardinality(Leaked) = failed)'
  <2>1. CASE statusFd = NoFd \/ peer[statusFd] # "fresh"
    <3>1. failed' = failed /\ \A g \in Fds : g \in Leaked' <=> g \in Leaked
      BY <1>0, <1>11, <2>1 DEF Leaked, StatusConnectFails, CountFailure, ConnectFails, Goto
    <3> QED BY <3>1, LeakedSame, <1>0
  <2>2. CASE statusFd # NoFd /\ peer[statusFd] = "fresh"
    <3>1. failed' = failed + 1 /\ statusFd \in Fds /\ statusFd \notin Leaked
          /\ \A g \in Fds : g \in Leaked' <=> g \in Leaked \/ g = statusFd
      BY <1>0, <1>11, <2>2 DEF Leaked, StatusConnectFails, CountFailure, ConnectFails, Goto
    <3> QED BY <3>1, LeakedMore, <1>0
  <2> QED BY <2>1, <2>2
<1>12. ASSUME NEW x \in Threads, StatusEnable(x) PROVE (Cardinality(Leaked) = failed)'
  <2>1. failed' = failed /\ \A g \in Fds : g \in Leaked' <=> g \in Leaked
    BY <1>0, <1>12 DEF Leaked, StatusEnable, Goto
  <2> QED BY <2>1, LeakedSame, <1>0
<1>13. ASSUME NEW x \in Threads, StatusRegister(x) PROVE (Cardinality(Leaked) = failed)'
  <2>1. failed' = failed /\ \A g \in Fds : g \in Leaked' <=> g \in Leaked
    BY <1>0, <1>13 DEF Leaked, StatusRegister, AddConn, NextServer, Goto
  <2> QED BY <2>1, LeakedSame, <1>0
<1>14. ASSUME NEW x \in Threads, StatusReConnect(x) PROVE (Cardinality(Leaked) = failed)'
  <2>1. failed' = failed /\ \A g \in Fds : g \in Leaked' <=> g \in Leaked
    BY <1>0, <1>14 DEF Leaked, StatusReConnect, NextServer, Goto
  <2> QED BY <2>1, LeakedSame, <1>0
<1>15. ASSUME Accept PROVE (Cardinality(Leaked) = failed)'
  <2>1. failed' = failed /\ \A g \in Fds : g \in Leaked' <=> g \in Leaked
    BY <1>0, <1>15, NewFdFree DEF Leaked, Accept, Open, AddConn
  <2> QED BY <2>1, LeakedSame, <1>0
<1>16. ASSUME NEW f \in Fds, PeerCloses(f) PROVE (Cardinality(Leaked) = failed)'
  <2>1. failed' = failed /\ \A g \in Fds : g \in Leaked' <=> g \in Leaked
    BY <1>0, <1>16 DEF Leaked, PeerCloses
  <2> QED BY <2>1, LeakedSame, <1>0
<1>17. ASSUME NEW f \in Fds, ReadClose(f) PROVE (Cardinality(Leaked) = failed)'
  <2>1. UNCHANGED <<peer, watched, routerFd, statusFd, failed>> /\ pc[Loop] = "idle"
        /\ pc' = [pc EXCEPT ![Loop] = IF f = routerFd THEN "rsocket" ELSE "delete"]
    BY <1>0, <1>17 DEF ReadClose, CloseBranch, Goto, osVars
  <2>2. /\ pc'[Loop] # "rconnect" /\ pc[Loop] # "rconnect"
        /\ \A t \in Threads : pc'[t] \in Connecting <=> pc[t] \in Connecting
    BY <2>1, NoFdIsNone DEF TypeOK, Connecting
  <2>3. \A g \in Fds : Held(g)' <=> Held(g)
    BY <2>1, <2>2 DEF Held
  <2>4. \A g \in Fds : g \in Leaked' <=> g \in Leaked
    BY <2>1, <2>3 DEF Leaked, FreeFds
  <2> QED BY <2>1, <2>4, LeakedSame, <1>0
<1>18. ASSUME CloseFd PROVE (Cardinality(Leaked) = failed)'
  <2>1. failed' = failed /\ \A g \in Fds : g \in Leaked' <=> g \in Leaked
    BY <1>0, <1>18 DEF Leaked, CloseFd, Goto
  <2> QED BY <2>1, LeakedSame, <1>0
<1>24. ASSUME FreeConn PROVE (Cardinality(Leaked) = failed)'
  <2>1. failed' = failed /\ \A g \in Fds : g \in Leaked' <=> g \in Leaked
    BY <1>0, <1>24 DEF Leaked, FreeConn, Goto
  <2> QED BY <2>1, LeakedSame, <1>0
<1>19. ASSUME ReadAgain PROVE (Cardinality(Leaked) = failed)'
  <2>1. failed' = failed /\ \A g \in Fds : g \in Leaked' <=> g \in Leaked
    BY <1>0, <1>19 DEF Leaked, ReadAgain, CloseBranch, Ended, Goto
  <2> QED BY <2>1, LeakedSame, <1>0
<1>20. ASSUME NEW w \in Workers, Notify(w) PROVE (Cardinality(Leaked) = failed)'
  <2>1. failed' = failed /\ \A g \in Fds : g \in Leaked' <=> g \in Leaked
    BY <1>0, <1>20 DEF Leaked, Notify, Goto
  <2> QED BY <2>1, LeakedSame, <1>0
<1>21. ASSUME NEW w \in Workers, NEW n \in 1 .. Pieces, SendPieces(w,
    n) PROVE (Cardinality(Leaked) = failed)'
  <2>1. failed' = failed /\ \A g \in Fds : g \in Leaked' <=> g \in Leaked
    BY <1>0, <1>21 DEF Leaked, SendPieces, Deaf, Written, Goto
  <2> QED BY <2>1, LeakedSame, <1>0
<1>22. ASSUME NEW w \in Workers, SendFails(w) PROVE (Cardinality(Leaked) = failed)'
  <2>1. failed' = failed /\ \A g \in Fds : g \in Leaked' <=> g \in Leaked
    BY <1>0, <1>22 DEF Leaked, SendFails, Deaf, Goto
  <2> QED BY <2>1, LeakedSame, <1>0
<1>23. ASSUME UNCHANGED vars PROVE (Cardinality(Leaked) = failed)'
  <2>1. failed' = failed /\ \A g \in Fds : g \in Leaked' <=> g \in Leaked
    BY <1>0, <1>23 DEF Leaked, vars
  <2> QED BY <2>1, LeakedSame, <1>0
<1> QED BY <1>1, <1>2, <1>3, <1>4, <1>5, <1>6, <1>7, <1>8, <1>9, <1>10, <1>11, <1>12, <1>13,
    <1>14, <1>15, <1>16, <1>17, <1>18, <1>19, <1>20, <1>21, <1>22, <1>23, <1>24
  DEF Next, LoopStep, DoRouterConnect, DoStatusConnect, WorkerStep, Threads

\* A notification goes on where it was left.
LEMMA SendingStep ==
  ASSUME TypeOK, Busy, AloneInv, SendInv, overlaps' = 0, [Next]_vars
  PROVE  SendInv'
<1> USE NoFdIsNone, LinksAssumption DEF TypeOK, Busy, WorkerPcs, LoopPcs, Connecting, Peers,
    Torn, Overlaps, AloneInv, Owned, Conns, Closing, Shadow, Dialling, Linked, SendInv, osVars, linkVars, bounds
<1>1. ASSUME RouterSocket PROVE SendInv'
  BY <1>1, NewFdFree DEF RouterSocket, Open, Goto
<1>2. ASSUME RouterConnected PROVE SendInv'
  BY <1>2 DEF RouterConnected, AddConn, AfterRouter, Goto
<1>3. ASSUME RouterConnectFails PROVE SendInv'
  BY <1>3 DEF RouterConnectFails, CountFailure, ConnectFails, AfterRouter, Goto
<1>4. ASSUME RouterReConnect PROVE SendInv'
  BY <1>4 DEF RouterReConnect, AfterRouter, Goto
<1>5. ASSUME RouterTimer PROVE SendInv'
  BY <1>5 DEF RouterTimer, Goto
<1>6. ASSUME NEW w \in Workers, NEW n \in 1 .. MaxServers, RouterPush(w, n) PROVE SendInv'
  BY <1>6 DEF RouterPush, Goto
<1>7. ASSUME NEW w \in Workers, GetRouterTable(w) PROVE SendInv'
  BY <1>7 DEF GetRouterTable, Goto
<1>8. ASSUME StatusTimer PROVE SendInv'
  BY <1>8 DEF StatusTimer, Goto
<1>9. ASSUME NEW x \in Threads, StatusSocket(x) PROVE SendInv'
  <2>1. /\ pc' = [pc EXCEPT ![x] = "connect"] /\ pc[x] = "socket"
        /\ left' = left /\ gone' = gone /\ statusFd' = NewFd
        /\ peer' = [g \in Fds |-> IF g = NewFd THEN "fresh" ELSE peer[g]]
        /\ wire' = [g \in Fds |-> IF g = NewFd THEN 0 ELSE wire[g]]
        /\ crossed' = IF Sending THEN crossed \cup (Fds \cap {NewFd}) ELSE crossed \ {NewFd}
    BY <1>9 DEF StatusSocket, Open, Goto
  <2>2. ASSUME NEW f \in Fds, peer'[f] = "status", wire'[f] = Torn PROVE f \in crossed'
    <3>1. f # NewFd /\ peer[f] = "status" /\ wire[f] = Torn
      BY <2>1, <2>2
    <3>2. f \in crossed
      BY <3>1 DEF SendInv
    <3> QED BY <2>1, <3>1, <3>2
  <2>3. CASE NewFd = NoFd
    BY <2>1, <2>2, <2>3 DEF SendInv
  <2>4. CASE NewFd # NoFd /\ Sending
    <3>1. NewFd \in Fds /\ statusFd' \in crossed'
      BY <2>1, <2>4, NewFdFree
    <3> QED BY <2>2, <3>1 DEF SendInv
  <2>5. CASE NewFd # NoFd /\ ~ Sending
    <3>1. \A o \in Threads : pc'[o] # "send"
      BY <2>1, <2>5 DEF TypeOK, Sending
    <3>2. wire'[statusFd'] = 0 /\ peer'[statusFd'] = "fresh"
      BY <2>1, <2>5, NewFdFree
    <3> QED BY <2>2, <3>1, <3>2 DEF SendInv, Threads
  <2> QED BY <2>3, <2>4, <2>5
<1>10. ASSUME NEW x \in Threads, StatusConnected(x) PROVE SendInv'
  BY <1>10 DEF StatusConnected, Goto
<1>11. ASSUME NEW x \in Threads, StatusConnectFails(x) PROVE SendInv'
  BY <1>11 DEF StatusConnectFails, CountFailure, ConnectFails, Goto
<1>12. ASSUME NEW x \in Threads, StatusEnable(x) PROVE SendInv'
  BY <1>12 DEF StatusEnable, Goto
<1>13. ASSUME NEW x \in Threads, StatusRegister(x) PROVE SendInv'
  BY <1>13 DEF StatusRegister, AddConn, NextServer, Goto
<1>14. ASSUME NEW x \in Threads, StatusReConnect(x) PROVE SendInv'
  BY <1>14 DEF StatusReConnect, NextServer, Goto
<1>15. ASSUME Accept PROVE SendInv'
  BY <1>15, NewFdFree DEF Accept, Open, AddConn
<1>16. ASSUME NEW f \in Fds, PeerCloses(f) PROVE SendInv'
  BY <1>16 DEF PeerCloses
<1>17. ASSUME NEW f \in Fds, ReadClose(f) PROVE SendInv'
  <2>1. UNCHANGED <<peer, gone, wire, statusFd, left, crossed>>
        /\ pc[Loop] = "idle" /\ pc' = [pc EXCEPT ![Loop] = IF f = routerFd THEN "rsocket" ELSE "delete"]
    BY <1>17 DEF ReadClose, CloseBranch, Goto, osVars
  <2>2. \A t \in Threads : /\ pc'[t] = "send" <=> pc[t] = "send"
                           /\ pc'[t] = "connect" <=> pc[t] = "connect"
    BY <2>1 DEF TypeOK
  <2> QED BY <2>1, <2>2 DEF SendInv, Threads
<1>18. ASSUME CloseFd PROVE SendInv'
  BY <1>18 DEF CloseFd, Goto
<1>24. ASSUME FreeConn PROVE SendInv'
  BY <1>24 DEF FreeConn, Goto
<1>19. ASSUME ReadAgain PROVE SendInv'
  BY <1>19 DEF ReadAgain, AloneInv, Closing
<1>20. ASSUME NEW w \in Workers, Notify(w) PROVE SendInv'
  <2>1. /\ pc' = [pc EXCEPT ![w] = "send"] /\ left' = [left EXCEPT ![w] = Pieces]
        /\ UNCHANGED <<peer, gone, wire, statusFd>>
        /\ crossed' = IF Sending THEN crossed \cup (Fds \cap {statusFd}) ELSE crossed
    BY <1>20 DEF Notify, Goto, osVars, linkVars
  <2>2. pc'[w] = "send" /\ left'[w] = Pieces /\ \A o \in Threads : o # w => pc'[o] = pc[o]
    BY <2>1, NoFdIsNone DEF TypeOK
  <2>3. \A f \in Fds : peer'[f] = "status" /\ wire'[f] = Torn => f \in crossed'
    BY <2>1 DEF SendInv
  <2>4. CASE Sending
    <3>1. statusFd' # NoFd => statusFd' \in crossed'
      BY <2>1, <2>4 DEF TypeOK
    <3> QED BY <2>3, <3>1 DEF SendInv
  <2>5. CASE ~ Sending
    <3>1. \A o \in Threads : pc[o] # "send" /\ (pc'[o] = "send" => o = w)
      BY <2>2, <2>5 DEF Sending
    <3>2. (\A o \in Threads : pc'[o] = "connect" => pc[o] = "connect") /\ crossed' = crossed
      BY <2>1, <2>2, <2>5
    <3>3. statusFd \notin crossed /\ statusFd # NoFd /\ peer[statusFd] = "status" /\ statusFd \notin gone
            => wire[statusFd] = 0
      BY <3>1, NoFdIsNone DEF SendInv
    <3>4. \A o \in Workers : pc'[o] = "send" => o = w
      BY <3>1, NoFdIsNone
    <3> QED BY <2>1, <2>2, <2>3, <3>1, <3>2, <3>3, <3>4, LinksAssumption DEF SendInv
  <2> QED BY <2>4, <2>5
<1>21. ASSUME NEW w \in Workers, NEW n \in 1 .. Pieces, SendPieces(w, n) PROVE SendInv'
  BY <1>21 DEF SendPieces, Deaf, Written, Goto
<1>22. ASSUME NEW w \in Workers, SendFails(w) PROVE SendInv'
  BY <1>22 DEF SendFails, Deaf, Goto
<1>23. ASSUME UNCHANGED vars PROVE SendInv'
  BY <1>23 DEF vars
<1> QED BY <1>1, <1>2, <1>3, <1>4, <1>5, <1>6, <1>7, <1>8, <1>9, <1>10, <1>11, <1>12, <1>13,
    <1>14, <1>15, <1>16, <1>17, <1>18, <1>19, <1>20, <1>21, <1>22, <1>23, <1>24
  DEF Next, LoopStep, DoRouterConnect, DoStatusConnect, WorkerStep, Threads

-----------------------------------------------------------------------------
(* The theorems.                                                           *)

\* The invariant holds when net_server::start connects to the router.
LEMMA InitInv ==
  Init => IndInv
<1> SUFFICES ASSUME Init PROVE IndInv
  OBVIOUS
<1> USE LinksAssumption, NoFdIsNone DEF Init
<1>1. TypeOK
  <2>1. Pieces \in Nat
    OBVIOUS
  <2>2. wire \in [Fds -> 0 .. Torn] /\ peer \in [Fds -> Peers] /\ conns \in [Fds -> Nat]
    BY <2>1 DEF Torn, Peers
  <2>3. pc \in [Threads -> {"rsocket", "idle"}] /\ left \in [Threads -> Nat]
    OBVIOUS
  <2>4. {statusEnable, routerTimer, statusTimer, shadowed} \subseteq BOOLEAN
    OBVIOUS
  <2>5. {routerFd, statusFd,
      closing} \subseteq Fds \cup {NoFd} /\ gone \subseteq Fds /\ watched \subseteq Fds
        /\ {pushes, notes, clients, drops, failed, overlaps} \subseteq Nat /\ crossed \subseteq Fds
    OBVIOUS
  <2> QED BY <2>2, <2>3, <2>4, <2>5 DEF TypeOK
<1>2. Busy
  BY DEF Busy, LoopPcs, WorkerPcs, Connecting, Threads
<1>3. Owned /\ Closing /\ Shadow /\ Dialling /\ Linked
  <2>1. \A t \in Threads : pc[t] \in {"rsocket", "idle"}
    OBVIOUS
  <2>2. pc[Loop] = "rsocket"
    BY DEF Threads
  <2> QED BY <2>1, <2>2 DEF Owned, Conns, Closing, Shadow, Dialling, Linked, Connecting
<1>4. Leaked = {}
  BY DEF Leaked, FreeFds
<1>5. Cardinality(Leaked) = failed
  BY <1>4, FS_EmptySet
<1>6. SendInv
  BY DEF SendInv, Threads, Torn
<1> QED BY <1>1, <1>2, <1>3, <1>5, <1>6 DEF IndInv, AloneInv

\* Every step keeps the invariant.
LEMMA NextInv ==
  IndInv /\ [Next]_vars => IndInv'
<1> SUFFICES ASSUME IndInv, [Next]_vars PROVE IndInv'
  OBVIOUS
<1>1. TypeOK' /\ Busy'
  BY TypeStep, BusyStep DEF IndInv
<1>2. ASSUME overlaps' = 0 PROVE AloneInv' /\ SendInv'
  <2>1. TypeOK /\ Busy /\ AloneInv /\ SendInv
    BY <1>2, Remembered DEF IndInv
  <2>2. Owned' /\ Closing' /\ Shadow'
    BY <1>2, <2>1, OwnedStep, ClosingStep, ShadowStep
  <2>3. Dialling' /\ Linked'
    BY <1>2, <2>1, DiallingStep, LinkedStep
  <2>4. ~ shadowed' => (Cardinality(Leaked) = failed)'
    BY <1>2, <2>1, LeakedStep
  <2>5. SendInv'
    BY <1>2, <2>1, SendingStep
  <2> QED BY <2>2, <2>3, <2>4, <2>5 DEF AloneInv
<1> QED BY <1>1, <1>2 DEF IndInv

LEMMA Invariant ==
  SafetySpec => []IndInv
BY InitInv, NextInv, PTL DEF SafetySpec

\* What the invariant says, property by property.
LEMMA Consequences ==
  IndInv => TypeOK /\ NobodyTakenForRouter /\ EnabledMeansLinked /\ DescriptorsOwned /\ NotificationsWhole
<1> SUFFICES ASSUME IndInv
             PROVE  NobodyTakenForRouter /\ EnabledMeansLinked /\ DescriptorsOwned /\ NotificationsWhole
  BY DEF IndInv
<1>1. NobodyTakenForRouter
  BY DEF IndInv, AloneInv, Linked, NobodyTakenForRouter
<1>2. EnabledMeansLinked
  BY DEF IndInv, AloneInv, Owned, Conns, Closing, Shadow, Dialling, Linked, EnabledMeansLinked, TypeOK
<1>3. DescriptorsOwned
  <2> SUFFICES ASSUME overlaps = 0, ~ shadowed
               PROVE  /\ \A f \in Fds : IF f \in watched THEN Conns(f) = 1 /\ peer[f] # "free"
                                                         ELSE Conns(f) = 0
                      /\ Cardinality(Leaked) = failed
    BY DEF DescriptorsOwned, Leaked
  <2>1. \A f \in watched : Conns(f) = conns[f]
    BY DEF IndInv, AloneInv, Closing, Conns, TypeOK, Busy
  <2> QED BY <2>1 DEF IndInv, AloneInv, Owned, TypeOK
<1>4. NotificationsWhole
  BY DEF IndInv, SendInv, NotificationsWhole
<1> QED BY <1>1, <1>2, <1>3, <1>4

\* Every variable keeps to its type: no net_conn is deleted that was not made,
\* and no thread counts the servers or pieces it has left below zero.
THEOREM TypeCorrect ==
  SafetySpec => []TypeOK
BY Invariant, Consequences, PTL

\* read_data and m_router_fd: whoever leaves, the loop reconnects to the router
\* only for the router, for any number of descriptors, failures and clients.
THEOREM NobodyIsTakenForRouter ==
  SafetySpec => []NobodyTakenForRouter
BY Invariant, Consequences, PTL

\* m_status_enable and m_status_fd: when no connects overlapped, the flag is up only
\* with a status server's connection behind the number, which the loop watches or
\* is about to, or which was registered in the middle of a ~net_conn.
THEOREM EnabledIsLinked ==
  SafetySpec => []EnabledMeansLinked
BY Invariant, Consequences, PTL

\* Descriptors and net_conn objects: exactly one descriptor is lost for each
\* connect that failed and none otherwise, unless connects overlapped or one fell
\* between the close and the event_free of a ~net_conn.
THEOREM DescriptorsAreOwned ==
  SafetySpec => []DescriptorsOwned
BY Invariant, Consequences, PTL

\* status_send: a status server gets whole notifications, of any number of
\* pieces, on every link on which no two sends crossed and that was not made
\* under one; torn notifications before do not excuse a later link.
THEOREM NotificationsAreWhole ==
  SafetySpec => []NotificationsWhole
BY Invariant, Consequences, PTL
=============================================================================
