----------------------------- MODULE ServerLinks -----------------------------
(***************************************************************************)
(* The two connections this server opens itself: to the router, made and   *)
(* remade by the event loop, and to a status (broadcast) server, which the *)
(* workers make when the router pushes its table, the event loop when a    *)
(* timer asks for it again, and on which the workers write notifications.  *)
(* m_status_fd and m_status_enable are plain members read and written by   *)
(* all of them without a lock, and every line of do_status_connect reads   *)
(* m_status_fd anew.                                                       *)
(* Clients accepted by the same loop share the descriptor numbers: the     *)
(* system hands out the lowest free one, and a number is free again as     *)
(* soon as ~net_conn has closed it, before its event is taken from the     *)
(* loop.                                                                   *)
(***************************************************************************)
EXTENDS Integers, FiniteSets

CONSTANTS Workers, Loop,   \* the threads
          MaxFd,           \* descriptors 1 .. MaxFd; 0 stands for -1
          MaxServers,      \* broadcast servers in one table of the router
          Pieces,          \* a notification leaves in at most so many writes
          \* bounds of a run
          Loads,         \* how many pushes, notifications, clients and lost links
          MaxFailures    \* failed connects

Threads == Workers \cup {Loop}
Fds == 1 .. MaxFd
NoFd == 0

ASSUME LinksAssumption ==
  /\ Loop \notin Workers
  /\ {MaxFd, MaxServers, Pieces} \subseteq Nat \ {0}
  /\ Loads \subseteq [pushes : Nat, notes : Nat, clients : Nat, drops : Nat]
  /\ MaxFailures \in Nat

VARIABLES
  \* the operating system
  peer,        \* what a descriptor is: see Peers
  gone,        \* open descriptors whose other end has closed
  watched,     \* descriptors the event loop is told about
  wire,        \* how far into a notification the bytes written to it are, or Torn
  \* net_work
  conns,       \* number of net_conn objects, with their event, for a descriptor
  routerFd, statusFd, statusEnable,
  routerTimer, statusTimer,    \* armed
  \* threads
  pc, left,    \* left: broadcast servers still to try, or pieces still to send
  closing,     \* the descriptor whose close the loop is handling
  \* history
  pushes, notes, clients, drops,
  failed,      \* connect() calls that failed
  overlaps,    \* status connects begun with a link up or being made, up to MaxFd
  shadowed,    \* a connection was registered while an event of another had its number
  crossed      \* links on which a notification met another, or that were new to one

osVars == <<peer, gone, watched, wire>>
linkVars == <<routerFd, statusFd, statusEnable, routerTimer, statusTimer>>
bounds == <<pushes, notes, clients, drops>>
vars == <<osVars, conns, linkVars, pc, left, closing, bounds, failed, overlaps, shadowed, crossed>>

-----------------------------------------------------------------------------
\* "fresh": socket() was called, connect() has not succeeded.
Peers == {"free", "fresh", "router", "status", "client"}
Connecting == {"connect", "enable", "register"}

Torn == Pieces

FreeFds == {f \in Fds : peer[f] = "free"}
Lowest(S) == CHOOSE f \in S : \A g \in S : f <= g

TypeOK ==
  /\ peer \in [Fds -> Peers] /\ gone \subseteq Fds /\ watched \subseteq Fds
  /\ wire \in [Fds -> 0 .. Torn]
  /\ conns \in [Fds -> Nat]
  /\ {routerFd, statusFd, closing} \subseteq Fds \cup {NoFd}
  /\ {statusEnable, routerTimer, statusTimer, shadowed} \subseteq BOOLEAN
  /\ pc \in [Threads -> {"idle", "check", "socket", "rearm", "send", "delete", "free", "freeone",
                         "reread", "rsocket", "rconnect", "rrearm"} \cup Connecting]
  /\ left \in [Threads -> Nat] /\ crossed \subseteq Fds
  /\ {pushes, notes, clients, drops, failed, overlaps} \subseteq Nat

\* net_server::start has made the threads and is about to connect to the
\* router; no constructor gives m_status_fd a value.
Init ==
  /\ peer = [f \in Fds |-> "free"] /\ gone = {} /\ watched = {}
  /\ wire = [f \in Fds |-> 0] /\ conns = [f \in Fds |-> 0]
  /\ routerFd = NoFd /\ statusFd \in Fds \cup {NoFd} /\ statusEnable = FALSE
  /\ routerTimer = FALSE /\ statusTimer = FALSE
  /\ pc = [t \in Threads |-> IF t = Loop THEN "rsocket" ELSE "idle"]
  /\ left = [t \in Threads |-> 0] /\ closing = NoFd
  /\ pushes = 0 /\ notes = 0 /\ clients = 0 /\ drops = 0
  /\ failed = 0 /\ overlaps = 0 /\ shadowed = FALSE /\ crossed = {}

\* Does a run have so many of each?
Within(p, n, c, d) ==
  \E l \in Loads : p <= l.pushes /\ n <= l.notes /\ c <= l.clients /\ d <= l.drops

Goto(t, l) == pc' = [pc EXCEPT ![t] = l]

\* socket(): the number, or NoFd when there is none left.
NewFd == IF FreeFds = {} THEN NoFd ELSE Lowest(FreeFds)
Open(f, kind) ==
  /\ peer' = [g \in Fds |-> IF g = f THEN kind ELSE peer[g]]
  /\ wire' = [g \in Fds |-> IF g = f THEN 0 ELSE wire[g]]

\* connect() succeeds only on a new socket, and if the server answers.
ConnectFails(f) ==
  \/ f = NoFd \/ (f # NoFd /\ peer[f] # "fresh")
  \/ failed < MaxFailures
CountFailure(f) == failed' = IF f # NoFd /\ peer[f] = "fresh" THEN failed + 1 ELSE failed

\* new net_conn and event_add: the kernel is told of the first event for a
\* descriptor, and refuses a closed one.
AddConn(f) ==
  /\ conns' = [g \in Fds |-> IF g = f /\ (peer'[g] # "free" \/ conns[g] > 0)
                            THEN conns[g] + 1 ELSE conns[g]]
  /\ watched' = watched \cup {g \in Fds : g = f /\ conns[g] = 0 /\ peer'[g] # "free"}
  /\ shadowed' = (shadowed \/ \E g \in Fds : g = f /\ conns[g] > 0)

-----------------------------------------------------------------------------
(* The router link, event loop only.                                        *)

RouterSocket ==
  /\ pc[Loop] = "rsocket"
  /\ routerFd' = NewFd /\ Open(NewFd, "fresh")
  /\ Goto(Loop, "rconnect")
  /\ UNCHANGED <<gone, watched, conns, statusFd, statusEnable, routerTimer, statusTimer,
                 left, closing, bounds, failed, overlaps, shadowed, crossed>>

\* After the connect the callback deletes the connection it was called for;
\* start and the timer were called for none.
AfterRouter == IF closing = NoFd THEN "idle" ELSE "delete"

\* Mutant: the connection is not given to the event loop.
RouterConnected_NoEvent ==
  /\ pc[Loop] = "rconnect"
  /\ routerFd # NoFd /\ peer[routerFd] = "fresh"
  /\ peer' = [peer EXCEPT ![routerFd] = "router"]
  /\ Goto(Loop, AfterRouter)
  /\ UNCHANGED <<gone, watched, wire, conns, linkVars, left, closing, bounds,
                 failed, overlaps, shadowed, crossed>>

\* The registration is one send, whose result is only logged.
RouterConnected ==
  /\ pc[Loop] = "rconnect"
  /\ routerFd # NoFd /\ peer[routerFd] = "fresh"
  /\ peer' = [peer EXCEPT ![routerFd] = "router"]
  /\ AddConn(routerFd)
  /\ Goto(Loop, AfterRouter)
  /\ UNCHANGED <<gone, wire, linkVars, left, closing, bounds,
                 failed, overlaps, crossed>>

\* Mutant: the socket is closed and m_router_fd keeps its number.
RouterConnectFails_Closes ==
  /\ pc[Loop] = "rconnect"
  /\ ConnectFails(routerFd) /\ CountFailure(routerFd)
  /\ peer' = [peer EXCEPT ![routerFd] = "free"]
  /\ Goto(Loop, "rrearm")
  /\ UNCHANGED <<gone, watched, wire, conns, linkVars, left, closing, bounds,
                 overlaps, shadowed, crossed>>

\* Mutant: no timer is armed.
RouterConnectFails_NoTimer ==
  /\ pc[Loop] = "rconnect"
  /\ ConnectFails(routerFd) /\ CountFailure(routerFd)
  /\ Goto(Loop, AfterRouter)
  /\ UNCHANGED <<osVars, conns, linkVars, left, closing, bounds,
                 overlaps, shadowed, crossed>>

\* The socket is not closed.
RouterConnectFails ==
  /\ pc[Loop] = "rconnect"
  /\ ConnectFails(routerFd) /\ CountFailure(routerFd)
  /\ Goto(Loop, "rrearm")
  /\ UNCHANGED <<osVars, conns, linkVars, left, closing, bounds,
                 overlaps, shadowed, crossed>>

RouterReConnect ==
  /\ pc[Loop] = "rrearm"
  /\ routerTimer' = TRUE
  /\ Goto(Loop, AfterRouter)
  /\ UNCHANGED <<osVars, conns, routerFd, statusFd, statusEnable, statusTimer,
                 left, closing, bounds, failed, overlaps, shadowed, crossed>>

RouterTimer ==
  /\ pc[Loop] = "idle" /\ routerTimer
  /\ routerTimer' = FALSE
  /\ Goto(Loop, "rsocket")
  /\ UNCHANGED <<osVars, conns, routerFd, statusFd, statusEnable, statusTimer,
                 left, closing, bounds, failed, overlaps, shadowed, crossed>>

-----------------------------------------------------------------------------
(* The status link: workers after a push, the event loop after a timer.     *)

\* The router's table reaches a worker: n broadcast servers are in it.
RouterPush(w, n) ==
  /\ pc[w] = "idle" /\ Within(pushes + 1, notes, clients, drops)
  /\ routerFd # NoFd /\ peer[routerFd] = "router" /\ routerFd \in watched
  /\ pushes' = pushes + 1
  /\ left' = [left EXCEPT ![w] = n]
  /\ Goto(w, "check")
  /\ UNCHANGED <<osVars, conns, linkVars, closing, notes, clients, drops,
                 failed, overlaps, shadowed, crossed>>

\* m_status_enable is looked at once for the whole table.
GetRouterTable(w) ==
  /\ pc[w] = "check"
  /\ IF statusEnable \/ left[w] = 0
     THEN /\ Goto(w, "idle") /\ left' = [left EXCEPT ![w] = 0]
     ELSE Goto(w, "socket") /\ UNCHANGED left
  /\ UNCHANGED <<osVars, conns, linkVars, closing, bounds,
                 failed, overlaps, shadowed, crossed>>

StatusTimer ==
  /\ pc[Loop] = "idle" /\ statusTimer
  /\ statusTimer' = FALSE
  /\ IF statusEnable
     THEN UNCHANGED <<pc, left>>
     ELSE Goto(Loop, "socket") /\ left' = [left EXCEPT ![Loop] = 1]
  /\ UNCHANGED <<osVars, conns, routerFd, statusFd, statusEnable, routerTimer,
                 closing, bounds, failed, overlaps, shadowed, crossed>>

\* Is a link up, or being made by another thread, when t begins with one?
Overlaps(t) == statusEnable \/ \E o \in Threads \ {t} : pc[o] \in Connecting

Sending == \E o \in Threads : pc[o] = "send"

StatusSocket(t) ==
  /\ pc[t] = "socket"
  /\ statusFd' = NewFd /\ Open(NewFd, "fresh")
  /\ overlaps' = IF Overlaps(t) /\ overlaps < MaxFd THEN overlaps + 1 ELSE overlaps
  /\ crossed' = IF Sending THEN crossed \cup (Fds \cap {NewFd}) ELSE crossed \ {NewFd}
  /\ Goto(t, "connect")
  /\ UNCHANGED <<gone, watched, conns, routerFd, statusEnable, routerTimer, statusTimer,
                 left, closing, bounds, failed, shadowed>>

StatusConnected(t) ==
  /\ pc[t] = "connect"
  /\ statusFd # NoFd /\ peer[statusFd] = "fresh"
  /\ peer' = [peer EXCEPT ![statusFd] = "status"]
  /\ Goto(t, "enable")
  /\ UNCHANGED <<gone, watched, wire, conns, linkVars, left, closing, bounds,
                 failed, overlaps, shadowed, crossed>>

\* The next broadcast server of the table, if any, is tried whatever became of this one.
NextServer(t) ==
  /\ left' = [left EXCEPT ![t] = left[t] - 1]
  /\ Goto(t, IF left[t] = 1 THEN "idle" ELSE "socket")

\* Mutant: no timer is armed.
StatusConnectFails_NoTimer(t) ==
  /\ pc[t] = "connect"
  /\ ConnectFails(statusFd) /\ CountFailure(statusFd)
  /\ NextServer(t)
  /\ UNCHANGED <<osVars, conns, linkVars, closing, bounds, overlaps, shadowed, crossed>>

StatusConnectFails(t) ==
  /\ pc[t] = "connect"
  /\ ConnectFails(statusFd) /\ CountFailure(statusFd)
  /\ Goto(t, "rearm")
  /\ UNCHANGED <<osVars, conns, linkVars, left, closing, bounds,
                 overlaps, shadowed, crossed>>

StatusEnable(t) ==
  /\ pc[t] = "enable"
  /\ statusEnable' = TRUE
  /\ Goto(t, "register")
  /\ UNCHANGED <<osVars, conns, routerFd, statusFd, routerTimer, statusTimer,
                 left, closing, bounds, failed, overlaps, shadowed, crossed>>

StatusRegister(t) ==
  /\ pc[t] = "register"
  /\ UNCHANGED <<peer, gone, wire, linkVars, closing, bounds, failed, overlaps, crossed>>
  /\ AddConn(statusFd) /\ NextServer(t)

StatusReConnect(t) ==
  /\ pc[t] = "rearm"
  /\ statusTimer' = TRUE
  /\ NextServer(t)
  /\ UNCHANGED <<osVars, conns, routerFd, statusFd, statusEnable, routerTimer,
                 closing, bounds, failed, overlaps, shadowed, crossed>>

-----------------------------------------------------------------------------
(* Clients, and connections that end.                                       *)

\* do_accept: with no descriptor left accept() fails and the client waits.
Accept ==
  /\ pc[Loop] = "idle" /\ Within(pushes, notes, clients + 1, drops) /\ FreeFds # {}
  /\ Open(NewFd, "client") /\ AddConn(NewFd)
  /\ clients' = clients + 1
  /\ UNCHANGED <<gone, linkVars, pc, left, closing, pushes, notes, drops,
                 failed, overlaps, crossed>>

PeerCloses(f) ==
  /\ peer[f] \in {"router", "status", "client"} /\ f \notin gone
  /\ IF peer[f] = "client" THEN UNCHANGED drops
     ELSE Within(pushes, notes, clients, drops + 1) /\ drops' = drops + 1
  /\ gone' = gone \cup {f}
  /\ UNCHANGED <<peer, watched, wire, conns, linkVars, pc, left, closing, pushes, notes, clients,
                 failed, overlaps, shadowed, crossed>>

\* Mutant: the flag stays up when the status link ends.
CloseBranch_KeepsFlag(f) ==
  /\ closing' = f
  /\ IF f = routerFd
     THEN Goto(Loop, "rsocket") /\ UNCHANGED statusEnable
     ELSE Goto(Loop, "delete") /\ UNCHANGED statusEnable
  /\ UNCHANGED <<osVars, conns, routerFd, statusFd, routerTimer, statusTimer, left, bounds,
                 failed, overlaps, shadowed, crossed>>

\* read_data finds the connection closed (or the descriptor not connected).
\* A lost router link is made anew before the old connection is deleted.
CloseBranch(f) ==
  /\ closing' = f
  /\ IF f = routerFd
     THEN Goto(Loop, "rsocket") /\ UNCHANGED statusEnable
     ELSE /\ Goto(Loop, "delete")
          /\ statusEnable' = IF f = statusFd THEN FALSE ELSE statusEnable
  /\ UNCHANGED <<osVars, conns, routerFd, statusFd, routerTimer, statusTimer, left, bounds,
                 failed, overlaps, shadowed, crossed>>

Ended(f) == f \in gone \/ peer[f] \in {"fresh", "free"}

ReadClose(f) ==
  /\ pc[Loop] = "idle"
  /\ f \in watched /\ conns[f] > 0 /\ Ended(f)
  /\ CloseBranch(f)

\* Mutant: ~net_conn frees its event and does not close.
CloseFd_NoClose ==
  /\ pc[Loop] = "delete"
  /\ watched' = watched \ {closing}
  /\ Goto(Loop, IF conns[closing] > 1 THEN "freeone" ELSE "free")
  /\ UNCHANGED <<peer, gone, wire, conns, linkVars, left, closing, bounds,
                 failed, overlaps, shadowed, crossed>>

\* ~net_conn closes its descriptor, whoever has the number now: the kernel
\* forgets what it was told, and the number is free.
CloseFd ==
  /\ pc[Loop] = "delete"
  /\ peer' = [peer EXCEPT ![closing] = "free"]
  /\ gone' = gone \ {closing} /\ watched' = watched \ {closing}
  /\ Goto(Loop, IF conns[closing] > 1 THEN "freeone" ELSE "free")
  /\ UNCHANGED <<wire, conns, linkVars, left, closing, bounds,
                 failed, overlaps, shadowed, crossed>>

\* event_free.  Another net_conn the number had when it was reported is read in
\* the same turn of the loop.
FreeConn ==
  /\ pc[Loop] \in {"free", "freeone"}
  /\ conns' = [conns EXCEPT ![closing] = conns[closing] - 1]
  /\ IF pc[Loop] = "freeone"
     THEN Goto(Loop, "reread") /\ UNCHANGED closing
     ELSE Goto(Loop, "idle") /\ closing' = NoFd
  /\ UNCHANGED <<osVars, linkVars, left, bounds, failed, overlaps, shadowed, crossed>>

ReadAgain ==
  /\ pc[Loop] = "reread"
  /\ \/ Ended(closing) /\ CloseBranch(closing)
     \/ /\ ~ Ended(closing)
        /\ Goto(Loop, "idle") /\ closing' = NoFd
        /\ UNCHANGED <<osVars, conns, linkVars, left, bounds,
                       failed, overlaps, shadowed, crossed>>

-----------------------------------------------------------------------------
(* Notifications: status_send, called by the workers.                       *)

Notify(w) ==
  /\ pc[w] = "idle" /\ Within(pushes, notes + 1, clients, drops)
  /\ notes' = notes + 1
  /\ left' = [left EXCEPT ![w] = Pieces]
  /\ crossed' = IF Sending THEN crossed \cup (Fds \cap {statusFd}) ELSE crossed
  /\ Goto(w, "send")
  /\ UNCHANGED <<osVars, conns, linkVars, closing, pushes, clients, drops,
                 failed, overlaps, shadowed>>

Deaf == statusFd = NoFd \/ (statusFd # NoFd /\ peer[statusFd] \in {"free", "fresh"})

\* What is written to a connection whose other end is gone vanishes.
Written(at, from, n) ==
  IF at # from THEN Torn ELSE IF from + n = Pieces THEN 0 ELSE from + n

\* Mutant: what a partial send() left over is sent from the start of the buffer.
SendPieces_FromStart(w, n) ==
  /\ pc[w] = "send" /\ ~ Deaf /\ n <= left[w]
  /\ wire' = IF statusFd \in gone THEN wire
             ELSE [wire EXCEPT ![statusFd] = Written(wire[statusFd], 0, n)]
  /\ left' = [left EXCEPT ![w] = left[w] - n]
  /\ Goto(w, IF n = left[w] THEN "idle" ELSE "send")
  /\ UNCHANGED <<peer, gone, watched, conns, linkVars, closing, bounds,
                 failed, overlaps, shadowed, crossed>>

\* One send() of the loop takes as many pieces as the socket has room for.
SendPieces(w, n) ==
  /\ pc[w] = "send" /\ ~ Deaf /\ n <= left[w]
  /\ wire' = IF statusFd \in gone THEN wire
             ELSE [wire EXCEPT ![statusFd] = Written(wire[statusFd], Pieces - left[w], n)]
  /\ left' = [left EXCEPT ![w] = left[w] - n]
  /\ Goto(w, IF n = left[w] THEN "idle" ELSE "send")
  /\ UNCHANGED <<peer, gone, watched, conns, linkVars, closing, bounds,
                 failed, overlaps, shadowed, crossed>>

\* send() fails: the rest of the notification is dropped without a word.
SendFails(w) ==
  /\ pc[w] = "send" /\ (Deaf \/ (~ Deaf /\ statusFd \in gone))
  /\ left' = [left EXCEPT ![w] = 0]
  /\ Goto(w, "idle")
  /\ UNCHANGED <<osVars, conns, linkVars, closing, bounds,
                 failed, overlaps, shadowed, crossed>>

-----------------------------------------------------------------------------
DoStatusConnect(t) ==
  \/ StatusSocket(t) \/ StatusConnected(t) \/ StatusConnectFails(t)
  \/ StatusEnable(t) \/ StatusRegister(t) \/ StatusReConnect(t)

DoRouterConnect ==
  RouterSocket \/ RouterConnected \/ RouterConnectFails \/ RouterReConnect

LoopStep ==
  \/ DoRouterConnect \/ DoStatusConnect(Loop) \/ RouterTimer \/ StatusTimer
  \/ CloseFd \/ FreeConn \/ ReadAgain \/ \E f \in Fds : ReadClose(f)

WorkerStep(w) ==
  \/ GetRouterTable(w) \/ DoStatusConnect(w)
  \/ SendFails(w) \/ \E n \in 1 .. Pieces : SendPieces(w, n)

Next ==
  \/ LoopStep \/ Accept
  \/ \E f \in Fds : PeerCloses(f)
  \/ \E w \in Workers :
       WorkerStep(w) \/ Notify(w) \/ \E n \in 1 .. MaxServers : RouterPush(w, n)

SafetySpec == Init /\ [][Next]_vars

\* A thread goes on with what it does, the loop with any callback that is due:
\* which one it takes first is not said.  A timer a worker armed is seen when
\* the loop wakes, which the router's heartbeats (get_heart_beat) make it do.
Fairness == WF_vars(LoopStep) /\ \A w \in Workers : WF_vars(WorkerStep(w))

Spec == SafetySpec /\ Fairness

-----------------------------------------------------------------------------
\* When no two status connects overlapped, the number in m_router_fd never
\* belongs to a client or to the status server, also while the link is down:
\* read_data would reconnect to the router for whoever leaves.  It holds only
\* because do_router_connect does not close the socket whose connect failed.
NobodyTakenForRouter ==
  routerFd # NoFd /\ overlaps = 0 => peer[routerFd] \in {"fresh", "router"}

\* The net_conn objects of a number, but for one that has closed it and still
\* has its event.
Conns(f) == IF f = closing /\ pc[Loop] = "free" THEN conns[f] - 1 ELSE conns[f]

\* When no two connects overlapped, m_status_enable says what status_send and
\* get_router_table take it for: m_status_fd is a status server's connection,
\* and the event loop watches it or is about to be told, unless it was registered
\* under a number whose last owner still had its event: libevent then does not
\* tell the kernel, and nobody will see the connection end.  So notifications go
\* to a client, or nowhere, only while the flag is down.
EnabledMeansLinked ==
  statusEnable /\ overlaps = 0 =>
    /\ statusFd # NoFd /\ peer[statusFd] = "status"
    /\ \/ statusFd \in watched /\ Conns(statusFd) = 1
       \/ Conns(statusFd) = 0 /\ \E t \in Threads : pc[t] = "register"
       \/ shadowed

\* What has a descriptor when no two connects overlapped and no link was
\* registered under a number whose last owner was being deleted: one net_conn the
\* loop watches, or a connect under way, or a connect that failed, whose
\* socket nobody closes: each costs one descriptor for good.
Held(f) ==
  \/ f = routerFd /\ pc[Loop] = "rconnect"
  \/ f = statusFd /\ \E t \in Threads : pc[t] \in Connecting

DescriptorsOwned ==
  overlaps = 0 /\ ~ shadowed =>
    /\ \A f \in Fds : IF f \in watched THEN Conns(f) = 1 /\ peer[f] # "free"
                                       ELSE Conns(f) = 0
    /\ Cardinality({f \in Fds \ (FreeFds \cup watched) : ~ Held(f)}) = failed

\* What overlapping connects cost at most: of the descriptors in use, those that
\* no connect and no net_conn the loop watches will give back, and the status
\* links m_status_fd does not lead to, are no more than there were failed connects,
\* overlapping ones, and a link registered under the number of another.
Stranded(f) == f \notin watched \/ (peer[f] = "status" /\ f # statusFd)

OverlapsCostOneEach ==
  Cardinality({f \in Fds \ (FreeFds \cup {closing}) : Stranded(f) /\ ~ Held(f)})
    <= failed + overlaps + (IF shadowed THEN 1 ELSE 0)

\* When no two connects overlapped, a link on which a notification arrives torn is
\* one on which two workers wrote at the same time, or one made while a worker was
\* writing: the next link is whole again.
NotificationsWhole ==
  overlaps = 0 => \A f \in Fds : peer[f] = "status" /\ wire[f] = Torn => f \in crossed

\* Again and again the link to the router is up, unless the attempts before have
\* used up the descriptors, or it was registered under a number with an event of
\* another connection: the kernel was never told of it, and nobody sees it end.
RouterLinked == routerFd # NoFd /\ peer[routerFd] = "router" /\ routerFd \notin gone
Unheard == routerFd # NoFd /\ conns[routerFd] > 0 /\ routerFd \notin watched
RouterReturns == []<>(RouterLinked \/ Unheard \/ FreeFds = {})

\* A worker that begins to connect to a status server leaves a link, now or
\* when the timer tries again, unless connects overlapped or there is no
\* descriptor left.
StatusLinked == statusEnable /\ statusFd # NoFd /\ peer[statusFd] = "status"
StatusReturns ==
  (\E w \in Workers : pc[w] = "socket") ~> (StatusLinked \/ overlaps > 0 \/ FreeFds = {})
=============================================================================
