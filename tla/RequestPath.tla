----------------------------- MODULE RequestPath -----------------------------
(***************************************************************************)
(* A request from the socket it arrives on to the socket its answer leaves *)
(* by: the event loop (net_server::read, http_read, the accept callbacks), *)
(* the workers and the send_thread, composed through the two queues that   *)
(* join them, each taken as FIFO lanes (ThreadPool and ResponseQueue show  *)
(* that it is).                                                            *)
(* A task remembers the NUMBER of its socket, not the connection.  The     *)
(* event loop closes sockets at any time and the system hands the numbers  *)
(* out again, so that a number may stand for another client by the time    *)
(* the answer is written.  Requests that came over HTTP are answered by    *)
(* the worker itself, header first (http_response); the others through the *)
(* send_thread (pb_task::send).  Both may be written in several pieces: two *)
(* here, which for HTTP are the header and the body.  The send_thread sends *)
(* until the socket has taken all; the HTTP header is sent once, and what  *)
(* the socket takes of it is not looked at.                                *)
(* The server is up throughout: starting and stopping are modelled in      *)
(* ThreadPool and ResponseQueue.                                           *)
(***************************************************************************)
EXTENDS Integers, Sequences

CONSTANTS PoolSize,    \* number of workers
          Requests,    \* the task objects made from requests (bounds a run)
          NoRequest,
          PbConns,     \* connections accepted on listen_port
          HttpConns,   \* connections accepted on http_listen_port
          NoConn,
          Fds,         \* socket numbers
          NoFd

Conns == PbConns \cup HttpConns

ASSUME PathAssumption == /\ PoolSize \in Nat \ {0}
                         /\ NoRequest \notin Requests
                         /\ PbConns \cap HttpConns = {}
                         /\ NoConn \notin Conns
                         /\ NoFd \notin Fds

VARIABLES
  \* connections
  state,     \* "new", "open" or "closed"
  fd,        \* the socket number of an open connection
  gone,      \* connections whose other end has closed
  loop,      \* the connection whose callback the event loop runs
  \* tasks
  asker,     \* the connection a request came from
  taskFd,    \* m_fd of the task
  stage,     \* how far the answer is
  arrivals,  \* the requests in the order add_task got them
  \* the two queues
  serving,
  nextLane, lane, inService, submitted,    \* the workers
  outLane, outService, handed,             \* the send_thread
  \* what the clients see
  wire       \* <<request, piece>> in the order written to each connection;
             \* piece 0 is the first part of a header the socket did not take whole

connVars == <<state, fd, gone, loop>>
taskVars == <<asker, taskFd, arrivals>>
poolVars == <<nextLane, lane, inService, submitted>>
outVars  == <<outLane, outService, handed>>
vars == <<connVars, taskVars, stage, serving, poolVars, outVars, wire>>

Pool == INSTANCE FifoLanes WITH NoTask <- NoRequest, Tasks <- Requests,
                                open <- serving

Sender == INSTANCE FifoLanes WITH
            PoolSize <- 1, NoTask <- NoRequest, Tasks <- Requests,
            open <- serving, nextLane <- 0,
            lane <- outLane, inService <- outService, submitted <- handed

-----------------------------------------------------------------------------
\* "none"  no such task yet        "task"    the worker has not answered
\* "piece" the first piece is out  "handed"  add_response has it
\* "done"  answered, the worker has nothing left to say
\* "freed" deleted                 "leaked"  nobody will delete it
Stages == {"none", "task", "piece", "handed", "done", "freed", "leaked"}

TypeOK ==
  /\ state \in [Conns -> {"new", "open", "closed"}]
  /\ fd \in [Conns -> Fds \cup {NoFd}]
  /\ \A c \in Conns : fd[c] \in Fds <=> state[c] = "open"
  /\ gone \subseteq Conns
  /\ loop \in Conns \cup {NoConn}
  /\ loop # NoConn => state[loop] = "open"
  /\ asker \in [Requests -> Conns \cup {NoConn}]
  /\ taskFd \in [Requests -> Fds \cup {NoFd}]
  /\ stage \in [Requests -> Stages]
  /\ arrivals \in Seq(Requests)
  /\ serving \in BOOLEAN
  /\ nextLane \in 0 .. PoolSize - 1
  /\ lane \in [0 .. PoolSize - 1 -> Seq(Requests)]
  /\ inService \in [0 .. PoolSize - 1 -> Requests \cup {NoRequest}]
  /\ submitted \subseteq Requests
  /\ outLane \in [{0} -> Seq(Requests)]
  /\ outService \in [{0} -> Requests \cup {NoRequest}]
  /\ handed \subseteq Requests
  /\ wire \in [Conns -> Seq(Requests \X {0, 1, 2})]

Init ==
  /\ state = [c \in Conns |-> "new"] /\ fd = [c \in Conns |-> NoFd]
  /\ gone = {} /\ loop = NoConn
  /\ asker = [r \in Requests |-> NoConn] /\ taskFd = [r \in Requests |-> NoFd]
  /\ stage = [r \in Requests |-> "none"] /\ arrivals = <<>>
  /\ Pool!Init /\ Sender!Init
  /\ wire = [c \in Conns |-> <<>>]

-----------------------------------------------------------------------------
(* The event loop.  One callback runs at a time, to its end.               *)

\* net_server::start is through: workers, sender and listening sockets are there.
Start ==
  /\ ~serving
  /\ Pool!Toggle /\ Sender!Toggle
  /\ UNCHANGED <<connVars, taskVars, stage, wire>>

UsedFds == {fd[c] : c \in {k \in Conns : state[k] = "open"}}

\* accept() returns a number no open socket has.
Accept(c, f) ==
  /\ serving /\ loop = NoConn
  /\ state[c] = "new" /\ f \notin UsedFds
  /\ state' = [state EXCEPT ![c] = "open"]
  /\ fd' = [fd EXCEPT ![c] = f]
  /\ UNCHANGED <<gone, loop, taskVars, stage, serving, poolVars, outVars, wire>>

\* The callback of c has read some bytes.
ReadData(c) ==
  /\ loop = NoConn /\ state[c] = "open"
  /\ loop' = c
  /\ UNCHANGED <<state, fd, gone, taskVars, stage, serving, poolVars, outVars, wire>>

\* The bytes hold a whole request: a task is made and given to the pool.
HandleData(r) ==
  /\ loop # NoConn
  /\ Pool!Submit(r)
  /\ asker' = [asker EXCEPT ![r] = loop]
  /\ taskFd' = [taskFd EXCEPT ![r] = fd[loop]]
  /\ stage' = [stage EXCEPT ![r] = "task"]
  /\ arrivals' = Append(arrivals, r)
  /\ UNCHANGED <<connVars, outVars, wire>>

\* No whole request is left in the buffer.
EndData ==
  /\ loop # NoConn
  /\ loop' = NoConn
  /\ UNCHANGED <<state, fd, gone, taskVars, stage, serving, poolVars, outVars, wire>>

PeerCloses(c) ==
  /\ state[c] = "open" /\ c \notin gone
  /\ gone' = gone \cup {c}
  /\ UNCHANGED <<state, fd, loop, taskVars, stage, serving, poolVars, outVars, wire>>

\* Mutant: the socket is closed and the connection object stays in use.
CloseConn_NoDelete(c) ==
  /\ loop = NoConn /\ state[c] = "open" /\ c \in gone
  /\ fd' = [fd EXCEPT ![c] = NoFd]
  /\ UNCHANGED <<state, gone, loop, taskVars, stage, serving, poolVars, outVars, wire>>

\* The callback of c has read the end of the stream, or an error: delete conn,
\* which closes the socket whatever tasks still carry its number.
CloseConn(c) ==
  /\ loop = NoConn /\ state[c] = "open" /\ c \in gone
  /\ state' = [state EXCEPT ![c] = "closed"]
  /\ fd' = [fd EXCEPT ![c] = NoFd]
  /\ UNCHANGED <<gone, loop, taskVars, stage, serving, poolVars, outVars, wire>>

-----------------------------------------------------------------------------
(* Writing to a socket number.                                             *)

Behind(r) == {c \in Conns : state[c] = "open" /\ fd[c] = taskFd[r]}

\* What is written to a connection whose other end has closed is lost.
Write(r, piece) ==
  \E c \in Behind(r) :
    wire' = IF c \in gone THEN wire
                          ELSE [wire EXCEPT ![c] = Append(@, <<r, piece>>)]

\* The number stands for no socket, or for one whose other end has closed.
WriteFails(r) == Behind(r) \subseteq gone /\ UNCHANGED wire

-----------------------------------------------------------------------------
(* A worker.                                                               *)

\* Mutant: the worker takes the newest task.
TakeTask_Newest(l) ==
  /\ inService[l] = NoRequest /\ lane[l] # <<>>
  /\ inService' = [inService EXCEPT ![l] = lane[l][Len(lane[l])]]
  /\ lane' = [lane EXCEPT ![l] = SubSeq(@, 1, Len(@) - 1)]
  /\ UNCHANGED <<connVars, taskVars, stage, serving, nextLane, submitted,
                  outVars, wire>>

TakeTask(l) ==
  /\ Pool!Begin(l)
  /\ UNCHANGED <<connVars, taskVars, stage, outVars, wire>>

IsHttp(r) == asker[r] \in HttpConns

Answering(l) == inService[l] # NoRequest /\ stage[inService[l]] = "task"

\* A handler has written its answer over the request and gives the task away; it
\* may have more to do (refresh a cache) before it returns.
AddResponse(l) ==
  /\ Answering(l) /\ ~IsHttp(inService[l])
  /\ Sender!Submit(inService[l])
  /\ stage' = [stage EXCEPT ![inService[l]] = "handed"]
  /\ UNCHANGED <<connVars, taskVars, poolVars, wire>>

\* A handler that has no answer to give deletes the task.
Discard(l) ==
  /\ Answering(l) /\ ~IsHttp(inService[l])
  /\ stage' = [stage EXCEPT ![inService[l]] = "freed"]
  /\ UNCHANGED <<connVars, taskVars, serving, poolVars, outVars, wire>>

\* http_response: the header, then the body, straight to the socket.  Any send of
\* something, a part too, counts as the header sent; a socket that takes nothing
\* just now ends the answer as an error does.
SendHead(l) ==
  /\ Answering(l) /\ IsHttp(inService[l])
  /\ \/ /\ \E piece \in {0, 1} : Write(inService[l], piece)
        /\ stage' = [stage EXCEPT ![inService[l]] = "piece"]
     \/ /\ UNCHANGED wire
        /\ stage' = [stage EXCEPT ![inService[l]] = "done"]
  /\ UNCHANGED <<connVars, taskVars, serving, poolVars, outVars>>

\* The body is sent until the socket has taken all, or there is an error.
SendBody(l) ==
  /\ inService[l] # NoRequest /\ stage[inService[l]] = "piece"
  /\ IsHttp(inService[l])
  /\ Write(inService[l], 2) \/ WriteFails(inService[l])
  /\ stage' = [stage EXCEPT ![inService[l]] = "done"]
  /\ UNCHANGED <<connVars, taskVars, serving, poolVars, outVars>>

\* Mutant: the body is not sent when the socket is not ready for it.
Return_MidAnswer(l) ==
  /\ inService[l] # NoRequest
  /\ Pool!End(l)
  /\ stage' = IF stage[inService[l]] \in {"task", "done"}
                THEN [stage EXCEPT ![inService[l]] = "leaked"] ELSE stage
  /\ UNCHANGED <<connVars, taskVars, outVars, wire>>

\* Mutant: task_thread::run deletes the task after run().
Return_Deletes(l) ==
  /\ inService[l] # NoRequest
  /\ stage[inService[l]] = "piece" => ~IsHttp(inService[l])
  /\ Pool!End(l)
  /\ stage' = [stage EXCEPT ![inService[l]] = "freed"]
  /\ UNCHANGED <<connVars, taskVars, outVars, wire>>

\* The handler returns.  One that left through an error path has neither answered
\* nor deleted the task; a task made from an HTTP request is never deleted.
Return(l) ==
  /\ inService[l] # NoRequest
  /\ stage[inService[l]] = "piece" => ~IsHttp(inService[l])
  /\ Pool!End(l)
  /\ stage' = IF stage[inService[l]] \in {"task", "done"}
                THEN [stage EXCEPT ![inService[l]] = "leaked"] ELSE stage
  /\ UNCHANGED <<connVars, taskVars, outVars, wire>>

-----------------------------------------------------------------------------
(* The send_thread.                                                        *)

TakeAnswer ==
  /\ Sender!Begin(0)
  /\ UNCHANGED <<connVars, taskVars, stage, poolVars, wire>>

\* Mutant: an answer the socket does not take whole goes back to the queue.
SendFirst_Requeues ==
  /\ outService[0] # NoRequest /\ stage[outService[0]] = "handed"
  /\ Write(outService[0], 1)
  /\ stage' = [stage EXCEPT ![outService[0]] = "piece"]
  /\ outLane' = [outLane EXCEPT ![0] = Append(@, outService[0])]
  /\ outService' = [outService EXCEPT ![0] = NoRequest]
  /\ UNCHANGED <<connVars, taskVars, serving, poolVars, handed>>

\* Mutant: what the first ::send does not take is given up.
SendFirst_GivesUp ==
  /\ outService[0] # NoRequest /\ stage[outService[0]] = "handed"
  /\ Write(outService[0], 1)
  /\ Sender!End(0)
  /\ stage' = [stage EXCEPT ![outService[0]] = "freed"]
  /\ UNCHANGED <<connVars, taskVars, poolVars>>

SendFirst ==
  /\ outService[0] # NoRequest /\ stage[outService[0]] = "handed"
  /\ Write(outService[0], 1)
  /\ stage' = [stage EXCEPT ![outService[0]] = "piece"]
  /\ UNCHANGED <<connVars, taskVars, serving, poolVars, outVars>>

\* After the last piece, or an error at any piece, the task deletes itself.
SendLast ==
  /\ outService[0] # NoRequest
  /\ \/ stage[outService[0]] = "piece" /\ Write(outService[0], 2)
     \/ WriteFails(outService[0])
  /\ Sender!End(0)
  /\ stage' = [stage EXCEPT ![outService[0]] = "freed"]
  /\ UNCHANGED <<connVars, taskVars, poolVars>>

-----------------------------------------------------------------------------
EventLoop == \/ Start
             \/ \E c \in Conns : (\E f \in Fds : Accept(c, f)) \/ ReadData(c)
                                 \/ CloseConn(c)
             \/ \E r \in Requests : HandleData(r)
             \/ EndData

Worker(l) == TakeTask(l) \/ AddResponse(l) \/ Discard(l)
             \/ SendHead(l) \/ SendBody(l) \/ Return(l)

SendThread == TakeAnswer \/ SendFirst \/ SendLast

Next == \/ EventLoop
        \/ \E c \in Conns : PeerCloses(c)
        \/ \E l \in Pool!Lanes : Worker(l)
        \/ SendThread

\* Handlers return and the send_thread goes on (no peer here stops reading).
Fairness == /\ \A l \in Pool!Lanes : WF_vars(Worker(l))
            /\ WF_vars(SendThread)

SafetySpec == Init /\ [][Next]_vars

Spec == SafetySpec /\ Fairness

-----------------------------------------------------------------------------
(* Properties.                                                             *)

\* A piece of an answer is written to another connection than the one that asked
\* only if the one that asked was closed by then: then, and only then, its socket
\* number may stand for somebody else.
AnswersReachAsker ==
  \A c \in Conns : \A i \in 1 .. Len(wire[c]) :
    LET r == wire[c][i][1]
    IN  asker[r] = c \/ state[asker[r]] = "closed"

\* Where the answers to the requests of c stand on its wire; the other places hold
\* what strays to c from others.
Own(c) == {i \in 1 .. Len(wire[c]) : asker[wire[c][i][1]] = c}

\* The worker add_task chose for the k-th request.
WorkerOf(r) ==
  ((CHOOSE k \in 1 .. Len(arrivals) : arrivals[k] = r) - 1) % PoolSize

\* r came before s.
Before(r, s) ==
  \E a, b \in 1 .. Len(arrivals) : a < b /\ arrivals[a] = r /\ arrivals[b] = s

\* Who writes the answer to r: its worker, or the send_thread.
SenderNo == PoolSize
WriterOf(r) == IF IsHttp(r) THEN WorkerOf(r) ELSE SenderNo

\* Where the pieces one thread wrote stand on the wire of c, and which of such
\* places is the next after which.
WrittenBy(c, w) == {i \in 1 .. Len(wire[c]) : WriterOf(wire[c][i][1]) = w}
Follows(P, i, j) == i < j /\ \A k \in P : ~ (i < k /\ k < j)

\* What one thread writes to c comes in whole answers: after the beginning of one
\* it writes nothing but its rest, and no rest without the beginning, but for an
\* answer that strays to c from a client that was closed before its rest was sent.
WholeBy(c, w) ==
  LET P == WrittenBy(c, w)
  IN  \A i \in P :
        LET r == wire[c][i][1]
        IN  /\ wire[c][i][2] # 2 => \A j \in P : Follows(P, i, j) => wire[c][j] = <<r, 2>>
            /\ wire[c][i][2] = 2 /\ asker[r] = c =>
                 \E j \in P : Follows(P, j, i) /\ wire[c][j] \in {<<r, 0>>, <<r, 1>>}

\* On a connection served through the send_thread no answer is cut, or torn by
\* another answer of the send_thread, its own or a stray one, however many workers
\* answer requests at once.  What may come in between is what a worker writes for
\* an HTTP client that was closed and whose number this connection has now.
PbAnswersWhole ==
  \A c \in PbConns :
    /\ WholeBy(c, SenderNo)
    /\ \A i \in WrittenBy(c, SenderNo) : wire[c][i][2] # 0
    /\ \A i \in 1 .. Len(wire[c]) :
         i \in WrittenBy(c, SenderNo) \/ state[asker[wire[c][i][1]]] = "closed"

\* An answer a worker writes on its own is damaged in two ways only: its header is
\* cut by a full socket and the body sent all the same, or another thread writes in
\* between (requests that one client sends without waiting are answered by different
\* workers).  One worker by itself sends no body without its header before it, and
\* nothing else after a header.
HttpBodyFollowsHead ==
  \A c \in Conns : \A l \in Pool!Lanes : WholeBy(c, l)

\* Answers to one connection overtake each other only if different workers gave
\* them: the answers a worker gives leave in the order the requests came.
OrderPerWorker ==
  \A c \in Conns : \A i, j \in Own(c) :
    LET r == wire[c][i][1]
        s == wire[c][j][1]
    IN  i < j /\ r # s /\ WorkerOf(r) = WorkerOf(s) => Before(r, s)

\* No task is used after it was deleted, and none is deleted while a queue still
\* holds it, although the worker that handed a task over may still be inside the
\* handler: the send_thread's tasks are all alive and each is there once.
SenderTasksAlive ==
  \A r \in Requests :
    LET places == (IF outService[0] = r THEN {0} ELSE {})
                  \cup {i \in 1 .. Len(outLane[0]) : outLane[0][i] = r}
    IN  /\ places # {} => stage[r] \in {"handed", "piece"}
        /\ \A i, j \in places : i = j
        /\ stage[r] = "handed" => places # {}

\* Every protobuf request given to the pool is answered whole, unless its client has
\* gone, or its handler gave no answer.  (An HTTP answer ends with its header, or
\* before, when the socket is full just then.)
RequestsEnd ==
  \A r \in Requests :
    r \in submitted /\ ~IsHttp(r) ~>
      \/ \E c \in Conns : \E i \in 1 .. Len(wire[c]) :
           asker[r] = c /\ wire[c][i] = <<r, 2>>
      \/ asker[r] \in gone
      \/ stage[r] \in {"freed", "leaked"} /\ r \notin handed
=============================================================================
