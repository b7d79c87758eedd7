-------------------------- MODULE RequestPathProofs --------------------------
(***************************************************************************)
(* Proofs about RequestPath, for every number of workers, requests,        *)
(* connections and socket numbers: types; whose the answers are; the order *)
(* in which requests wait and answers leave; what the clients see of it.   *)
(***************************************************************************)
EXTENDS RequestPath, TLAPS

USE PathAssumption DEF PathAssumption, Conns, Pool!Lanes, Sender!Lanes

\* Whatever a queue, a worker or the sender holds was submitted, and so was what
\* stands on the wire.
Known ==
  /\ \A l \in Pool!Lanes : inService[l] \in submitted \cup {NoRequest}
  /\ \A l \in Pool!Lanes : \A i \in 1 .. Len(lane[l]) : lane[l][i] \in submitted
  /\ outService[0] \in submitted \cup {NoRequest}
  /\ \A i \in 1 .. Len(outLane[0]) : outLane[0][i] \in submitted
  /\ \A c \in Conns : \A i \in 1 .. Len(wire[c]) : wire[c][i][1] \in submitted

\* No two open connections have the same number.
FdsDistinct ==
  \A c, d \in Conns : state[c] = "open" /\ state[d] = "open" /\ fd[c] = fd[d] => c = d

\* While the connection that asked is open, its number is the one the task has.
TaskKnowsAsker ==
  \A r \in submitted : /\ asker[r] \in Conns
                       /\ state[asker[r]] \in {"open", "closed"}
                       /\ state[asker[r]] = "open" => fd[asker[r]] = taskFd[r]

IInv == TypeOK /\ Known /\ FdsDistinct /\ TaskKnowsAsker /\ AnswersReachAsker

-----------------------------------------------------------------------------
(* One write.                                                              *)

\* A write leaves the types alone and puts at most one piece, of the request it
\* is about, on connections whose number is the task's.
LEMMA WriteShape ==
  ASSUME TypeOK, NEW r \in Requests, NEW p \in {0, 1, 2}, Write(r, p) \/ UNCHANGED wire
  PROVE  /\ wire' \in [Conns -> Seq(Requests \X {0, 1, 2})]
         /\ \A c \in Conns : \A i \in 1 .. Len(wire'[c]) :
              \/ i \in 1 .. Len(wire[c]) /\ wire'[c][i] = wire[c][i]
              \/ wire'[c][i] = <<r, p>> /\ c \in Behind(r)
<1>1. CASE wire' = wire
  BY <1>1 DEF TypeOK
<1>2. CASE wire' # wire
  <2>1. PICK c \in Behind(r) : wire' = [wire EXCEPT ![c] = Append(@, <<r, p>>)]
    BY <1>2 DEF Write
  <2>2. c \in Conns /\ <<r, p>> \in Requests \X {0, 1, 2}
    BY DEF Behind
  <2>3. wire[c] \in Seq(Requests \X {0, 1, 2})
    BY <2>2 DEF TypeOK
  <2>4. /\ Append(wire[c], <<r, p>>) \in Seq(Requests \X {0, 1, 2})
        /\ Len(Append(wire[c], <<r, p>>)) = Len(wire[c]) + 1
        /\ \A i \in 1 .. Len(wire[c]) : Append(wire[c], <<r, p>>)[i] = wire[c][i]
        /\ Append(wire[c], <<r, p>>)[Len(wire[c]) + 1] = <<r, p>>
    BY <2>2, <2>3
  <2>5. wire' \in [Conns -> Seq(Requests \X {0, 1, 2})]
    BY <2>1, <2>2, <2>4 DEF TypeOK
  <2>6. ASSUME NEW d \in Conns, NEW i \in 1 .. Len(wire'[d])
        PROVE  \/ i \in 1 .. Len(wire[d]) /\ wire'[d][i] = wire[d][i]
               \/ wire'[d][i] = <<r, p>> /\ d \in Behind(r)
    <3>1. CASE d # c
      BY <2>1, <2>6, <3>1 DEF TypeOK
    <3>2. CASE d = c
      <4>1. wire'[d] = Append(wire[c], <<r, p>>)
        BY <2>1, <2>2, <3>2 DEF TypeOK
      <4>2. i \in 1 .. Len(wire[c]) \/ i = Len(wire[c]) + 1
        BY <2>3, <2>4, <2>6, <4>1
      <4> QED BY <2>1, <2>4, <3>2, <4>1, <4>2
    <3> QED BY <3>1, <3>2
  <2> QED BY <2>5, <2>6
<1> QED BY <1>1, <1>2

\* A write reaches the asker, or the asker is closed.
LEMMA WriteReaches ==
  ASSUME IInv, NEW r \in submitted, NEW p \in {0, 1, 2}, Write(r, p) \/ UNCHANGED wire,
         UNCHANGED <<state, fd, asker, submitted>>
  PROVE  /\ AnswersReachAsker'
         /\ \A c \in Conns : \A i \in 1 .. Len(wire'[c]) : wire'[c][i][1] \in submitted
<1>1. r \in Requests
  BY DEF IInv, TypeOK
<1>2. ASSUME NEW c \in Conns, NEW i \in 1 .. Len(wire'[c])
      PROVE  /\ asker[wire'[c][i][1]] = c \/ state[asker[wire'[c][i][1]]] = "closed"
             /\ wire'[c][i][1] \in submitted
  <2>1. CASE i \in 1 .. Len(wire[c]) /\ wire'[c][i] = wire[c][i]
    BY <2>1 DEF IInv, AnswersReachAsker, Known
  <2>2. CASE wire'[c][i] = <<r, p>> /\ c \in Behind(r)
    <3>1. state[c] = "open" /\ fd[c] = taskFd[r]
      BY <2>2 DEF Behind
    <3>2. asker[r] = c \/ state[asker[r]] = "closed"
      BY <3>1 DEF IInv, FdsDistinct, TaskKnowsAsker
    <3> QED BY <2>2, <3>2
  <2> QED BY <1>1, <1>2, <2>1, <2>2, WriteShape DEF IInv
<1> QED BY <1>2 DEF AnswersReachAsker

-----------------------------------------------------------------------------
(* Types, and what the queues hold.                                        *)

LEMMA InitType == Init => TypeOK /\ Known
<1> SUFFICES ASSUME Init PROVE TypeOK /\ Known
    OBVIOUS
<1> USE DEF Init, Pool!Init, Sender!Init
<1>1. \A S : <<>> \in Seq(S)
  OBVIOUS
<1>2. /\ lane = [l \in 0 .. PoolSize - 1 |-> <<>>]
      /\ inService = [l \in 0 .. PoolSize - 1 |-> NoRequest]
      /\ outLane[0] = <<>> /\ outService[0] = NoRequest
      /\ outLane \in [{0} -> Seq(Requests)]
      /\ outService \in [{0} -> Requests \cup {NoRequest}]
      /\ nextLane \in 0 .. PoolSize - 1
  BY <1>1
<1>3. TypeOK
  BY <1>1, <1>2 DEF TypeOK, Stages
<1>4. Known
  BY <1>2 DEF Known
<1> QED BY <1>3, <1>4

\* Taking the first of a sequence leaves elements of the sequence.
LEMMA TailOf ==
  ASSUME NEW S, NEW q \in Seq(S), q # <<>>
  PROVE  /\ Head(q) \in S /\ Head(q) = q[1] /\ 1 \in 1 .. Len(q)
         /\ Tail(q) \in Seq(S)
         /\ \A i \in 1 .. Len(Tail(q)) : Tail(q)[i] = q[i + 1] /\ i + 1 \in 1 .. Len(q)
  OBVIOUS

LEMMA AppendTo ==
  ASSUME NEW S, NEW q \in Seq(S), NEW e \in S
  PROVE  /\ Append(q, e) \in Seq(S)
         /\ \A i \in 1 .. Len(Append(q, e)) :
              Append(q, e)[i] = e \/ (i \in 1 .. Len(q) /\ Append(q, e)[i] = q[i])
  OBVIOUS

LEMMA HandleDataType ==
  ASSUME TypeOK, Known, NEW r \in Requests, HandleData(r)
  PROVE  TypeOK' /\ Known'
<1> USE DEF TypeOK, connVars, taskVars, outVars
<1>1. /\ loop \in Conns /\ fd[loop] \in Fds /\ r \notin submitted
      /\ nextLane \in Pool!Lanes
      /\ submitted' = submitted \cup {r}
      /\ lane' = [lane EXCEPT ![nextLane] = Append(@, r)]
      /\ nextLane' = Pool!After(nextLane)
      /\ UNCHANGED <<serving, inService, connVars, outVars, wire>>
  BY DEF HandleData, Pool!Submit
<1>2. nextLane' \in 0 .. PoolSize - 1
  BY <1>1 DEF Pool!After
<1>3. /\ lane' \in [Pool!Lanes -> Seq(Requests)]
      /\ \A l \in Pool!Lanes : \A i \in 1 .. Len(lane'[l]) :
           lane'[l][i] = r \/ (i \in 1 .. Len(lane[l]) /\ lane'[l][i] = lane[l][i])
  <2>1. lane[nextLane] \in Seq(Requests)
    BY <1>1
  <2> HIDE DEF Pool!Lanes
  <2> QED BY <1>1, <2>1, AppendTo DEF Pool!Lanes
<1>4. /\ asker' \in [Requests -> Conns \cup {NoConn}]
      /\ taskFd' \in [Requests -> Fds \cup {NoFd}]
      /\ stage' \in [Requests -> Stages]
      /\ arrivals' \in Seq(Requests)
  BY <1>1 DEF HandleData, Stages
<1>5. TypeOK'
  BY <1>1, <1>2, <1>3, <1>4
<1> HIDE DEF TypeOK
<1>6. Known'
  BY <1>1, <1>3 DEF Known
<1> QED BY <1>5, <1>6

LEMMA LoopType ==
  ASSUME TypeOK, Known,
         Start \/ EndData \/ \E c \in Conns : \/ \E f \in Fds : Accept(c, f)
                                              \/ ReadData(c)
                                              \/ CloseConn(c)
                                              \/ PeerCloses(c)
  PROVE  TypeOK' /\ Known'
<1> USE DEF TypeOK, connVars, taskVars, outVars, poolVars
<1>1. CASE Start
  BY <1>1 DEF Start, Pool!Toggle, Sender!Toggle, Known
<1>2. CASE EndData
  BY <1>2 DEF EndData, Known
<1>3. ASSUME NEW c \in Conns, NEW f \in Fds, Accept(c, f) PROVE TypeOK' /\ Known'
  BY <1>3 DEF Accept, Known
<1>4. ASSUME NEW c \in Conns, ReadData(c) PROVE TypeOK' /\ Known'
  BY <1>4 DEF ReadData, Known
<1>5. ASSUME NEW c \in Conns, CloseConn(c) PROVE TypeOK' /\ Known'
  BY <1>5 DEF CloseConn, Known
<1>6. ASSUME NEW c \in Conns, PeerCloses(c) PROVE TypeOK' /\ Known'
  BY <1>6 DEF PeerCloses, Known
<1> HIDE DEF TypeOK
<1> QED BY <1>1, <1>2, <1>3, <1>4, <1>5, <1>6

\* What a write adds to the wire is about a request already submitted.
LEMMA WriteType ==
  ASSUME TypeOK, Known, NEW r \in submitted, NEW p \in {0, 1, 2},
         Write(r, p) \/ UNCHANGED wire
  PROVE  /\ wire' \in [Conns -> Seq(Requests \X {0, 1, 2})]
         /\ \A c \in Conns : \A i \in 1 .. Len(wire'[c]) : wire'[c][i][1] \in submitted
<1>1. r \in Requests
  BY DEF TypeOK
<1>2. /\ wire' \in [Conns -> Seq(Requests \X {0, 1, 2})]
      /\ \A c \in Conns : \A i \in 1 .. Len(wire'[c]) :
           \/ i \in 1 .. Len(wire[c]) /\ wire'[c][i] = wire[c][i]
           \/ wire'[c][i] = <<r, p>> /\ c \in Behind(r)
  BY <1>1, WriteShape
<1>3. <<r, p>>[1] = r
  OBVIOUS
<1> QED BY <1>2, <1>3 DEF Known

LEMMA WorkerType ==
  ASSUME TypeOK, Known, NEW l \in Pool!Lanes, Worker(l)
  PROVE  TypeOK' /\ Known'
<1> USE DEF connVars, taskVars, outVars, poolVars
<1>1. CASE TakeTask(l)
  <2>1. /\ lane[l] \in Seq(Requests) /\ lane[l] # <<>>
        /\ lane' = [lane EXCEPT ![l] = Tail(@)]
        /\ inService' = [inService EXCEPT ![l] = Head(lane[l])]
        /\ UNCHANGED <<connVars, taskVars, stage, outVars, wire, serving, nextLane,
                        submitted>>
    BY <1>1 DEF TakeTask, Pool!Begin, TypeOK
  <2>2. TypeOK'
    BY <2>1, TailOf DEF TypeOK
  <2>3. Known'
    BY <2>1, TailOf DEF TypeOK, Known
  <2> QED BY <2>2, <2>3
<1>2. CASE AddResponse(l)
  <2>1. /\ inService[l] \in submitted /\ inService[l] \in Requests
        /\ outLane[0] \in Seq(Requests)
        /\ outLane' = [outLane EXCEPT ![0] = Append(@, inService[l])]
        /\ handed' = handed \cup {inService[l]}
        /\ stage' = [stage EXCEPT ![inService[l]] = "handed"]
        /\ UNCHANGED <<connVars, taskVars, poolVars, wire, serving, outService>>
    BY <1>2 DEF AddResponse, Answering, Sender!Submit, TypeOK, Known
  <2>2. TypeOK'
    BY <2>1, AppendTo DEF TypeOK, Stages
  <2>3. /\ outLane'[0] = Append(outLane[0], inService[l])
        /\ outService' = outService
    BY <2>1 DEF TypeOK
  <2>4. \A i \in 1 .. Len(outLane'[0]) : outLane'[0][i] \in submitted
    BY <2>1, <2>3, AppendTo DEF Known
  <2>5. Known'
    BY <2>1, <2>4 DEF Known
  <2> QED BY <2>2, <2>5
<1>3. CASE Discard(l)
  BY <1>3 DEF Discard, Answering, TypeOK, Known, Stages
<1>4. CASE SendHead(l) \/ SendBody(l)
  <2>1. /\ inService[l] \in submitted
        /\ \E p \in {0, 1, 2} : Write(inService[l], p) \/ UNCHANGED wire
        /\ stage' \in [Requests -> Stages]
        /\ UNCHANGED <<connVars, taskVars, serving, poolVars, outVars>>
    BY <1>4 DEF SendHead, SendBody, WriteFails, Answering, Known, TypeOK, Stages
  <2>2. /\ wire' \in [Conns -> Seq(Requests \X {0, 1, 2})]
        /\ \A c \in Conns : \A i \in 1 .. Len(wire'[c]) : wire'[c][i][1] \in submitted
    BY <2>1, WriteType
  <2>3. TypeOK'
    BY <2>1, <2>2 DEF TypeOK
  <2>4. Known'
    BY <2>1, <2>2 DEF Known
  <2> QED BY <2>3, <2>4
<1>5. CASE Return(l)
  BY <1>5 DEF Return, Pool!End, TypeOK, Known, Stages
<1> QED BY <1>1, <1>2, <1>3, <1>4, <1>5 DEF Worker

LEMMA SenderType ==
  ASSUME TypeOK, Known, SendThread
  PROVE  TypeOK' /\ Known'
<1> USE DEF connVars, taskVars, outVars, poolVars
<1>1. CASE TakeAnswer
  <2>1. /\ outLane[0] \in Seq(Requests) /\ outLane[0] # <<>>
        /\ outLane' = [outLane EXCEPT ![0] = Tail(@)]
        /\ outService' = [outService EXCEPT ![0] = Head(outLane[0])]
        /\ UNCHANGED <<connVars, taskVars, stage, poolVars, wire, serving, handed>>
    BY <1>1 DEF TakeAnswer, Sender!Begin, TypeOK
  <2>2. TypeOK'
    BY <2>1, TailOf DEF TypeOK
  <2>3. Known'
    BY <2>1, TailOf DEF TypeOK, Known
  <2> QED BY <2>2, <2>3
<1>2. CASE SendFirst \/ SendLast
  <2>1. /\ outService[0] \in submitted
        /\ \E p \in {0, 1, 2} : Write(outService[0], p) \/ UNCHANGED wire
        /\ stage' \in [Requests -> Stages]
        /\ outService' \in [{0} -> Requests \cup {NoRequest}]
        /\ outService'[0] \in {outService[0], NoRequest}
        /\ UNCHANGED <<connVars, taskVars, serving, poolVars, outLane, handed>>
    <3>1. outService[0] \in submitted
      BY <1>2 DEF SendFirst, SendLast, Known
    <3>2. \E p \in {0, 1, 2} : Write(outService[0], p) \/ UNCHANGED wire
      BY <1>2 DEF SendFirst, SendLast, WriteFails
    <3>3. stage' \in [Requests -> Stages]
      <4>1. \E x \in {"piece", "freed"} :
              stage' = [stage EXCEPT ![outService[0]] = x]
        BY <1>2 DEF SendFirst, SendLast
      <4>2. stage \in [Requests -> Stages] /\ {"piece", "freed"} \subseteq Stages
        BY DEF TypeOK, Stages
      <4> QED BY <4>1, <4>2
    <3>4. /\ outService' \in [{0} -> Requests \cup {NoRequest}]
          /\ outService'[0] \in {outService[0], NoRequest}
      <4>1. \/ outService' = outService
            \/ outService' = [outService EXCEPT ![0] = NoRequest]
        BY <1>2 DEF SendFirst, SendLast, Sender!End
      <4>2. outService \in [{0} -> Requests \cup {NoRequest}]
        BY DEF TypeOK
      <4> QED BY <4>1, <4>2
    <3>5. UNCHANGED <<connVars, taskVars, serving, poolVars, outLane, handed>>
      BY <1>2 DEF SendFirst, SendLast, Sender!End
    <3> QED BY <3>1, <3>2, <3>3, <3>4, <3>5
  <2>2. /\ wire' \in [Conns -> Seq(Requests \X {0, 1, 2})]
        /\ \A c \in Conns : \A i \in 1 .. Len(wire'[c]) : wire'[c][i][1] \in submitted
    BY <2>1, WriteType
  <2>3. TypeOK'
    BY <2>1, <2>2 DEF TypeOK
  <2>4. Known'
    BY <2>1, <2>2 DEF Known
  <2> QED BY <2>3, <2>4
<1> QED BY <1>1, <1>2 DEF SendThread

LEMMA NextType == TypeOK /\ Known /\ [Next]_vars => TypeOK' /\ Known'
<1> SUFFICES ASSUME TypeOK, Known, [Next]_vars
             PROVE  TypeOK' /\ Known'
    OBVIOUS
<1>1. CASE UNCHANGED vars
  BY <1>1 DEF vars, connVars, taskVars, poolVars, outVars, TypeOK, Known
<1> QED BY <1>1, HandleDataType, LoopType, WorkerType, SenderType
        DEF Next, EventLoop

\* Every reachable state is well typed.
THEOREM TypeCorrect == SafetySpec => []TypeOK
<1>1. SafetySpec => [](TypeOK /\ Known)
  BY InitType, NextType, PTL DEF SafetySpec
<1> QED BY <1>1, PTL

-----------------------------------------------------------------------------
(* Whose answers reach whom.                                               *)

LEMMA InitIInv == Init => IInv
<1> SUFFICES ASSUME Init PROVE IInv
    OBVIOUS
<1>1. TypeOK /\ Known
  BY InitType
<1>2. FdsDistinct /\ TaskKnowsAsker /\ AnswersReachAsker
  BY DEF Init, Pool!Init, FdsDistinct, TaskKnowsAsker, AnswersReachAsker
<1> QED BY <1>1, <1>2 DEF IInv

ConnInv == FdsDistinct /\ TaskKnowsAsker /\ AnswersReachAsker

\* The steps that leave connections, tasks and wire alone.
LEMMA ConnStutter ==
  ASSUME ConnInv, UNCHANGED <<state, fd, asker, taskFd, submitted, wire>>
  PROVE  ConnInv'
  BY DEF ConnInv, FdsDistinct, TaskKnowsAsker, AnswersReachAsker

\* The steps that may write.
LEMMA ConnWrite ==
  ASSUME IInv, NEW r \in submitted, NEW p \in {0, 1, 2}, Write(r, p) \/ UNCHANGED wire,
         UNCHANGED <<state, fd, asker, taskFd, submitted>>
  PROVE  ConnInv'
<1>1. FdsDistinct' /\ TaskKnowsAsker'
  BY DEF IInv, FdsDistinct, TaskKnowsAsker
<1>2. AnswersReachAsker'
  BY WriteReaches
<1> QED BY <1>1, <1>2 DEF ConnInv

LEMMA AcceptConn ==
  ASSUME IInv, NEW c \in Conns, NEW f \in Fds, Accept(c, f)
  PROVE  ConnInv'
<1>1. /\ state[c] = "new" /\ f \notin UsedFds
      /\ state' = [state EXCEPT ![c] = "open"]
      /\ fd' = [fd EXCEPT ![c] = f]
      /\ UNCHANGED <<asker, taskFd, submitted, wire>>
  BY DEF Accept, taskVars, poolVars
<1>2. state \in [Conns -> {"new", "open", "closed"}] /\ fd \in [Conns -> Fds \cup {NoFd}]
  BY DEF IInv, TypeOK
<1>3. FdsDistinct'
  BY <1>1, <1>2 DEF IInv, FdsDistinct, UsedFds
<1>4. TaskKnowsAsker'
  BY <1>1, <1>2 DEF IInv, TaskKnowsAsker
<1>5. AnswersReachAsker'
  <2> SUFFICES ASSUME NEW d \in Conns, NEW i \in 1 .. Len(wire[d])
               PROVE  \/ asker[wire[d][i][1]] = d
                      \/ state'[asker[wire[d][i][1]]] = "closed"
    BY <1>1 DEF AnswersReachAsker
  <2>1. wire[d][i][1] \in submitted
    BY DEF IInv, Known
  <2>2. asker[wire[d][i][1]] \in Conns
    BY <2>1 DEF IInv, TaskKnowsAsker
  <2>3. \/ asker[wire[d][i][1]] = d
        \/ state[asker[wire[d][i][1]]] = "closed"
    BY DEF IInv, AnswersReachAsker
  <2> QED BY <1>1, <1>2, <2>2, <2>3
<1> QED BY <1>3, <1>4, <1>5 DEF ConnInv

LEMMA CloseOk ==
  ASSUME IInv, NEW c \in Conns, CloseConn(c)
  PROVE  ConnInv'
<1>1. /\ state[c] = "open"
      /\ state' = [state EXCEPT ![c] = "closed"]
      /\ fd' = [fd EXCEPT ![c] = NoFd]
      /\ UNCHANGED <<asker, taskFd, submitted, wire>>
  BY DEF CloseConn, taskVars, poolVars
<1>2. state \in [Conns -> {"new", "open", "closed"}] /\ fd \in [Conns -> Fds \cup {NoFd}]
  BY DEF IInv, TypeOK
<1>3. FdsDistinct'
  BY <1>1, <1>2 DEF IInv, FdsDistinct
<1>4. TaskKnowsAsker'
  BY <1>1, <1>2 DEF IInv, TaskKnowsAsker
<1>5. AnswersReachAsker'
  BY <1>1, <1>2 DEF IInv, AnswersReachAsker
<1> QED BY <1>3, <1>4, <1>5 DEF ConnInv

LEMMA HandleDataOk ==
  ASSUME IInv, NEW r \in Requests, HandleData(r)
  PROVE  ConnInv'
<1>1. /\ loop \in Conns /\ state[loop] = "open" /\ r \notin submitted
      /\ submitted' = submitted \cup {r}
      /\ asker' = [asker EXCEPT ![r] = loop]
      /\ taskFd' = [taskFd EXCEPT ![r] = fd[loop]]
      /\ UNCHANGED <<state, fd, wire>>
  BY DEF HandleData, Pool!Submit, connVars, IInv, TypeOK
<1>2. /\ asker \in [Requests -> Conns \cup {NoConn}]
      /\ taskFd \in [Requests -> Fds \cup {NoFd}]
      /\ submitted \subseteq Requests
  BY DEF IInv, TypeOK
<1>3. FdsDistinct'
  BY <1>1 DEF IInv, FdsDistinct
<1>4. TaskKnowsAsker'
  BY <1>1, <1>2 DEF IInv, TaskKnowsAsker
<1>5. AnswersReachAsker'
  <2> SUFFICES ASSUME NEW d \in Conns, NEW i \in 1 .. Len(wire[d])
               PROVE  \/ asker'[wire[d][i][1]] = d
                      \/ state[asker'[wire[d][i][1]]] = "closed"
    BY <1>1 DEF AnswersReachAsker
  <2>1. wire[d][i][1] \in submitted
    BY DEF IInv, Known
  <2>2. asker'[wire[d][i][1]] = asker[wire[d][i][1]]
    BY <1>1, <1>2, <2>1
  <2> QED BY <2>2 DEF IInv, AnswersReachAsker
<1> QED BY <1>3, <1>4, <1>5 DEF ConnInv

LEMMA WorkerOk ==
  ASSUME IInv, NEW l \in Pool!Lanes, Worker(l)
  PROVE  ConnInv'
<1> USE DEF connVars, taskVars, poolVars
<1>1. CASE TakeTask(l) \/ AddResponse(l) \/ Discard(l) \/ Return(l)
  <2>1. UNCHANGED <<state, fd, asker, taskFd, submitted, wire>>
    BY <1>1 DEF TakeTask, AddResponse, Discard, Return, Pool!Begin, Pool!End
  <2> QED BY <2>1, ConnStutter DEF IInv, ConnInv
<1>2. CASE SendHead(l) \/ SendBody(l)
  <2>1. /\ inService[l] \in submitted
        /\ \E p \in {0, 1, 2} : Write(inService[l], p) \/ UNCHANGED wire
        /\ UNCHANGED <<state, fd, asker, taskFd, submitted>>
    BY <1>2 DEF SendHead, SendBody, WriteFails, Answering, IInv, Known
  <2> QED BY <2>1, ConnWrite
<1> QED BY <1>1, <1>2 DEF Worker

LEMMA SenderOk ==
  ASSUME IInv, SendThread
  PROVE  ConnInv'
<1> USE DEF connVars, taskVars, poolVars
<1>1. CASE TakeAnswer
  <2>1. UNCHANGED <<state, fd, asker, taskFd, submitted, wire>>
    BY <1>1 DEF TakeAnswer
  <2> QED BY <2>1, ConnStutter DEF IInv, ConnInv
<1>2. CASE SendFirst \/ SendLast
  <2>1. /\ outService[0] \in submitted
        /\ \E p \in {0, 1, 2} : Write(outService[0], p) \/ UNCHANGED wire
        /\ UNCHANGED <<state, fd, asker, taskFd, submitted>>
    BY <1>2 DEF SendFirst, SendLast, WriteFails, IInv, Known
  <2> QED BY <2>1, ConnWrite
<1> QED BY <1>1, <1>2 DEF SendThread

LEMMA NextIInv == IInv /\ [Next]_vars => IInv'
<1> SUFFICES ASSUME IInv, [Next]_vars
             PROVE  IInv'
    OBVIOUS
<1>1. TypeOK' /\ Known'
  BY NextType DEF IInv
<1>2. ASSUME Start \/ EndData \/ (\E c \in Conns : ReadData(c) \/ PeerCloses(c))
             \/ UNCHANGED vars
      PROVE  ConnInv'
  <2>1. UNCHANGED <<state, fd, asker, taskFd, submitted, wire>>
    BY <1>2 DEF Start, EndData, ReadData, PeerCloses, Pool!Toggle, vars, connVars,
       taskVars, poolVars
  <2> QED BY <2>1, ConnStutter DEF IInv, ConnInv
<1>3. ConnInv'
  BY <1>2, AcceptConn, CloseOk, HandleDataOk, WorkerOk, SenderOk DEF Next, EventLoop
<1> QED BY <1>1, <1>3 DEF IInv, ConnInv

\* Whatever connections open and close while requests are on their way, an answer
\* goes to another connection only if the one that asked was closed.
THEOREM ReachAsker == SafetySpec => []AnswersReachAsker
<1>1. SafetySpec => []IInv
  BY InitIInv, NextIInv, PTL DEF SafetySpec
<1>2. IInv => AnswersReachAsker
  BY DEF IInv
<1> QED BY <1>1, <1>2, PTL

-----------------------------------------------------------------------------
(* The order in which requests wait, for the workers and for the sender.   *)

Waits(q, r) == \E i \in 1 .. Len(q) : q[i] = r

\* Every request arrives once, and the next goes to the next worker.
Arrived ==
  /\ \A a, b \in 1 .. Len(arrivals) : arrivals[a] = arrivals[b] => a = b
  /\ submitted = {arrivals[a] : a \in 1 .. Len(arrivals)}
  /\ nextLane = Len(arrivals) % PoolSize

\* What waits for worker l is its own, in the order of arrival, and behind what
\* it works on; it takes up nothing before all that came earlier is through.
LaneOrdered(l) ==
  /\ \A i \in 1 .. Len(lane[l]) : WorkerOf(lane[l][i]) = l /\ stage[lane[l][i]] = "task"
  /\ \A i, j \in 1 .. Len(lane[l]) : i < j => Before(lane[l][i], lane[l][j])
  /\ inService[l] # NoRequest =>
       /\ WorkerOf(inService[l]) = l
       /\ \A i \in 1 .. Len(lane[l]) : Before(inService[l], lane[l][i])
  /\ \A r, s \in submitted :
       /\ Before(r, s) /\ WorkerOf(r) = l /\ WorkerOf(s) = l
       /\ Waits(lane[l], r) \/ inService[l] = r
       => Waits(lane[l], s)
LanesOrdered == \A l \in Pool!Lanes : LaneOrdered(l)

\* r may wait for the sender ahead of s.
Ahead(r, s) == r # s /\ (WorkerOf(r) = WorkerOf(s) => Before(r, s))

\* The same of the answers that wait for the sender, of each worker's.
OutOrdered ==
  /\ \A i \in 1 .. Len(outLane[0]) :
       outLane[0][i] \in handed /\ stage[outLane[0][i]] = "handed"
  /\ \A i, j \in 1 .. Len(outLane[0]) : i < j => Ahead(outLane[0][i], outLane[0][j])
  /\ outService[0] # NoRequest =>
       /\ outService[0] \in handed /\ stage[outService[0]] \in {"handed", "piece"}
       /\ \A i \in 1 .. Len(outLane[0]) : Ahead(outService[0], outLane[0][i])
  /\ \A r, s \in handed :
       /\ Before(r, s) /\ WorkerOf(r) = WorkerOf(s)
       /\ Waits(outLane[0], r) \/ outService[0] = r
       => Waits(outLane[0], s)

\* Where a request is, by how far its answer is.
Placed ==
  /\ handed \subseteq submitted
  /\ \A r \in handed : ~IsHttp(r) /\ stage[r] \in {"handed", "piece", "freed"}
  /\ \A r \in Requests : stage[r] = "none" <=> r \notin submitted
  /\ \A r \in Requests :
       /\ stage[r] = "handed" => r \in handed /\ (outService[0] = r \/ Waits(outLane[0], r))
       /\ stage[r] = "piece" /\ IsHttp(r) => inService[WorkerOf(r)] = r
       /\ stage[r] = "piece" /\ ~IsHttp(r) => outService[0] = r

Ordered == Arrived /\ LanesOrdered /\ OutOrdered /\ Placed

-----------------------------------------------------------------------------
(* The rotation.                                                           *)

LEMMA Euclid ==
  ASSUME NEW n \in Nat
  PROVE  /\ n = PoolSize * (n \div PoolSize) + (n % PoolSize)
         /\ n \div PoolSize \in Int /\ n % PoolSize \in Pool!Lanes
  OBVIOUS

LEMMA OneRemainder ==
  ASSUME NEW q \in Int, NEW k \in Int, NEW a \in Pool!Lanes, NEW b \in Pool!Lanes,
         PoolSize * q + a = PoolSize * k + b
  PROVE  a = b
<1>1. PoolSize * (q - k) = b - a
  BY Z3
<1>2. CASE q - k >= 1
  <2>1. PoolSize * (q - k) >= PoolSize
    BY <1>2, Z3
  <2> QED BY <2>1, <1>1
<1>3. CASE q - k <= -1
  <2>1. PoolSize * (q - k) <= -PoolSize
    BY <1>3, Z3
  <2> QED BY <2>1, <1>1
<1>4. CASE q = k
  BY <1>4, <1>1
<1> QED BY <1>2, <1>3, <1>4

\* add_task counts round the workers.
LEMMA Rotation ==
  ASSUME NEW n \in Nat
  PROVE  (n + 1) % PoolSize = Pool!After(n % PoolSize)
<1> DEFINE a == n % PoolSize
           q == n \div PoolSize
           b == (n + 1) % PoolSize
           k == (n + 1) \div PoolSize
<1>1. n = PoolSize * q + a /\ q \in Int /\ a \in Pool!Lanes
  BY Euclid
<1>2. n + 1 = PoolSize * k + b /\ k \in Int /\ b \in Pool!Lanes
  BY Euclid
<1> HIDE DEF a, b, q, k
<1>3. CASE a + 1 = PoolSize
  <2>1. PoolSize * (q + 1) = PoolSize * q + PoolSize
    BY <1>1
  <2>2. PoolSize * (q + 1) + 0 = PoolSize * k + b
    BY <1>1, <1>2, <1>3, <2>1
  <2>3. 0 = b
    BY <2>2, <1>1, <1>2, OneRemainder
  <2> QED BY <2>3, <1>3 DEF a, b, Pool!After
<1>4. CASE a + 1 # PoolSize
  <2>1. PoolSize * q + (a + 1) = PoolSize * k + b /\ a + 1 \in Pool!Lanes
    BY <1>1, <1>2, <1>4
  <2>2. a + 1 = b
    BY <2>1, <1>1, <1>2, OneRemainder
  <2> QED BY <2>2, <1>4 DEF a, b, Pool!After
<1> QED BY <1>3, <1>4

-----------------------------------------------------------------------------
(* Before and WorkerOf.                                                    *)

LEMMA WorkerIs ==
  ASSUME TypeOK, Arrived, NEW a \in 1 .. Len(arrivals)
  PROVE  WorkerOf(arrivals[a]) = (a - 1) % PoolSize
<1>1. (CHOOSE k \in 1 .. Len(arrivals) : arrivals[k] = arrivals[a]) = a
  BY DEF Arrived
<1> QED BY <1>1 DEF WorkerOf

\* Of two requests one came before the other.
LEMMA BeforeIs ==
  ASSUME TypeOK, Arrived
  PROVE  /\ \A r \in submitted : WorkerOf(r) \in Pool!Lanes
         /\ \A r, s \in submitted : r # s => Before(r, s) \/ Before(s, r)
         /\ \A r, s : Before(r, s) =>
              r \in submitted /\ s \in submitted /\ r # s /\ ~Before(s, r)
<1>0. Len(arrivals) \in Nat
  BY DEF TypeOK
<1>1. ASSUME NEW r \in submitted
      PROVE  \E a \in 1 .. Len(arrivals) : arrivals[a] = r
  BY DEF Arrived
<1>2. ASSUME NEW r \in submitted PROVE WorkerOf(r) \in Pool!Lanes
  <2>1. PICK a \in 1 .. Len(arrivals) : arrivals[a] = r
    BY <1>1
  <2>2. WorkerOf(r) = (a - 1) % PoolSize /\ a - 1 \in Nat
    BY <2>1, <1>0, WorkerIs
  <2> QED BY <2>2, Euclid
<1>3. ASSUME NEW r \in submitted, NEW s \in submitted, r # s
      PROVE  Before(r, s) \/ Before(s, r)
  <2>1. PICK a \in 1 .. Len(arrivals) : arrivals[a] = r
    BY <1>1
  <2>2. PICK b \in 1 .. Len(arrivals) : arrivals[b] = s
    BY <1>1
  <2>3. a < b \/ b < a
    BY <2>1, <2>2, <1>0, <1>3
  <2> QED BY <2>1, <2>2, <2>3 DEF Before
<1>4. ASSUME NEW r, NEW s, Before(r, s)
      PROVE  r \in submitted /\ s \in submitted /\ r # s /\ ~Before(s, r)
  <2>1. PICK a \in 1 .. Len(arrivals), b \in 1 .. Len(arrivals) :
          a < b /\ arrivals[a] = r /\ arrivals[b] = s
    BY <1>4 DEF Before
  <2>2. r \in submitted /\ s \in submitted
    BY <2>1 DEF Arrived
  <2>3. r # s
    BY <2>1, <1>0 DEF Arrived
  <2>4. ASSUME NEW c \in 1 .. Len(arrivals), NEW d \in 1 .. Len(arrivals),
               c < d, arrivals[c] = s, arrivals[d] = r
        PROVE  FALSE
    <3>1. c = b /\ d = a
      BY <2>1, <2>4 DEF Arrived
    <3> QED BY <3>1, <2>1, <2>4, <1>0
  <2> QED BY <2>2, <2>3, <2>4 DEF Before
<1> QED BY <1>2, <1>3, <1>4

\* Both are settled once the requests have arrived.
LEMMA Settled ==
  ASSUME UNCHANGED arrivals
  PROVE  \A r, s : WorkerOf(r)' = WorkerOf(r) /\ (Before(r, s)' <=> Before(r, s))
  BY DEF WorkerOf, Before

-----------------------------------------------------------------------------
(* A request arrives.                                                      *)

LEMMA ArrivalOf ==
  ASSUME TypeOK, Known, Placed, Arrived, NEW r \in Requests, HandleData(r)
  PROVE  /\ r \notin submitted /\ submitted' = submitted \cup {r} /\ r \notin handed
         /\ nextLane \in Pool!Lanes /\ lane' = [lane EXCEPT ![nextLane] = Append(@, r)]
         /\ stage' = [stage EXCEPT ![r] = "task"]
         /\ \A s \in submitted : asker'[s] = asker[s] /\ stage'[s] = stage[s] /\ s # r
         /\ UNCHANGED <<inService, outVars>>
         /\ Arrived'
         /\ \A s \in submitted : WorkerOf(s)' = WorkerOf(s)
         /\ WorkerOf(r)' = nextLane
         /\ \A s, t \in submitted' :
              Before(s, t)' <=> (Before(s, t) \/ (t = r /\ s \in submitted))
<1>1. /\ r \notin submitted /\ submitted' = submitted \cup {r}
      /\ lane' = [lane EXCEPT ![nextLane] = Append(@, r)]
      /\ nextLane' = Pool!After(nextLane) /\ nextLane \in Pool!Lanes
      /\ arrivals' = Append(arrivals, r)
      /\ asker' = [asker EXCEPT ![r] = loop] /\ stage' = [stage EXCEPT ![r] = "task"]
      /\ UNCHANGED <<inService, outVars>>
  BY DEF HandleData, Pool!Submit, TypeOK, outVars
<1>2. /\ Len(arrivals) \in Nat /\ Len(arrivals') = Len(arrivals) + 1
      /\ arrivals'[Len(arrivals) + 1] = r
      /\ \A a \in 1 .. Len(arrivals) : arrivals'[a] = arrivals[a] /\ arrivals[a] \in submitted
  BY <1>1 DEF TypeOK, Arrived
<1>3. Arrived'
  <2>1. \A a, b \in 1 .. Len(arrivals') : arrivals'[a] = arrivals'[b] => a = b
    BY <1>1, <1>2 DEF Arrived
  <2>2. submitted' = {arrivals'[a] : a \in 1 .. Len(arrivals')}
    <3>1. submitted' \subseteq {arrivals'[a] : a \in 1 .. Len(arrivals')}
      <4> SUFFICES ASSUME NEW s \in submitted'
                   PROVE  \E a \in 1 .. Len(arrivals') : arrivals'[a] = s
          OBVIOUS
      <4>1. CASE s = r
        BY <4>1, <1>2
      <4>2. CASE s \in submitted
        <5>1. PICK a \in 1 .. Len(arrivals) : arrivals[a] = s
          BY <4>2 DEF Arrived
        <5>2. a \in 1 .. Len(arrivals') /\ arrivals'[a] = s
          BY <5>1, <1>2
        <5> QED BY <5>2
      <4> QED BY <4>1, <4>2, <1>1
    <3>2. \A a \in 1 .. Len(arrivals') : arrivals'[a] \in submitted'
      <4> SUFFICES ASSUME NEW a \in 1 .. Len(arrivals')
                   PROVE  arrivals'[a] \in submitted'
          OBVIOUS
      <4>1. a = Len(arrivals) + 1 \/ a \in 1 .. Len(arrivals)
        BY <1>2
      <4> QED BY <4>1, <1>1, <1>2
    <3> QED BY <3>1, <3>2
  <2>3. nextLane' = Len(arrivals') % PoolSize
    BY <1>1, <1>2, Rotation DEF Arrived
  <2> QED BY <2>1, <2>2, <2>3 DEF Arrived
<1>4. TypeOK'
  BY HandleDataType
<1>5. ASSUME NEW a \in 1 .. Len(arrivals'), NEW s, arrivals'[a] = s
      PROVE  WorkerOf(s)' = (a - 1) % PoolSize
  <2>1. (CHOOSE k \in 1 .. Len(arrivals') : arrivals'[k] = s) = a
    BY <1>3, <1>5 DEF Arrived
  <2> QED BY <2>1 DEF WorkerOf
<1>6. ASSUME NEW s \in submitted PROVE WorkerOf(s)' = WorkerOf(s)
  <2>1. PICK a \in 1 .. Len(arrivals) : arrivals[a] = s
    BY DEF Arrived
  <2>2. WorkerOf(arrivals[a]) = (a - 1) % PoolSize
    BY WorkerIs
  <2>3. a \in 1 .. Len(arrivals') /\ arrivals'[a] = s
    BY <2>1, <1>2
  <2>4. WorkerOf(s)' = (a - 1) % PoolSize
    BY <2>3, <1>5
  <2> QED BY <2>1, <2>2, <2>3, <2>4
<1>7. WorkerOf(r)' = nextLane
  <2>1. Len(arrivals) + 1 \in 1 .. Len(arrivals')
    BY <1>2
  <2>2. WorkerOf(r)' = (Len(arrivals) + 1 - 1) % PoolSize
    BY <2>1, <1>2, <1>5
  <2>3. Len(arrivals) + 1 - 1 = Len(arrivals)
    BY <1>2
  <2> QED BY <2>2, <2>3, <1>2 DEF Arrived
<1>8. ASSUME NEW s \in submitted', NEW t \in submitted'
      PROVE  Before(s, t)' <=> (Before(s, t) \/ (t = r /\ s \in submitted))
  <2>1. ASSUME NEW a \in 1 .. Len(arrivals'), NEW b \in 1 .. Len(arrivals'),
               a < b, arrivals'[a] = s, arrivals'[b] = t
        PROVE  Before(s, t) \/ (t = r /\ s \in submitted)
    <3>1. a \in 1 .. Len(arrivals) /\ arrivals[a] = s /\ s \in submitted
      BY <2>1, <1>2
    <3>2. CASE b \in 1 .. Len(arrivals)
      BY <2>1, <3>1, <3>2, <1>2 DEF Before
    <3>3. CASE b = Len(arrivals) + 1
      BY <2>1, <3>1, <3>3, <1>2
    <3> QED BY <3>2, <3>3, <1>2
  <2>2. ASSUME Before(s, t) PROVE Before(s, t)'
    <3>1. PICK a \in 1 .. Len(arrivals), b \in 1 .. Len(arrivals) :
            a < b /\ arrivals[a] = s /\ arrivals[b] = t
      BY <2>2 DEF Before
    <3>2. a \in 1 .. Len(arrivals') /\ b \in 1 .. Len(arrivals')
          /\ a < b /\ arrivals'[a] = s /\ arrivals'[b] = t
      BY <3>1, <1>2
    <3> QED BY <3>2 DEF Before
  <2>3. ASSUME t = r, s \in submitted PROVE Before(s, t)'
    <3>1. PICK a \in 1 .. Len(arrivals) : arrivals[a] = s
      BY <2>3 DEF Arrived
    <3>2. a \in 1 .. Len(arrivals') /\ Len(arrivals) + 1 \in 1 .. Len(arrivals')
          /\ a < Len(arrivals) + 1 /\ arrivals'[a] = s /\ arrivals'[Len(arrivals) + 1] = t
      BY <3>1, <2>3, <1>2
    <3> QED BY <3>2 DEF Before
  <2> QED BY <2>1, <2>2, <2>3 DEF Before
<1>9. \A s \in submitted : asker'[s] = asker[s] /\ stage'[s] = stage[s] /\ s # r
  BY <1>1 DEF TypeOK
<1>10. r \notin handed
  BY <1>1 DEF Placed
<1> HIDE DEF Pool!Lanes
<1> QED BY <1>1, <1>3, <1>6, <1>7, <1>8, <1>9, <1>10 DEF Pool!Lanes

LEMMA ArrivalOrdered ==
  ASSUME TypeOK, Known, Ordered, NEW r \in Requests, HandleData(r)
  PROVE  Ordered'
<1> USE DEF Ordered
<1>1. /\ r \notin submitted /\ submitted' = submitted \cup {r} /\ r \notin handed
      /\ nextLane \in Pool!Lanes /\ lane' = [lane EXCEPT ![nextLane] = Append(@, r)]
      /\ stage' = [stage EXCEPT ![r] = "task"]
      /\ \A s \in submitted : asker'[s] = asker[s] /\ stage'[s] = stage[s] /\ s # r
      /\ UNCHANGED <<inService, outVars>>
      /\ Arrived'
      /\ \A s \in submitted : WorkerOf(s)' = WorkerOf(s)
      /\ WorkerOf(r)' = nextLane
      /\ \A s, t \in submitted' :
           Before(s, t)' <=> (Before(s, t) \/ (t = r /\ s \in submitted))
  BY ArrivalOf
<1>2. /\ \A s, t \in submitted : Before(s, t)' <=> Before(s, t)
      /\ \A s \in submitted : Before(s, r)' /\ ~Before(r, s)'
      /\ ~Before(r, r)' /\ submitted \subseteq submitted'
  BY <1>1, BeforeIs
<1> HIDE DEF Ordered
<1>3. ASSUME NEW l \in Pool!Lanes PROVE LaneOrdered(l)'
  <2>0. /\ LaneOrdered(l) /\ lane[l] \in Seq(Requests)
        /\ inService[l] \in submitted \cup {NoRequest} /\ inService' = inService
        /\ \A i \in 1 .. Len(lane[l]) : lane[l][i] \in submitted
    BY <1>1 DEF Ordered, LanesOrdered, Known, TypeOK, outVars
  <2>1. CASE l # nextLane
    <3>1. lane'[l] = lane[l]
      BY <1>1, <2>1 DEF TypeOK
    <3>2. /\ \A i \in 1 .. Len(lane[l]) :
               WorkerOf(lane[l][i])' = l /\ stage'[lane[l][i]] = "task"
          /\ \A i, j \in 1 .. Len(lane[l]) : i < j => Before(lane[l][i], lane[l][j])'
          /\ inService[l] # NoRequest =>
               /\ WorkerOf(inService[l])' = l
               /\ \A i \in 1 .. Len(lane[l]) : Before(inService[l], lane[l][i])'
      BY <2>0, <1>1, <1>2 DEF LaneOrdered
    <3>3. ASSUME NEW s \in submitted', NEW t \in submitted', Before(s, t)',
                 WorkerOf(s)' = l, WorkerOf(t)' = l, Waits(lane[l], s) \/ inService[l] = s
          PROVE  Waits(lane[l], t)
      <4>1. s \in submitted /\ t \in submitted
        BY <3>3, <1>1, <2>1
      <4> QED BY <4>1, <3>3, <2>0, <1>1, <1>2 DEF LaneOrdered
    <3> QED BY <2>0, <3>1, <3>2, <3>3 DEF LaneOrdered, Waits
  <2>2. CASE l = nextLane
    <3>1. /\ Len(lane[l]) \in Nat /\ Len(lane'[l]) = Len(lane[l]) + 1
          /\ \A i \in 1 .. Len(lane[l]) : lane'[l][i] = lane[l][i]
          /\ lane'[l][Len(lane[l]) + 1] = r
      BY <1>1, <2>0, <2>2 DEF TypeOK
    <3>2. \A i \in 1 .. Len(lane'[l]) :
            \/ i \in 1 .. Len(lane[l]) /\ lane'[l][i] = lane[l][i] /\ lane[l][i] \in submitted
            \/ i = Len(lane[l]) + 1 /\ lane'[l][i] = r
      BY <3>1, <2>0
    <3>3. \A i \in 1 .. Len(lane'[l]) :
            WorkerOf(lane[l][i])' = l /\ stage'[lane'[l][i]] = "task"
      <4>1. stage'[r] = "task"
        BY <1>1 DEF TypeOK
      <4> QED BY <4>1, <3>2, <2>0, <2>2, <1>1 DEF LaneOrdered
    <3>4. ASSUME NEW i \in 1 .. Len(lane'[l]), NEW j \in 1 .. Len(lane'[l]), i < j
          PROVE  Before(lane[l][i], lane[l][j])'
      <4>1. /\ i \in 1 .. Len(lane[l]) /\ lane'[l][i] = lane[l][i]
            /\ lane[l][i] \in submitted
        BY <3>1, <3>2, <3>4
      <4>2. CASE j = Len(lane[l]) + 1
        <5>1. lane'[l][j] = r
          BY <3>1, <4>2
        <5> QED BY <1>2, <4>1, <5>1
      <4>3. CASE j \in 1 .. Len(lane[l])
        <5>1. lane'[l][j] = lane[l][j] /\ lane[l][j] \in submitted
          BY <3>1, <2>0, <4>3
        <5>2. Before(lane[l][i], lane[l][j])
          BY <2>0, <3>4, <4>1, <4>3 DEF LaneOrdered
        <5> QED BY <1>2, <4>1, <5>1, <5>2
      <4> QED BY <3>2, <4>2, <4>3
    <3>5. inService[l] # NoRequest =>
            /\ WorkerOf(inService[l])' = l
            /\ \A i \in 1 .. Len(lane'[l]) : Before(inService[l], lane[l][i])'
      BY <3>2, <2>0, <1>1, <1>2 DEF LaneOrdered
    <3>6. ASSUME NEW s \in submitted', NEW t \in submitted', Before(s, t)',
                 WorkerOf(s)' = l, WorkerOf(t)' = l, Waits(lane'[l], s) \/ inService[l] = s
          PROVE  Waits(lane'[l], t)
      <4>1. CASE t = r
        BY <4>1, <3>1 DEF Waits
      <4>2. CASE t \in submitted
        <5>1. s \in submitted /\ Before(s, t)
          BY <3>6, <4>2, <1>1, <1>2
        <5>2. Waits(lane[l], s) \/ inService[l] = s
          BY <3>6, <5>1, <3>2, <1>1 DEF Waits
        <5>3. Waits(lane[l], t)
          BY <5>1, <5>2, <4>2, <3>6, <2>0, <1>1 DEF LaneOrdered
        <5>4. PICK i \in 1 .. Len(lane[l]) : lane[l][i] = t
          BY <5>3 DEF Waits
        <5>5. i \in 1 .. Len(lane'[l]) /\ lane'[l][i] = t
          BY <5>4, <3>1
        <5> QED BY <5>5 DEF Waits
      <4> QED BY <4>1, <4>2, <1>1
    <3> QED BY <2>0, <3>3, <3>4, <3>5, <3>6 DEF LaneOrdered
  <2> QED BY <2>1, <2>2
<1>4. /\ handed \subseteq submitted /\ handed' = handed /\ outLane' = outLane
      /\ outService' = outService
      /\ \A i \in 1 .. Len(outLane[0]) : outLane[0][i] \in handed
      /\ outService[0] # NoRequest => outService[0] \in handed
  BY <1>1 DEF Ordered, Placed, OutOrdered, outVars
<1>5. OutOrdered'
  <2>1. \A s, t \in handed : Ahead(s, t) => Ahead(s, t)'
    BY <1>1, <1>2, <1>4 DEF Ahead
  <2>2. /\ \A i \in 1 .. Len(outLane[0]) : stage'[outLane[0][i]] = "handed"
        /\ \A i, j \in 1 .. Len(outLane[0]) : i < j => Ahead(outLane[0][i], outLane[0][j])'
    BY <1>1, <1>4, <2>1 DEF Ordered, OutOrdered
  <2>3. outService[0] # NoRequest =>
          /\ stage'[outService[0]] \in {"handed", "piece"}
          /\ \A i \in 1 .. Len(outLane[0]) : Ahead(outService[0], outLane[0][i])'
    BY <1>1, <1>4, <2>1 DEF Ordered, OutOrdered
  <2>4. \A s, t \in handed :
          /\ Before(s, t)' /\ WorkerOf(s)' = WorkerOf(t)'
          /\ Waits(outLane[0], s) \/ outService[0] = s
          => Waits(outLane[0], t)
    BY <1>1, <1>2, <1>4 DEF Ordered, OutOrdered
  <2> QED BY <1>4, <2>2, <2>3, <2>4 DEF OutOrdered, Waits
<1>6. Placed'
  <2>1. stage'[r] = "task" /\ stage[r] = "none" /\ \A s \in Requests \ {r} : stage'[s] = stage[s]
    BY <1>1 DEF TypeOK, Ordered, Placed
  <2>2. \A s \in submitted : IsHttp(s)' <=> IsHttp(s)
    BY <1>1 DEF IsHttp
  <2>3. /\ handed' \subseteq submitted'
        /\ \A s \in handed' : ~IsHttp(s)' /\ stage'[s] \in {"handed", "piece", "freed"}
        /\ \A s \in Requests : stage'[s] = "none" <=> s \notin submitted'
    BY <1>1, <1>4, <2>1, <2>2 DEF Ordered, Placed
  <2>4. ASSUME NEW s \in Requests
        PROVE  /\ stage'[s] = "handed" =>
                    s \in handed /\ (outService[0] = s \/ Waits(outLane[0], s))
               /\ stage'[s] = "piece" /\ IsHttp(s)' => inService[WorkerOf(s)'] = s
               /\ stage'[s] = "piece" /\ ~IsHttp(s)' => outService[0] = s
    <3>1. stage'[s] \in {"handed", "piece"} => s \in submitted /\ stage'[s] = stage[s]
      BY <2>1 DEF Ordered, Placed
    <3> QED BY <3>1, <2>2, <1>1 DEF Ordered, Placed
  <2> QED BY <1>1, <1>4, <2>3, <2>4 DEF Placed, Waits
<1> QED BY <1>1, <1>3, <1>5, <1>6 DEF Ordered, LanesOrdered

-----------------------------------------------------------------------------
(* Requests move on.                                                       *)

\* A lane nothing is taken from stays in order.
LEMMA LaneKept ==
  ASSUME TypeOK, Known, Ordered, NEW l \in Pool!Lanes,
         UNCHANGED <<arrivals, submitted>>, lane'[l] = lane[l],
         inService'[l] \in {inService[l], NoRequest},
         \A i \in 1 .. Len(lane[l]) : stage'[lane[l][i]] = "task"
  PROVE  LaneOrdered(l)'
<1>1. LaneOrdered(l) /\ submitted \subseteq Requests
  BY DEF Ordered, LanesOrdered, TypeOK
<1>2. \A r, s : WorkerOf(r)' = WorkerOf(r) /\ (Before(r, s)' <=> Before(r, s))
  BY Settled
<1>3. /\ \A i \in 1 .. Len(lane[l]) : WorkerOf(lane[l][i])' = l
      /\ \A i, j \in 1 .. Len(lane[l]) : i < j => Before(lane[l][i], lane[l][j])'
      /\ inService'[l] # NoRequest =>
           /\ WorkerOf(inService[l])' = l
           /\ \A i \in 1 .. Len(lane[l]) : Before(inService[l], lane[l][i])'
  BY <1>1, <1>2 DEF LaneOrdered
<1>4. \A r, s \in submitted :
        /\ Before(r, s)' /\ WorkerOf(r)' = l /\ WorkerOf(s)' = l
        /\ Waits(lane[l], r) \/ inService'[l] = r
        => Waits(lane[l], s)
  BY <1>1, <1>2 DEF LaneOrdered
<1> QED BY <1>3, <1>4 DEF LaneOrdered, Waits

\* So does the sender's queue.
LEMMA OutKept ==
  ASSUME TypeOK, Known, Ordered,
         UNCHANGED <<arrivals, submitted, handed>>, outLane'[0] = outLane[0],
         outService'[0] \in {outService[0], NoRequest},
         \A i \in 1 .. Len(outLane[0]) : stage'[outLane[0][i]] = "handed",
         outService'[0] # NoRequest => stage'[outService[0]] \in {"handed", "piece"}
  PROVE  OutOrdered'
<1>1. OutOrdered /\ handed \subseteq Requests
  BY DEF Ordered, TypeOK
<1>2. \A r, s : /\ WorkerOf(r)' = WorkerOf(r) /\ (Before(r, s)' <=> Before(r, s))
                /\ (Ahead(r, s)' <=> Ahead(r, s))
  BY Settled DEF Ahead
<1>3. /\ \A i \in 1 .. Len(outLane[0]) : outLane[0][i] \in handed
      /\ \A i, j \in 1 .. Len(outLane[0]) : i < j => Ahead(outLane[0][i], outLane[0][j])'
      /\ outService'[0] # NoRequest =>
           /\ outService'[0] \in handed
           /\ \A i \in 1 .. Len(outLane[0]) : Ahead(outService[0], outLane[0][i])'
  BY <1>1, <1>2 DEF OutOrdered
<1>4. \A r, s \in handed :
        /\ Before(r, s)' /\ WorkerOf(r)' = WorkerOf(s)'
        /\ Waits(outLane[0], r) \/ outService'[0] = r
        => Waits(outLane[0], s)
  BY <1>1, <1>2 DEF OutOrdered
<1> QED BY <1>3, <1>4 DEF OutOrdered, Waits

\* What a worker works on waits nowhere in the pool.
LEMMA ServedIsOut ==
  ASSUME TypeOK, Known, Ordered, NEW l \in Pool!Lanes, inService[l] # NoRequest
  PROVE  /\ inService[l] \in submitted /\ WorkerOf(inService[l]) = l
         /\ \A k \in Pool!Lanes : \A i \in 1 .. Len(lane[k]) : lane[k][i] # inService[l]
<1>1. inService[l] \in submitted /\ WorkerOf(inService[l]) = l
  BY DEF Known, Ordered, LanesOrdered, LaneOrdered
<1>2. ASSUME NEW k \in Pool!Lanes, NEW i \in 1 .. Len(lane[k]), lane[k][i] = inService[l]
      PROVE  FALSE
  <2>1. WorkerOf(lane[k][i]) = k
    BY DEF Ordered, LanesOrdered, LaneOrdered
  <2>2. Before(inService[l], lane[l][i]) /\ k = l
    BY <1>1, <1>2, <2>1 DEF Ordered, LanesOrdered, LaneOrdered
  <2> QED BY <2>2, <1>2, BeforeIs DEF Ordered
<1> QED BY <1>1, <1>2

\* A worker answers by itself, gives up, or returns.
LEMMA ServedMoves ==
  ASSUME TypeOK, Known, Ordered, NEW l \in Pool!Lanes, NEW r \in Requests,
         inService[l] = r,
         UNCHANGED <<arrivals, asker, submitted, nextLane, lane, outLane, outService, handed>>,
         \/ inService' = inService
         \/ inService' = [inService EXCEPT ![l] = NoRequest],
         \A s \in Requests \ {r} : stage'[s] = stage[s],
         stage'[r] = stage[r] \/ (r \notin handed /\ stage'[r] \notin {"none", "handed"}),
         stage'[r] = "piece" /\ IsHttp(r) => inService' = inService,
         stage'[r] = "piece" /\ ~IsHttp(r) => stage[r] = "piece"
  PROVE  Ordered'
<1>1. /\ r # NoRequest /\ r \in submitted /\ WorkerOf(r) = l
      /\ \A k \in Pool!Lanes : \A i \in 1 .. Len(lane[k]) : lane[k][i] # r
  <2>1. inService[l] # NoRequest
    OBVIOUS
  <2> QED BY <2>1, ServedIsOut
<1>2. Arrived'
  BY DEF Ordered, Arrived
<1>3. ASSUME NEW k \in Pool!Lanes PROVE LaneOrdered(k)'
  <2>1. inService'[k] \in {inService[k], NoRequest}
    BY DEF TypeOK
  <2>2. \A i \in 1 .. Len(lane[k]) : lane[k][i] \in Requests /\ stage[lane[k][i]] = "task"
    BY DEF Known, TypeOK, Ordered, LanesOrdered, LaneOrdered
  <2> QED BY <1>1, <2>1, <2>2, LaneKept
<1>4. OutOrdered'
  <2>1. /\ \A i \in 1 .. Len(outLane[0]) :
             /\ outLane[0][i] \in handed /\ outLane[0][i] \in Requests
             /\ stage[outLane[0][i]] = "handed"
        /\ outService[0] # NoRequest =>
             /\ outService[0] \in handed /\ outService[0] \in Requests
             /\ stage[outService[0]] \in {"handed", "piece"}
    BY DEF Ordered, OutOrdered, TypeOK
  <2> QED BY <2>1, OutKept
<1>5. Placed'
  <2>1. \A s : WorkerOf(s)' = WorkerOf(s)
    BY Settled
  <2>2. \A s \in Requests : IsHttp(s)' <=> IsHttp(s)
    BY DEF IsHttp
  <2>3. stage[r] # "none" /\ stage'[r] # "none"
    <3>1. stage[r] # "none"
      BY <1>1 DEF Ordered, Placed
    <3> QED BY <3>1
  <2>4. /\ handed \subseteq submitted /\ handed \subseteq Requests
        /\ \A s \in handed : ~IsHttp(s) /\ stage'[s] \in {"handed", "piece", "freed"}
    <3>1. handed \subseteq submitted /\ submitted \subseteq Requests
      BY DEF Ordered, Placed, TypeOK
    <3>2. \A s \in handed : ~IsHttp(s) /\ stage[s] \in {"handed", "piece", "freed"}
      BY DEF Ordered, Placed
    <3>3. \A s \in handed : stage'[s] = stage[s]
      BY <3>1
    <3> QED BY <3>1, <3>2, <3>3
  <2>5. \A s \in Requests : stage'[s] = "none" <=> s \notin submitted
    BY <1>1, <2>3 DEF Ordered, Placed
  <2>6. ASSUME NEW s \in Requests
        PROVE  /\ stage'[s] = "handed" =>
                    s \in handed /\ (outService[0] = s \/ Waits(outLane[0], s))
               /\ stage'[s] = "piece" /\ IsHttp(s)' => inService'[WorkerOf(s)'] = s
               /\ stage'[s] = "piece" /\ ~IsHttp(s)' => outService[0] = s
    <3>1. CASE s = r
      BY <3>1, <1>1, <2>1, <2>2 DEF Ordered, Placed
    <3>2. CASE s # r
      <4>1. stage'[s] = stage[s]
        BY <3>2
      <4>2. ASSUME stage[s] = "piece", IsHttp(s)
            PROVE  inService'[WorkerOf(s)] = s
        <5>1. inService[WorkerOf(s)] = s /\ WorkerOf(s) \in Pool!Lanes
          BY <4>2, BeforeIs DEF Ordered, Placed
        <5> QED BY <5>1, <3>2, <1>1 DEF TypeOK
      <4> QED BY <4>1, <4>2, <2>1, <2>2 DEF Ordered, Placed
    <3> QED BY <3>1, <3>2
  <2> QED BY <2>2, <2>4, <2>5, <2>6 DEF Placed, Waits
<1> QED BY <1>2, <1>3, <1>4, <1>5 DEF Ordered, LanesOrdered

\* A worker takes the request that came first.
LEMMA TakeOrdered ==
  ASSUME TypeOK, Known, Ordered, NEW l \in Pool!Lanes, TakeTask(l)
  PROVE  Ordered'
<1> DEFINE q == lane[l]
           h == Head(lane[l])
<1>1. /\ inService[l] = NoRequest /\ q \in Seq(Requests) /\ q # <<>>
      /\ lane' = [lane EXCEPT ![l] = Tail(q)]
      /\ inService' = [inService EXCEPT ![l] = h]
      /\ UNCHANGED <<arrivals, asker, submitted, nextLane, stage, outLane, outService, handed>>
  BY DEF TakeTask, Pool!Begin, TypeOK, taskVars, outVars
<1>2. /\ h = q[1] /\ 1 \in 1 .. Len(q) /\ Len(q) \in Nat
      /\ \A i \in 1 .. Len(Tail(q)) : Tail(q)[i] = q[i + 1] /\ i + 1 \in 1 .. Len(q)
      /\ \A i \in 1 .. Len(q) : i # 1 => i - 1 \in 1 .. Len(Tail(q)) /\ Tail(q)[i - 1] = q[i]
  BY <1>1
<1>3. /\ LaneOrdered(l) /\ \A i \in 1 .. Len(q) : q[i] \in submitted
      /\ lane'[l] = Tail(q) /\ inService'[l] = h /\ h \in submitted
      /\ \A k \in Pool!Lanes \ {l} : lane'[k] = lane[k] /\ inService'[k] = inService[k]
  BY <1>1, <1>2 DEF Ordered, LanesOrdered, Known, TypeOK
<1>4. \A r, s : WorkerOf(r)' = WorkerOf(r) /\ (Before(r, s)' <=> Before(r, s))
  BY <1>1, Settled
<1> HIDE DEF q, h
<1>5. LaneOrdered(l)'
  <2>1. /\ \A i \in 1 .. Len(Tail(q)) :
             WorkerOf(Tail(q)[i]) = l /\ stage[Tail(q)[i]] = "task" /\ Before(h, Tail(q)[i])
        /\ \A i, j \in 1 .. Len(Tail(q)) : i < j => Before(Tail(q)[i], Tail(q)[j])
        /\ WorkerOf(h) = l
    BY <1>2, <1>3 DEF LaneOrdered, q
  <2>2. ASSUME NEW r \in submitted, NEW s \in submitted, Before(r, s),
               WorkerOf(r) = l, WorkerOf(s) = l, Waits(Tail(q), r) \/ h = r
        PROVE  Waits(Tail(q), s)
    <3>1. Waits(q, r)
      BY <2>2, <1>2 DEF Waits
    <3>2. Waits(q, s)
      BY <3>1, <2>2, <1>3 DEF LaneOrdered, q
    <3>3. s # h
      <4>1. Before(s, r) \/ h = r \/ s # h
        BY <2>1, <2>2 DEF Waits
      <4> QED BY <4>1, <2>2, BeforeIs DEF Ordered
    <3> QED BY <3>2, <3>3, <1>2 DEF Waits
  <2>3. /\ \A i \in 1 .. Len(lane'[l]) :
             WorkerOf(lane[l][i])' = l /\ stage'[lane'[l][i]] = "task"
        /\ \A i, j \in 1 .. Len(lane'[l]) : i < j => Before(lane[l][i], lane[l][j])'
        /\ WorkerOf(inService[l])' = l
        /\ \A i \in 1 .. Len(lane'[l]) : Before(inService[l], lane[l][i])'
    BY <1>1, <1>3, <1>4, <2>1
  <2>4. \A r, s \in submitted' :
          /\ Before(r, s)' /\ WorkerOf(r)' = l /\ WorkerOf(s)' = l
          /\ Waits(lane'[l], r) \/ inService'[l] = r
          => Waits(lane'[l], s)
    BY <1>1, <1>3, <1>4, <2>2
  <2> QED BY <2>3, <2>4 DEF LaneOrdered, Waits
<1>6. ASSUME NEW k \in Pool!Lanes \ {l} PROVE LaneOrdered(k)'
  <2>1. \A i \in 1 .. Len(lane[k]) : stage[lane[k][i]] = "task"
    BY DEF Ordered, LanesOrdered, LaneOrdered
  <2> QED BY <1>1, <1>3, <2>1, LaneKept
<1>7. OutOrdered'
  <2>1. /\ \A i \in 1 .. Len(outLane[0]) : stage[outLane[0][i]] = "handed"
        /\ outService[0] # NoRequest => stage[outService[0]] \in {"handed", "piece"}
    BY DEF Ordered, OutOrdered
  <2> QED BY <1>1, <2>1, OutKept
<1>8. Placed'
  <2>1. \A s \in Requests : IsHttp(s)' <=> IsHttp(s)
    BY <1>1 DEF IsHttp
  <2>2. \A s \in Requests : stage[s] = "piece" /\ IsHttp(s) => inService'[WorkerOf(s)'] = s
    <3> SUFFICES ASSUME NEW s \in Requests, stage[s] = "piece", IsHttp(s)
                 PROVE  inService'[WorkerOf(s)'] = s
        OBVIOUS
    <3>1. inService[WorkerOf(s)] = s /\ s \in submitted
      BY DEF Ordered, Placed
    <3>2. WorkerOf(s) \in Pool!Lanes
      BY <3>1, BeforeIs DEF Ordered
    <3> QED BY <1>1, <1>3, <1>4, <3>1, <3>2
  <2>3. /\ handed \subseteq submitted
        /\ \A s \in handed : ~IsHttp(s)' /\ stage[s] \in {"handed", "piece", "freed"}
        /\ \A s \in Requests : stage[s] = "none" <=> s \notin submitted
        /\ \A s \in Requests :
             /\ stage[s] = "handed" =>
                  s \in handed /\ (outService[0] = s \/ Waits(outLane[0], s))
             /\ stage[s] = "piece" /\ ~IsHttp(s)' => outService[0] = s
    BY <2>1 DEF Ordered, Placed, TypeOK
  <2> QED BY <1>1, <2>1, <2>2, <2>3 DEF Placed, Waits
<1>9. Arrived'
  BY <1>1 DEF Ordered, Arrived
<1>10. LanesOrdered'
  <2>1. \A k \in Pool!Lanes : LaneOrdered(k)'
    <3> HIDE <1>1, <1>2, <1>3, <1>4
    <3> QED BY <1>5, <1>6
  <2> QED BY <2>1 DEF LanesOrdered
<1> QED BY <1>7, <1>8, <1>9, <1>10 DEF Ordered

\* No step of an answer on its way to the client disturbs the lanes.
LEMMA LanesKept ==
  ASSUME TypeOK, Known, Ordered, NEW r \in Requests,
         UNCHANGED <<arrivals, submitted, lane, inService>>,
         \A s \in Requests \ {r} : stage'[s] = stage[s],
         stage[r] # "task" \/ \E l \in Pool!Lanes : inService[l] = r
  PROVE  LanesOrdered'
<1> SUFFICES ASSUME NEW k \in Pool!Lanes PROVE LaneOrdered(k)'
    BY DEF LanesOrdered
<1>1. \A i \in 1 .. Len(lane[k]) : lane[k][i] \in Requests /\ stage[lane[k][i]] = "task"
  BY DEF Known, TypeOK, Ordered, LanesOrdered, LaneOrdered
<1>2. \A i \in 1 .. Len(lane[k]) : lane[k][i] # r
  <2>1. CASE stage[r] # "task"
    BY <1>1, <2>1
  <2>2. CASE \E l \in Pool!Lanes : inService[l] = r
    BY <2>2, ServedIsOut
  <2> QED BY <2>1, <2>2
<1> QED BY <1>1, <1>2, LaneKept

\* A request keeps its place in the pool through these steps.
LEMMA PlacedKept ==
  ASSUME TypeOK, Known, Ordered, NEW r \in Requests, r \in handed',
         handed \subseteq handed', handed' \subseteq handed \cup {r},
         UNCHANGED <<arrivals, asker, submitted, inService>>, r \in submitted, ~IsHttp(r),
         \A s \in Requests \ {r} : stage'[s] = stage[s],
         stage'[r] \in {"handed", "piece", "freed"},
         stage'[r] = "handed" => outService'[0] = r \/ Waits(outLane[0], r)',
         stage'[r] = "piece" => outService'[0] = r,
         \A s \in Requests \ {r} :
           /\ Waits(outLane[0], s) => Waits(outLane[0], s)'
           /\ outService[0] = s => outService'[0] = s
  PROVE  Placed'
<1>1. \A s : WorkerOf(s)' = WorkerOf(s)
  BY Settled
<1>2. \A s \in Requests : IsHttp(s)' <=> IsHttp(s)
  BY DEF IsHttp
<1>3. /\ handed' \subseteq submitted'
      /\ \A s \in handed' : ~IsHttp(s)' /\ stage'[s] \in {"handed", "piece", "freed"}
  <2>1. handed \subseteq submitted /\ submitted \subseteq Requests
    BY DEF Ordered, Placed, TypeOK
  <2>2. \A s \in handed : ~IsHttp(s) /\ stage[s] \in {"handed", "piece", "freed"}
    BY DEF Ordered, Placed
  <2>3. \A s \in handed' : s = r \/ (s \in handed /\ s \in Requests)
    BY <2>1
  <2> QED BY <1>2, <2>1, <2>2, <2>3
<1>5. \A s \in Requests : stage'[s] = "none" <=> s \notin submitted'
  BY DEF Ordered, Placed
<1>4. ASSUME NEW s \in Requests
      PROVE  /\ stage'[s] = "handed" =>
                  s \in handed' /\ (outService'[0] = s \/ Waits(outLane[0], s)')
             /\ stage'[s] = "piece" /\ IsHttp(s)' => inService'[WorkerOf(s)'] = s
             /\ stage'[s] = "piece" /\ ~IsHttp(s)' => outService'[0] = s
  <2>1. CASE s = r
    BY <2>1, <1>2
  <2>2. CASE s # r
    BY <2>2, <1>1, <1>2 DEF Ordered, Placed
  <2> QED BY <2>1, <2>2
<1> QED BY <1>3, <1>4, <1>5 DEF Placed

\* A worker hands an answer over.
LEMMA AddOrdered ==
  ASSUME TypeOK, Known, Ordered, NEW l \in Pool!Lanes, AddResponse(l)
  PROVE  Ordered'
<1>0. PICK r : r = inService[l]
  OBVIOUS
<1> DEFINE q == outLane[0]
<1>1. /\ r # NoRequest /\ r \in Requests /\ stage[r] = "task" /\ ~IsHttp(r)
      /\ r \notin handed /\ handed' = handed \cup {r} /\ r \in submitted
      /\ q \in Seq(Requests) /\ outLane' = [outLane EXCEPT ![0] = Append(q, r)]
      /\ outLane'[0] = Append(q, r)
      /\ stage' = [stage EXCEPT ![r] = "handed"] /\ stage'[r] = "handed"
      /\ \A s \in Requests \ {r} : stage'[s] = stage[s]
      /\ UNCHANGED <<arrivals, asker, submitted, nextLane, lane, inService, outService>>
  BY <1>0 DEF AddResponse, Answering, Sender!Submit, TypeOK, Known, taskVars, poolVars
<1>2. /\ Len(q) \in Nat /\ Len(outLane'[0]) = Len(q) + 1
      /\ outLane'[0][Len(q) + 1] = r
      /\ \A i \in 1 .. Len(q) : outLane'[0][i] = q[i]
  BY <1>1
<1>3. \A i \in 1 .. Len(outLane'[0]) :
        \/ i \in 1 .. Len(q) /\ outLane'[0][i] = q[i]
        \/ i = Len(q) + 1 /\ outLane'[0][i] = r
  BY <1>2
<1>4. \A s, t : /\ WorkerOf(s)' = WorkerOf(s) /\ (Before(s, t)' <=> Before(s, t))
                /\ (Ahead(s, t)' <=> Ahead(s, t))
  BY <1>1, Settled DEF Ahead
\* What this worker handed over before came before.
<1>5. ASSUME NEW s \in handed, WorkerOf(s) = WorkerOf(r) PROVE Before(s, r)
  <2>1. s \in submitted /\ s # r /\ stage[s] # "task"
    BY <1>1 DEF Ordered, Placed
  <2>2. WorkerOf(r) = l
    BY <1>0, <1>1, ServedIsOut
  <2>3. ASSUME Before(r, s) PROVE FALSE
    <3>1. Waits(lane[l], s)
      BY <1>0, <1>1, <1>5, <2>1, <2>2, <2>3 DEF Ordered, LanesOrdered, LaneOrdered
    <3> QED BY <3>1, <2>1 DEF Waits, Ordered, LanesOrdered, LaneOrdered
  <2> QED BY <1>1, <2>1, <2>3, BeforeIs DEF Ordered
<1>6. /\ \A i \in 1 .. Len(q) : q[i] \in handed /\ stage[q[i]] = "handed" /\ Ahead(q[i], r)
      /\ \A i, j \in 1 .. Len(q) : i < j => Ahead(q[i], q[j])
      /\ outService[0] # NoRequest =>
           /\ outService[0] \in handed /\ stage[outService[0]] \in {"handed", "piece"}
           /\ Ahead(outService[0], r)
           /\ \A i \in 1 .. Len(q) : Ahead(outService[0], q[i])
  BY <1>1, <1>5 DEF Ordered, OutOrdered, Ahead
<1> HIDE DEF q
<1>7. OutOrdered'
  <2>1. \A i \in 1 .. Len(outLane'[0]) :
          outLane'[0][i] \in handed' /\ stage'[outLane'[0][i]] = "handed"
    BY <1>1, <1>3, <1>6 DEF TypeOK
  <2>2. \A i, j \in 1 .. Len(outLane'[0]) : i < j => Ahead(outLane[0][i], outLane[0][j])'
    BY <1>2, <1>3, <1>4, <1>6
  <2>3. outService'[0] # NoRequest =>
          /\ outService'[0] \in handed' /\ stage'[outService'[0]] \in {"handed", "piece"}
          /\ \A i \in 1 .. Len(outLane'[0]) : Ahead(outService[0], outLane[0][i])'
    BY <1>1, <1>3, <1>4, <1>6 DEF TypeOK
  <2>4. ASSUME NEW s \in handed', NEW t \in handed', Before(s, t), WorkerOf(s) = WorkerOf(t),
               Waits(outLane'[0], s) \/ outService[0] = s
        PROVE  Waits(outLane'[0], t)
    <3>1. CASE t = r
      BY <3>1, <1>1, <1>2, Z3 DEF Waits
    <3>2. CASE t # r
      <4>1. t \in handed
        BY <1>1, <3>2
      <4>2. s # r
        BY <4>1, <1>5, <2>4, BeforeIs DEF Ordered
      <4>3. s \in handed /\ (Waits(q, s) \/ outService[0] = s)
        BY <1>1, <1>3, <2>4, <4>2 DEF Waits
      <4>4. Waits(q, t)
        BY <4>1, <4>3, <2>4 DEF Ordered, OutOrdered, q
      <4>5. PICK i \in 1 .. Len(q) : q[i] = t
        BY <4>4 DEF Waits
      <4>6. i \in 1 .. Len(outLane'[0]) /\ outLane'[0][i] = t
        BY <4>5, <1>2
      <4> QED BY <4>6 DEF Waits
    <3> QED BY <3>1, <3>2
  <2>5. \A s, t \in handed' :
          /\ Before(s, t)' /\ WorkerOf(s)' = WorkerOf(t)'
          /\ Waits(outLane'[0], s) \/ outService'[0] = s
          => Waits(outLane'[0], t)
    BY <1>1, <1>4, <2>4
  <2> QED BY <2>1, <2>2, <2>3, <2>5 DEF OutOrdered, Waits
<1>8. Placed'
  <2>1. Waits(outLane[0], r)'
    <3>1. Len(q) + 1 \in 1 .. Len(outLane'[0]) /\ outLane'[0][Len(q) + 1] = r
      BY <1>2
    <3>2. \E i \in 1 .. Len(outLane'[0]) : outLane'[0][i] = r
      BY <3>1
    <3> QED BY <3>2 DEF Waits
  <2>2. ASSUME NEW s \in Requests, Waits(outLane[0], s) PROVE Waits(outLane[0], s)'
    <3>1. PICK i \in 1 .. Len(q) : q[i] = s
      BY <2>2 DEF Waits, q
    <3>2. i \in 1 .. Len(outLane'[0]) /\ outLane'[0][i] = s
      BY <3>1, <1>2
    <3> QED BY <3>2 DEF Waits
  <2>3. \A s \in Requests \ {r} : outService[0] = s => outService'[0] = s
    BY <1>1
  <2>4. stage'[r] \in {"handed", "piece", "freed"} /\ stage'[r] # "piece" /\ r \in handed'
        /\ handed \subseteq handed' /\ handed' \subseteq handed \cup {r}
    BY <1>1
  <2> QED BY <1>1, <2>1, <2>2, <2>3, <2>4, PlacedKept
<1>9. Arrived' /\ LanesOrdered'
  BY <1>0, <1>1, LanesKept DEF Ordered, Arrived
<1> QED BY <1>7, <1>8, <1>9 DEF Ordered

\* The sender takes the answer that was handed over first.
LEMMA TakeAnswerOrdered ==
  ASSUME TypeOK, Known, Ordered, TakeAnswer
  PROVE  Ordered'
<1>0. PICK h : h = Head(outLane[0])
  OBVIOUS
<1> DEFINE q == outLane[0]
<1>1. /\ outService[0] = NoRequest /\ q \in Seq(Requests) /\ q # <<>>
      /\ outLane'[0] = Tail(q) /\ outService'[0] = h
      /\ UNCHANGED <<arrivals, asker, submitted, nextLane, stage, lane, inService, handed>>
  BY <1>0 DEF TakeAnswer, Sender!Begin, TypeOK, taskVars, poolVars
<1>2. /\ h = q[1] /\ 1 \in 1 .. Len(q) /\ Len(q) \in Nat
      /\ \A i \in 1 .. Len(Tail(q)) : Tail(q)[i] = q[i + 1] /\ i + 1 \in 1 .. Len(q)
      /\ \A i \in 1 .. Len(q) : i # 1 => i - 1 \in 1 .. Len(Tail(q)) /\ Tail(q)[i - 1] = q[i]
  BY <1>0, <1>1
<1>3. \A s, t : /\ WorkerOf(s)' = WorkerOf(s) /\ (Before(s, t)' <=> Before(s, t))
                /\ (Ahead(s, t)' <=> Ahead(s, t))
  BY <1>1, Settled DEF Ahead
<1>4. /\ h \in handed /\ h \in Requests /\ stage[h] = "handed"
      /\ \A i \in 1 .. Len(Tail(q)) :
           /\ Tail(q)[i] \in handed /\ stage[Tail(q)[i]] = "handed"
           /\ Ahead(h, Tail(q)[i])
      /\ \A i, j \in 1 .. Len(Tail(q)) : i < j => Ahead(Tail(q)[i], Tail(q)[j])
  BY <1>1, <1>2 DEF Ordered, OutOrdered, TypeOK
<1>5. \A s \in Requests : Waits(q, s) <=> s = h \/ Waits(Tail(q), s)
  BY <1>2 DEF Waits
<1>6. ASSUME NEW s \in handed, NEW t \in handed, Before(s, t), WorkerOf(s) = WorkerOf(t),
             Waits(Tail(q), s) \/ h = s
      PROVE  Waits(Tail(q), t)
  <2>1. Waits(q, s) /\ t \in Requests
    BY <1>4, <1>5, <1>6 DEF TypeOK
  <2>2. Waits(q, t)
    BY <1>6, <2>1 DEF Ordered, OutOrdered
  <2>3. Before(s, t) /\ ~Before(t, s) /\ s # t
    BY <1>6, BeforeIs DEF Ordered
  <2>4. ASSUME t = h PROVE FALSE
    <3>1. PICK i \in 1 .. Len(Tail(q)) : Tail(q)[i] = s
      BY <1>6, <2>3, <2>4 DEF Waits
    <3> QED BY <3>1, <1>4, <1>6, <2>3, <2>4 DEF Ahead
  <2> QED BY <1>5, <2>1, <2>2, <2>4
<1>7. OutOrdered'
  <2>1. \A i \in 1 .. Len(outLane'[0]) :
          outLane'[0][i] \in handed' /\ stage'[outLane'[0][i]] = "handed"
    BY <1>1, <1>4
  <2>2. \A i, j \in 1 .. Len(outLane'[0]) : i < j => Ahead(outLane[0][i], outLane[0][j])'
    BY <1>1, <1>3, <1>4
  <2>3. /\ outService'[0] \in handed' /\ stage'[outService'[0]] \in {"handed", "piece"}
        /\ \A i \in 1 .. Len(outLane'[0]) : Ahead(outService[0], outLane[0][i])'
    BY <1>1, <1>3, <1>4
  <2>4. \A s, t \in handed' :
          /\ Before(s, t)' /\ WorkerOf(s)' = WorkerOf(t)'
          /\ Waits(outLane'[0], s) \/ outService'[0] = s
          => Waits(outLane'[0], t)
    BY <1>1, <1>3, <1>6
  <2> QED BY <2>1, <2>2, <2>3, <2>4 DEF OutOrdered, Waits
<1>8. Placed'
  <2>1. /\ h \in submitted /\ ~IsHttp(h)
        /\ \A s \in Requests : outService[0] = s => outService'[0] = s
    BY <1>1, <1>4 DEF Ordered, Placed
  <2>2. \A s \in Requests \ {h} : Waits(outLane[0], s) => Waits(outLane[0], s)'
    BY <1>1, <1>5 DEF Waits
  <2> QED BY <1>1, <1>4, <2>1, <2>2, PlacedKept
<1>9. Arrived' /\ LanesOrdered'
  BY <1>1, <1>4, LanesKept DEF Ordered, Arrived
<1> QED BY <1>7, <1>8, <1>9 DEF Ordered

\* The sender writes a piece, and may be through with the answer.
LEMMA SendOrdered ==
  ASSUME TypeOK, Known, Ordered, SendFirst \/ SendLast
  PROVE  Ordered'
<1>0. PICK r : r = outService[0]
  OBVIOUS
<1>1. /\ r # NoRequest /\ r \in Requests
      /\ UNCHANGED <<arrivals, asker, submitted, nextLane, lane, inService, outLane, handed>>
      /\ \A s \in Requests \ {r} : stage'[s] = stage[s]
      /\ \/ stage'[r] = "piece" /\ outService' = outService
         \/ stage'[r] = "freed" /\ outService'[0] = NoRequest
  BY <1>0 DEF SendFirst, SendLast, Sender!End, TypeOK, taskVars, poolVars, outVars
<1>2. /\ r \in handed /\ r \in submitted /\ stage[r] \in {"handed", "piece"} /\ ~IsHttp(r)
      /\ \A i \in 1 .. Len(outLane[0]) :
           /\ outLane[0][i] # r /\ outLane[0][i] \in Requests
           /\ stage[outLane[0][i]] = "handed"
  BY <1>0, <1>1 DEF Ordered, OutOrdered, Placed, Ahead, TypeOK
<1>3. OutOrdered'
  BY <1>0, <1>1, <1>2, OutKept
<1>4. Placed'
  <2>1. \A s \in Requests \ {r} : /\ Waits(outLane[0], s) => Waits(outLane[0], s)'
                                  /\ outService[0] = s => outService'[0] = s
    BY <1>0, <1>1 DEF Waits
  <2> QED BY <1>0, <1>1, <1>2, <2>1, PlacedKept
<1>5. Arrived' /\ LanesOrdered'
  BY <1>1, <1>2, LanesKept DEF Ordered, Arrived
<1> QED BY <1>3, <1>4, <1>5 DEF Ordered

LEMMA InitOrdered == Init => Ordered
<1> SUFFICES ASSUME Init PROVE Ordered
    OBVIOUS
<1>1. /\ arrivals = <<>> /\ submitted = {} /\ nextLane = 0 /\ handed = {}
      /\ \A l \in Pool!Lanes : lane[l] = <<>> /\ inService[l] = NoRequest
      /\ outLane[0] = <<>> /\ outService[0] = NoRequest
      /\ \A r \in Requests : stage[r] = "none"
  BY DEF Init, Pool!Init, Sender!Init
<1>2. Arrived
  <2>1. 0 % PoolSize = 0
    <3>1. /\ 0 = PoolSize * (0 \div PoolSize) + (0 % PoolSize)
          /\ 0 \div PoolSize \in Int /\ 0 % PoolSize \in Pool!Lanes
      BY Euclid
    <3>2. PoolSize * 0 + 0 = PoolSize * (0 \div PoolSize) + (0 % PoolSize) /\ 0 \in Pool!Lanes
      BY <3>1
    <3> QED BY <3>1, <3>2, OneRemainder
  <2> QED BY <1>1, <2>1 DEF Arrived
<1>3. LanesOrdered /\ OutOrdered /\ Placed
  BY <1>1 DEF LanesOrdered, LaneOrdered, OutOrdered, Placed
<1> QED BY <1>2, <1>3 DEF Ordered

LEMMA NextOrdered == TypeOK /\ Known /\ Ordered /\ [Next]_vars => Ordered'
<1> SUFFICES ASSUME TypeOK, Known, Ordered, [Next]_vars
             PROVE  Ordered'
    OBVIOUS
<1>1. ASSUME UNCHANGED <<arrivals, asker, submitted, nextLane, lane, inService, outLane,
                         outService, handed, stage>>
      PROVE  Ordered'
  <2>1. \A s, t : /\ WorkerOf(s)' = WorkerOf(s) /\ (Before(s, t)' <=> Before(s, t))
                  /\ (Ahead(s, t)' <=> Ahead(s, t)) /\ (IsHttp(s)' <=> IsHttp(s))
    BY <1>1, Settled DEF Ahead, IsHttp
  <2>2. LanesOrdered' /\ OutOrdered'
    <3>1. ASSUME NEW l \in Pool!Lanes PROVE LaneOrdered(l)'
      <4>1. \A i \in 1 .. Len(lane[l]) : stage[lane[l][i]] = "task"
        BY DEF Ordered, LanesOrdered, LaneOrdered
      <4> QED BY <1>1, <4>1, LaneKept
    <3>2. /\ \A i \in 1 .. Len(outLane[0]) : stage[outLane[0][i]] = "handed"
          /\ outService[0] # NoRequest => stage[outService[0]] \in {"handed", "piece"}
      BY DEF Ordered, OutOrdered
    <3>3. OutOrdered'
      BY <1>1, <3>2, OutKept
    <3> QED BY <3>1, <3>3 DEF LanesOrdered
  <2>3. Arrived' /\ Placed'
    <3>1. Placed /\ handed \subseteq Requests
      BY DEF Ordered, TypeOK
    <3>2. \A s : Waits(outLane[0], s)' <=> Waits(outLane[0], s)
      BY <1>1 DEF Waits
    <3>3. \A s \in Requests : /\ stage'[s] = stage[s]
                              /\ inService'[WorkerOf(s)'] = inService[WorkerOf(s)]
      BY <1>1, <2>1
    <3>4. Placed'
      BY <1>1, <2>1, <3>1, <3>2, <3>3 DEF Placed
    <3> QED BY <1>1, <3>4 DEF Ordered, Arrived
  <2> QED BY <2>2, <2>3 DEF Ordered
<1>2. ASSUME NEW l \in Pool!Lanes, Worker(l) PROVE Ordered'
  <2>1. CASE TakeTask(l)
    BY <2>1, TakeOrdered
  <2>2. CASE AddResponse(l)
    BY <2>2, AddOrdered
  <2>3. CASE Discard(l) \/ SendHead(l) \/ SendBody(l) \/ Return(l)
    <3>1. PICK r : r = inService[l]
      OBVIOUS
    <3>2. /\ r # NoRequest /\ r \in Requests
          /\ UNCHANGED <<arrivals, asker, submitted, nextLane, lane, outLane, outService,
                          handed>>
          /\ inService' = inService \/ inService' = [inService EXCEPT ![l] = NoRequest]
          /\ \A s \in Requests \ {r} : stage'[s] = stage[s]
      BY <2>3, <3>1 DEF Discard, SendHead, SendBody, Return, Answering, Pool!End, TypeOK,
         taskVars, poolVars, outVars
    <3>3. r \in handed => ~IsHttp(r) /\ stage[r] \notin {"task", "done"}
      BY DEF Ordered, Placed
    <3>4. /\ stage'[r] = stage[r] \/ (r \notin handed /\ stage'[r] \notin {"none", "handed"})
          /\ stage'[r] = "piece" /\ IsHttp(r) => inService' = inService
          /\ stage'[r] = "piece" /\ ~IsHttp(r) => stage[r] = "piece"
      BY <2>3, <3>1, <3>2, <3>3 DEF Discard, SendHead, SendBody, Return, Answering, TypeOK,
         poolVars
    <3> QED BY <3>1, <3>2, <3>4, ServedMoves
  <2> QED BY <1>2, <2>1, <2>2, <2>3 DEF Worker
<1>3. CASE Start \/ EndData \/ UNCHANGED vars
           \/ \E c \in Conns : \/ \E f \in Fds : Accept(c, f)
                               \/ ReadData(c) \/ CloseConn(c) \/ PeerCloses(c)
  BY <1>1, <1>3 DEF Start, EndData, Accept, ReadData, CloseConn, PeerCloses, Pool!Toggle,
     Sender!Toggle, vars, taskVars, poolVars, outVars
<1>4. CASE SendThread
  BY <1>4, TakeAnswerOrdered, SendOrdered DEF SendThread
<1> QED BY <1>2, <1>3, <1>4, ArrivalOrdered DEF Next, EventLoop

LEMMA AlwaysOrdered == SafetySpec => [](TypeOK /\ Known /\ Ordered)
<1>1. TypeOK /\ Known /\ Ordered /\ [Next]_vars => TypeOK' /\ Known' /\ Ordered'
  BY NextType, NextOrdered
<1> QED BY InitType, InitOrdered, <1>1, PTL DEF SafetySpec

\* The send_thread's tasks are all alive and each is there once, whatever the
\* workers that handed them over still do with theirs.
THEOREM SendersTasksLive == SafetySpec => []SenderTasksAlive
<1>1. TypeOK /\ Known /\ Ordered => SenderTasksAlive
  <2> SUFFICES ASSUME TypeOK, Ordered, NEW r \in Requests
               PROVE  LET places == (IF outService[0] = r THEN {0} ELSE {})
                            \cup {i \in 1 .. Len(outLane[0]) : outLane[0][i] = r}
                      IN  /\ places # {} => stage[r] \in {"handed", "piece"}
                          /\ \A i, j \in places : i = j
                          /\ stage[r] = "handed" => places # {}
    BY DEF SenderTasksAlive
  <2> DEFINE places == (IF outService[0] = r THEN {0} ELSE {})
                       \cup {i \in 1 .. Len(outLane[0]) : outLane[0][i] = r}
  <2>0. outLane[0] \in Seq(Requests) /\ Len(outLane[0]) \in Nat /\ r # NoRequest
    BY DEF TypeOK
  <2>1. places # {} => stage[r] \in {"handed", "piece"}
    BY <2>0 DEF Ordered, OutOrdered
  <2>2. \A i, j \in 1 .. Len(outLane[0]) : outLane[0][i] = outLane[0][j] => i = j
    BY <2>0 DEF Ordered, OutOrdered, Ahead
  <2>3. \A i \in 1 .. Len(outLane[0]) : outService[0] = r => outLane[0][i] # r
    BY <2>0 DEF Ordered, OutOrdered, Ahead
  <2>4. \A i, j \in places : i = j
    BY <2>2, <2>3
  <2>5. stage[r] = "handed" => places # {}
    BY DEF Ordered, Placed, Waits
  <2> QED BY <2>1, <2>4, <2>5
<1> QED BY <1>1, AlwaysOrdered, PTL

-----------------------------------------------------------------------------
(* What the clients see.                                                   *)

ClosedGone == \A c \in Conns : state[c] = "closed" => c \in gone

\* While a connection is there, what stands on its wire is of tasks with its number.
Reached ==
  \A c \in Conns \ gone : \A i \in 1 .. Len(wire[c]) :
    state[c] = "open" /\ fd[c] = taskFd[wire[c][i][1]]

\* An answer is on its own connection's wire only after its writer took it up.
Wired ==
  \A c \in Conns : \A i \in Own(c) :
    LET r == wire[c][i][1]
    IN  IF IsHttp(r) THEN stage[r] # "task"
                     ELSE r \in handed /\ stage[r] \in {"piece", "freed"}

Writers == Pool!Lanes \cup {SenderNo}

Last(P, i) == \A k \in P : k <= i

\* Half an answer at the end of what a thread has written is being continued.
HalvesGoOn ==
  \A c \in Conns \ gone : \A w \in Writers : \A i \in WrittenBy(c, w) :
    Last(WrittenBy(c, w), i) /\ wire[c][i][2] # 2 => stage[wire[c][i][1]] = "piece"

\* An answer that is being continued is the last its writer wrote to who asked.
HalvesEnd ==
  \A r \in submitted : stage[r] = "piece" /\ asker[r] \notin gone =>
    \E i \in WrittenBy(asker[r], WriterOf(r)) :
      /\ Last(WrittenBy(asker[r], WriterOf(r)), i)
      /\ wire[asker[r]][i] \in {<<r, 0>>, <<r, 1>>}

NoCut == \A c \in Conns : \A i \in WrittenBy(c, SenderNo) : wire[c][i][2] # 0

AllWhole == \A c \in Conns : \A w \in Writers : WholeBy(c, w)

Seen == /\ ClosedGone /\ Reached /\ Wired /\ HalvesGoOn /\ HalvesEnd
        /\ NoCut /\ AllWhole /\ OrderPerWorker

\* A place behind all others.
LEMMA NewPlace ==
  ASSUME NEW P, P \subseteq Nat, NEW n \in Nat, \A i \in P : i < n
  PROVE  /\ \A i \in P \cup {n} : Last(P \cup {n}, i) <=> i = n
         /\ \A i, j \in P : Follows(P \cup {n}, i, j) <=> Follows(P, i, j)
         /\ \A i \in P : Follows(P \cup {n}, i, n) <=> Last(P, i)
         /\ \A i \in P \cup {n} : ~Follows(P \cup {n}, n, i)
<1>1. \A i \in P \cup {n} : Last(P \cup {n}, i) <=> i = n
  BY DEF Last
<1>2. \A i, j \in P : Follows(P \cup {n}, i, j) <=> Follows(P, i, j)
  BY DEF Follows
<1>3. \A i \in P : Follows(P \cup {n}, i, n) <=> Last(P, i)
  BY DEF Follows, Last
<1>4. \A i \in P \cup {n} : ~Follows(P \cup {n}, n, i)
  BY DEF Follows
<1> QED BY <1>1, <1>2, <1>3, <1>4

LEMMA PlacesAre ==
  ASSUME TypeOK, Known, NEW c \in Conns
  PROVE  /\ Own(c) \subseteq 1 .. Len(wire[c])
         /\ \A w : WrittenBy(c, w) \subseteq 1 .. Len(wire[c])
         /\ \A i \in 1 .. Len(wire[c]) :
              /\ i \in Nat /\ wire[c][i][1] \in submitted /\ wire[c][i][1] \in Requests
              /\ wire[c][i][2] \in {0, 1, 2}
              /\ wire[c][i] = <<wire[c][i][1], wire[c][i][2]>>
<1>1. wire[c] \in Seq(Requests \X {0, 1, 2}) /\ Len(wire[c]) \in Nat
  BY DEF TypeOK
<1>2. \A i \in 1 .. Len(wire[c]) : wire[c][i] \in Requests \X {0, 1, 2}
  BY <1>1
<1> QED BY <1>1, <1>2 DEF Own, WrittenBy, Known

\* Which thread answers a request.
LEMMA WriterIs ==
  ASSUME TypeOK, Ordered
  PROVE  /\ \A r \in submitted : WriterOf(r) \in Writers
         /\ \A r \in submitted : WriterOf(r) = SenderNo <=> ~IsHttp(r)
         /\ \A r, s \in submitted :
              /\ WriterOf(r) = WriterOf(s) /\ stage[s] = "piece"
              /\ IF IsHttp(r) THEN inService[WorkerOf(r)] = r ELSE outService[0] = r
              => r = s
<1>1. \A r \in submitted : WorkerOf(r) \in Pool!Lanes /\ r \in Requests
  BY BeforeIs DEF Ordered, TypeOK
<1>2. SenderNo \notin Pool!Lanes
  BY DEF SenderNo
<1>3. \A r \in submitted : WriterOf(r) = SenderNo <=> ~IsHttp(r)
  BY <1>1, <1>2 DEF WriterOf
<1>4. ASSUME NEW r \in submitted, NEW s \in submitted,
             WriterOf(r) = WriterOf(s), stage[s] = "piece",
             IF IsHttp(r) THEN inService[WorkerOf(r)] = r ELSE outService[0] = r
      PROVE  r = s
  <2>1. IsHttp(r) <=> IsHttp(s)
    BY <1>3, <1>4
  <2>2. CASE IsHttp(r)
    BY <1>1, <1>4, <2>1, <2>2 DEF WriterOf, Ordered, Placed
  <2>3. CASE ~IsHttp(r)
    BY <1>1, <1>4, <2>1, <2>3 DEF Ordered, Placed
  <2> QED BY <2>2, <2>3
<1> QED BY <1>1, <1>3, <1>4 DEF WriterOf, Writers

\* A write that is not lost reaches the asker, if the asker is there to be reached.
LEMMA WireAfterWrite ==
  ASSUME IInv, ClosedGone, NEW r \in submitted, NEW p \in {0, 1, 2}, Write(r, p)
  PROVE  \/ wire' = wire /\ asker[r] \in gone /\ Behind(r) \subseteq gone
         \/ \E c \in Behind(r) \ gone :
              /\ wire' = [wire EXCEPT ![c] = Append(@, <<r, p>>)]
              /\ asker[r] \notin gone => c = asker[r]
<1>1. /\ r \in Requests /\ asker[r] \in Conns
      /\ asker[r] \notin gone => asker[r] \in Behind(r)
      /\ \A c, d \in Behind(r) : c = d
  BY DEF IInv, TypeOK, TaskKnowsAsker, ClosedGone, FdsDistinct, Behind
<1>2. PICK c \in Behind(r) :
        wire' = IF c \in gone THEN wire ELSE [wire EXCEPT ![c] = Append(@, <<r, p>>)]
  BY DEF Write
<1> QED BY <1>1, <1>2

\* The steps that write nothing anybody gets: no half answer is begun or given up
\* where its asker is still there.
LEMMA SeenQuiet ==
  ASSUME IInv, Ordered, Seen, wire' = wire,
         ClosedGone', Reached', gone \subseteq gone', handed \subseteq handed',
         \A r \in submitted :
           /\ asker'[r] = asker[r] /\ WorkerOf(r)' = WorkerOf(r)
           /\ stage'[r] = "piece" => stage[r] = "piece" \/ asker[r] \in gone
           /\ stage[r] = "piece" => stage'[r] = "piece" \/ Behind(r) \subseteq gone
           /\ stage[r] # "task" => stage'[r] # "task"
           /\ r \in handed /\ stage[r] \in {"piece", "freed"} =>
                stage'[r] \in {"piece", "freed"},
         \A r, s \in submitted : Before(r, s) => Before(r, s)',
         \A r \in submitted' \ submitted : stage'[r] = "task"
  PROVE  Seen'
<1>0. /\ TypeOK /\ Known /\ submitted \subseteq Requests
      /\ \A r \in submitted : asker[r] \in Conns
  BY DEF IInv, TypeOK, TaskKnowsAsker
<1>1. \A r \in submitted : IsHttp(r)' <=> IsHttp(r)
  BY DEF IsHttp
<1>2. \A r \in submitted : WriterOf(r)' = WriterOf(r)
  BY <1>1 DEF WriterOf, SenderNo
<1>3. \A c \in Conns : /\ Len(wire'[c]) = Len(wire[c])
                       /\ \A i \in 1 .. Len(wire[c]) :
                            wire'[c][i] = wire[c][i] /\ wire[c][i][1] \in submitted
  BY <1>0, PlacesAre
<1>4. \A c \in Conns : /\ Own(c)' = Own(c)
                       /\ \A w : WrittenBy(c, w)' = WrittenBy(c, w)
                       /\ \A i \in Own(c) : asker[wire[c][i][1]] = c
  BY <1>2, <1>3 DEF Own, WrittenBy
<1>5. \A c \in Conns : \A w : \A i \in WrittenBy(c, w) : i \in 1 .. Len(wire[c])
  BY DEF WrittenBy
<1>6. \A c \in Conns : \A i \in Own(c) : i \in 1 .. Len(wire[c])
  BY DEF Own
<1>7. Wired'
  <2>1. \A c \in Conns : \A i \in Own(c) :
          IF IsHttp(wire[c][i][1])
            THEN stage'[wire[c][i][1]] # "task"
            ELSE wire[c][i][1] \in handed' /\ stage'[wire[c][i][1]] \in {"piece", "freed"}
    BY <1>3, <1>6 DEF Seen, Wired
  <2>2. \A c \in Conns : \A i \in Own(c) : IsHttp(wire[c][i][1])' <=> IsHttp(wire[c][i][1])
    BY <1>1, <1>3, <1>6 DEF IsHttp
  <2> QED BY <1>4, <2>1, <2>2 DEF Wired
<1>8. HalvesGoOn'
  <2>1. ASSUME NEW c \in Conns \ gone', NEW w \in Writers, NEW i \in WrittenBy(c, w),
               Last(WrittenBy(c, w), i), wire[c][i][2] # 2
        PROVE  stage'[wire[c][i][1]] = "piece"
    <3>1. i \in 1 .. Len(wire[c]) /\ wire[c][i][1] \in submitted /\ c \notin gone
      BY <1>3, <1>5
    <3>2. stage[wire[c][i][1]] = "piece"
      BY <2>1, <3>1 DEF Seen, HalvesGoOn
    <3>3. c \in Behind(wire[c][i][1])
      BY <3>1 DEF Seen, Reached, Behind
    <3> QED BY <3>1, <3>2, <3>3
  <2> QED BY <1>4, <2>1 DEF HalvesGoOn, Writers, SenderNo
<1>9. HalvesEnd'
  <2>1. ASSUME NEW r \in submitted', stage'[r] = "piece", asker'[r] \notin gone'
        PROVE  \E i \in WrittenBy(asker[r], WriterOf(r))' :
                 /\ Last(WrittenBy(asker[r], WriterOf(r)), i)'
                 /\ wire'[asker'[r]][i] \in {<<r, 0>>, <<r, 1>>}
    <3>1. r \in submitted /\ asker'[r] = asker[r] /\ asker[r] \notin gone
          /\ stage[r] = "piece" /\ asker[r] \in Conns
      BY <2>1, <1>0
    <3>2. PICK i \in WrittenBy(asker[r], WriterOf(r)) :
            /\ Last(WrittenBy(asker[r], WriterOf(r)), i)
            /\ wire[asker[r]][i] \in {<<r, 0>>, <<r, 1>>}
      BY <3>1 DEF Seen, HalvesEnd
    <3>3. WrittenBy(asker[r], WriterOf(r))' = WrittenBy(asker[r], WriterOf(r))
      <4>1. PICK c \in Conns : c = asker[r] /\ c = asker'[r]
        BY <3>1
      <4>2. PICK w : w = WriterOf(r) /\ w = WriterOf(r)'
        BY <1>2, <3>1
      <4>3. WrittenBy(c, w)' = WrittenBy(c, w)
        BY <1>4
      <4> QED BY <4>1, <4>2, <4>3 DEF WrittenBy
    <3> QED BY <3>1, <3>2, <3>3 DEF Last
  <2> QED BY <2>1 DEF HalvesEnd
<1>10. NoCut' /\ OrderPerWorker'
  <2>1. NoCut'
    BY <1>4, <1>5 DEF Seen, NoCut, SenderNo
  <2>2. \A c \in Conns : \A i, j \in Own(c) :
          /\ i < j /\ wire[c][i][1] # wire[c][j][1]
          /\ WorkerOf(wire[c][i][1])' = WorkerOf(wire[c][j][1])'
          => Before(wire[c][i][1], wire[c][j][1])'
    BY <1>3, <1>6 DEF Seen, OrderPerWorker
  <2> QED BY <1>4, <2>1, <2>2 DEF OrderPerWorker
<1>11. AllWhole'
  <2>1. ASSUME NEW c \in Conns, NEW w \in Writers PROVE WholeBy(c, w)'
    <3>1. WholeBy(c, w)
      BY DEF Seen, AllWhole
    <3>2. \A i \in WrittenBy(c, w) : asker'[wire[c][i][1]] = asker[wire[c][i][1]]
      BY <1>3, <1>5
    <3> QED BY <1>4, <3>1, <3>2 DEF WholeBy
  <2> QED BY <2>1 DEF AllWhole, Writers, SenderNo
<1> QED BY <1>7, <1>8, <1>9, <1>10, <1>11 DEF Seen

\* What one thread wrote to c, as it is after a step.
LEMMA WholeNow ==
  ASSUME NEW c, NEW w, NEW Q, Q = WrittenBy(c, w)', asker' = asker,
         \A i \in Q :
           LET s == wire'[c][i][1]
           IN  /\ wire'[c][i][2] # 2 => \A j \in Q : Follows(Q, i, j) => wire'[c][j] = <<s, 2>>
               /\ wire'[c][i][2] = 2 /\ asker[s] = c =>
                    \E j \in Q : Follows(Q, j, i) /\ wire'[c][j] \in {<<s, 0>>, <<s, 1>>}
  PROVE  WholeBy(c, w)'
  BY DEF WholeBy

LEMMA WholeKept ==
  ASSUME NEW c, NEW w, WholeBy(c, w), WrittenBy(c, w)' = WrittenBy(c, w), asker' = asker,
         \A i \in WrittenBy(c, w) : wire'[c][i] = wire[c][i]
  PROVE  WholeBy(c, w)'
  BY DEF WholeBy

\* One more answer to c leaves its worker's answers in the order of their requests.
LEMMA OrderKept ==
  ASSUME TypeOK, Ordered, Wired, OrderPerWorker, NEW r \in submitted, NEW c \in Conns,
         NEW n \in Nat, asker[r] = c, Own(c)' = Own(c) \cup {n}, wire'[c][n][1] = r,
         \A k \in Own(c) : /\ wire'[c][k] = wire[c][k] /\ k < n /\ k \in Nat
                           /\ wire[c][k][1] \in submitted /\ asker[wire[c][k][1]] = c,
         IF IsHttp(r) THEN inService[WorkerOf(r)] = r ELSE outService[0] = r /\ r \in handed
  PROVE  \A i, j \in Own(c)' :
           /\ i < j /\ wire'[c][i][1] # wire'[c][j][1]
           /\ WorkerOf(wire'[c][i][1]) = WorkerOf(wire'[c][j][1])
           => Before(wire'[c][i][1], wire'[c][j][1])
<1> SUFFICES ASSUME NEW i \in Own(c)', NEW j \in Own(c)',
                    NEW s, s = wire'[c][i][1], NEW t, t = wire'[c][j][1],
                    i < j, s # t, WorkerOf(s) = WorkerOf(t)
             PROVE  Before(s, t)
    OBVIOUS
<1>1. i \in Own(c) /\ s = wire[c][i][1] /\ s \in submitted /\ asker[s] = c
  OBVIOUS
<1>2. CASE j = n
  <2>1. t = r /\ s \in Requests
    BY <1>1, <1>2 DEF TypeOK
  <2>2. IsHttp(s) <=> IsHttp(r)
    BY <1>1 DEF IsHttp
  <2>3. IF IsHttp(s) THEN stage[s] # "task"
                     ELSE s \in handed /\ stage[s] \in {"piece", "freed"}
    BY <1>1 DEF Wired
  <2>4. ASSUME Before(r, s) PROVE FALSE
    <3>1. CASE IsHttp(r)
      <4>1. WorkerOf(r) \in Pool!Lanes
        BY BeforeIs DEF Ordered
      <4>2. Waits(lane[WorkerOf(r)], s)
        BY <1>1, <2>1, <2>4, <3>1, <4>1 DEF Ordered, LanesOrdered, LaneOrdered
      <4> QED BY <2>2, <2>3, <3>1, <4>1, <4>2 DEF Waits, Ordered, LanesOrdered, LaneOrdered
    <3>2. CASE ~IsHttp(r)
      <4>1. Waits(outLane[0], s)
        BY <2>1, <2>2, <2>3, <2>4, <3>2 DEF Ordered, OutOrdered
      <4> QED BY <2>2, <2>3, <3>2, <4>1 DEF Waits, Ordered, OutOrdered
    <3> QED BY <3>1, <3>2
  <2> QED BY <1>1, <2>1, <2>4, BeforeIs DEF Ordered
<1>3. CASE j \in Own(c)
  BY <1>1, <1>3 DEF OrderPerWorker
<1> QED BY <1>2, <1>3

\* The steps that write: r is what the writer is at, p the piece, v how far it is
\* then, c who gets it.
Wrote(r, p, v, c) ==
  /\ c \in Behind(r) \ gone
  /\ wire' = [wire EXCEPT ![c] = Append(@, <<r, p>>)]
  /\ asker[r] \notin gone => c = asker[r]
  /\ UNCHANGED <<state, fd, gone, asker, taskFd, submitted, arrivals, handed>>
  /\ stage' = [stage EXCEPT ![r] = v]
  /\ \/ p # 2 /\ v = "piece" /\ stage[r] \in {"task", "handed"}
     \/ p = 2 /\ v \in {"done", "freed"} /\ stage[r] = "piece"
  /\ IF IsHttp(r) THEN inService[WorkerOf(r)] = r
                  ELSE outService[0] = r /\ v \in {"piece", "freed"} /\ p # 0

LEMMA SeenWrite ==
  ASSUME IInv, Ordered, Seen, NEW r \in submitted, NEW p \in {0, 1, 2}, NEW v \in Stages,
         NEW c \in Conns, Wrote(r, p, v, c)
  PROVE  Seen'
<1>0. /\ UNCHANGED <<state, fd, gone, asker, taskFd, submitted, arrivals, handed>>
      /\ asker[r] \notin gone => c = asker[r]
      /\ \/ p # 2 /\ v = "piece" /\ stage[r] \in {"task", "handed"}
         \/ p = 2 /\ v \in {"done", "freed"} /\ stage[r] = "piece"
      /\ IF IsHttp(r) THEN inService[WorkerOf(r)] = r
                      ELSE outService[0] = r /\ v \in {"piece", "freed"} /\ p # 0
  BY DEF Wrote
<1> USE <1>0
<1>1. /\ TypeOK /\ Known /\ ClosedGone /\ r \in Requests /\ asker[r] \in Conns
      /\ c \in Conns /\ state[c] = "open" /\ fd[c] = taskFd[r] /\ c \notin gone
      /\ stage'[r] = v /\ \A s \in Requests \ {r} : stage'[s] = stage[s]
      /\ submitted \subseteq Requests
  BY DEF Wrote, IInv, TypeOK, Seen, TaskKnowsAsker, Behind
<1>2. /\ \A s, t : WorkerOf(s)' = WorkerOf(s) /\ (Before(s, t)' <=> Before(s, t))
      /\ \A s : IsHttp(s)' <=> IsHttp(s)
      /\ \A s : WriterOf(s)' = WriterOf(s)
  BY Settled DEF IsHttp, WriterOf, SenderNo
<1>3. PICK n : n = Len(wire[c]) + 1
  OBVIOUS
<1>4. /\ n \in Nat /\ Len(wire'[c]) = n /\ wire'[c][n] = <<r, p>>
      /\ wire'[c][n][1] = r /\ wire'[c][n][2] = p
      /\ \A i \in 1 .. Len(wire[c]) : wire'[c][i] = wire[c][i] /\ i < n
      /\ 1 .. n = 1 .. Len(wire[c]) \cup {n}
      /\ \A d \in Conns \ {c} : wire'[d] = wire[d]
  <2>1. /\ wire \in [Conns -> Seq(Requests \X {0, 1, 2})]
        /\ wire[c] \in Seq(Requests \X {0, 1, 2}) /\ <<r, p>> \in Requests \X {0, 1, 2}
    BY <1>1 DEF TypeOK
  <2> QED BY <1>1, <1>3, <2>1 DEF Wrote
<1>5. \A d \in Conns : /\ Own(d) \subseteq 1 .. Len(wire[d]) /\ Own(d) \subseteq Nat
                       /\ \A w : WrittenBy(d, w) \subseteq 1 .. Len(wire[d])
                                 /\ WrittenBy(d, w) \subseteq Nat
                       /\ \A i \in 1 .. Len(wire[d]) :
                            /\ i \in Nat /\ wire[d][i][1] \in submitted
                            /\ wire[d][i][2] \in {0, 1, 2}
                            /\ wire[d][i] = <<wire[d][i][1], wire[d][i][2]>>
  BY <1>1, PlacesAre
\* Where the wires stay as they are.
<1>6. \A d \in Conns \ {c} : Own(d)' = Own(d) /\ \A w : WrittenBy(d, w)' = WrittenBy(d, w)
  BY <1>2, <1>4 DEF Own, WrittenBy
<1>7. PICK w0 : w0 = WriterOf(r) /\ w0 \in Writers
  BY <1>1, WriterIs
<1>9. Len(wire[c]) \in Nat
  BY <1>1 DEF TypeOK
<1>10. /\ asker[r] # c => Own(c)' = Own(c)
       /\ asker[r] = c => Own(c)' = Own(c) \cup {n}
       /\ \A w : w # w0 => WrittenBy(c, w)' = WrittenBy(c, w)
       /\ WrittenBy(c, w0)' = WrittenBy(c, w0) \cup {n}
  <2>1. 1 .. n = 1 .. Len(wire[c]) \cup {n} /\ n \notin 1 .. Len(wire[c])
    BY <1>3, <1>4, <1>9
  <2>2. /\ asker[r] # c => Own(c)' = Own(c)
        /\ asker[r] = c => Own(c)' = Own(c) \cup {n}
    <3>1. Own(c)' = {i \in 1 .. n : asker[wire'[c][i][1]] = c}
      BY <1>4 DEF Own
    <3>2. \A i : i \in Own(c)' <=> \/ i \in 1 .. Len(wire[c]) /\ asker[wire[c][i][1]] = c
                                   \/ i = n /\ asker[r] = c
      BY <1>4, <2>1, <3>1
    <3>3. \A i : i \in Own(c) <=> i \in 1 .. Len(wire[c]) /\ asker[wire[c][i][1]] = c
      BY DEF Own
    <3> QED BY <3>2, <3>3
  <2>3. ASSUME NEW w
        PROVE  WrittenBy(c, w)' = IF w = w0 THEN WrittenBy(c, w) \cup {n}
                                            ELSE WrittenBy(c, w)
    <3>1. WrittenBy(c, w)' = {i \in 1 .. n : WriterOf(wire'[c][i][1]) = w}
      BY <1>2, <1>4 DEF WrittenBy
    <3>2. \A i \in 1 .. Len(wire[c]) : WriterOf(wire'[c][i][1]) = WriterOf(wire[c][i][1])
      BY <1>4
    <3>3. WriterOf(wire'[c][n][1]) = w0
      BY <1>4, <1>7
    <3>4. \A i : i \in WrittenBy(c, w)' <=>
                   \/ i \in 1 .. Len(wire[c]) /\ WriterOf(wire[c][i][1]) = w
                   \/ i = n /\ w0 = w
      BY <2>1, <3>1, <3>2, <3>3
    <3>5. \A i : i \in WrittenBy(c, w) <=>
                   i \in 1 .. Len(wire[c]) /\ WriterOf(wire[c][i][1]) = w
      BY DEF WrittenBy
    <3> QED BY <3>4, <3>5
  <2> QED BY <2>2, <2>3
<1>12. PICK P, Q : P = WrittenBy(c, w0) /\ Q = P \cup {n} /\ Q = WrittenBy(c, w0)'
                   /\ P \subseteq Nat /\ \A i \in P : i < n
  <2>1. \A i \in WrittenBy(c, w0) : i \in 1 .. Len(wire[c]) /\ i \in Nat /\ i < n
    BY <1>1, <1>4, <1>5
  <2> QED BY <1>10, <2>1
<1>13. /\ \A i \in Q : Last(Q, i) <=> i = n
       /\ \A i, j \in P : Follows(Q, i, j) <=> Follows(P, i, j)
       /\ \A i \in P : Follows(Q, i, n) <=> Last(P, i)
       /\ \A i \in Q : ~Follows(Q, n, i)
  <2>1. n \in Nat /\ P \subseteq Nat /\ (\A i \in P : i < n) /\ Q = P \cup {n}
    BY <1>4, <1>12
  <2> HIDE <1>1, <1>4, <1>12
  <2> QED BY <2>1, NewPlace
\* A thread is at one answer at a time.
<1>14. \A s \in submitted : stage[s] = "piece" /\ WriterOf(s) = w0 => s = r
  BY <1>1, <1>7, WriterIs
<1>15. \A d \in Conns \ gone : \A i \in 1 .. Len(wire[d]) : wire[d][i][1] = r => d = c
  BY <1>1 DEF Seen, Reached, IInv, FdsDistinct
<1>16. ClosedGone' /\ Reached'
  <2>1. ASSUME NEW d \in Conns \ gone, NEW i \in 1 .. Len(wire'[d])
        PROVE  state[d] = "open" /\ fd[d] = taskFd[wire'[d][i][1]]
    <3>1. CASE d = c /\ i = n
      BY <1>1, <1>4, <3>1
    <3>2. CASE i \in 1 .. Len(wire[d]) /\ wire'[d][i] = wire[d][i]
      BY <3>2 DEF Seen, Reached
    <3> QED BY <1>4, <2>1, <3>1, <3>2
  <2> QED BY <1>1, <2>1 DEF Seen, ClosedGone, Reached
<1>17. Wired'
  <2>1. ASSUME NEW d \in Conns, NEW i \in Own(d)', NEW s, s = wire'[d][i][1]
        PROVE  IF IsHttp(s) THEN stage'[s] # "task"
                            ELSE s \in handed /\ stage'[s] \in {"piece", "freed"}
    <3>1. CASE d = c /\ i = n
      BY <1>1, <1>4, <2>1, <3>1 DEF Ordered, OutOrdered
    <3>2. CASE i \in Own(d) /\ wire'[d][i] = wire[d][i]
      <4>1. /\ s \in Requests
            /\ IF IsHttp(s) THEN stage[s] # "task"
                            ELSE s \in handed /\ stage[s] \in {"piece", "freed"}
        BY <1>1, <1>5, <2>1, <3>2 DEF Seen, Wired
      <4>2. CASE s # r
        BY <1>1, <4>1, <4>2
      <4>3. CASE s = r
        BY <1>1, <4>1, <4>3
      <4> QED BY <4>2, <4>3
    <3>3. d # c => i \in Own(d) /\ wire'[d][i] = wire[d][i]
      BY <1>4, <1>6, <2>1
    <3>4. d = c /\ i # n => i \in Own(d) /\ wire'[d][i] = wire[d][i]
      BY <1>4, <1>5, <1>10, <2>1
    <3> QED BY <3>1, <3>2, <3>3, <3>4
  <2>2. \A d \in Conns : \A i \in Own(d)' :
          IF asker'[wire'[d][i][1]] \in HttpConns
            THEN stage'[wire'[d][i][1]] # "task"
            ELSE /\ wire'[d][i][1] \in handed'
                 /\ stage'[wire'[d][i][1]] \in {"piece", "freed"}
    <3>1. ASSUME NEW d \in Conns, NEW i \in Own(d)', NEW s, s = wire'[d][i][1]
          PROVE  IF asker'[s] \in HttpConns THEN stage'[s] # "task"
                   ELSE s \in handed' /\ stage'[s] \in {"piece", "freed"}
      BY <2>1, <3>1 DEF IsHttp
    <3> QED BY <3>1
  <2> HIDE <1>1, <1>2, <1>4
  <2> QED BY <2>2 DEF Wired, IsHttp
<1>18. HalvesGoOn'
  <2>1. ASSUME NEW d \in Conns \ gone, NEW w \in Writers, NEW i \in WrittenBy(d, w)',
               Last(WrittenBy(d, w)', i), wire'[d][i][2] # 2
        PROVE  stage'[wire'[d][i][1]] = "piece"
    <3>1. CASE d # c
      <4>1. i \in WrittenBy(d, w) /\ Last(WrittenBy(d, w), i) /\ wire'[d][i] = wire[d][i]
        BY <1>4, <1>6, <2>1, <3>1
      <4>2. stage[wire[d][i][1]] = "piece" /\ wire[d][i][1] \in submitted
            /\ wire[d][i][1] # r
        BY <1>5, <1>15, <2>1, <3>1, <4>1 DEF Seen, HalvesGoOn
      <4> QED BY <1>1, <4>1, <4>2
    <3>2. CASE d = c /\ w # w0
      <4>1. i \in WrittenBy(c, w) /\ Last(WrittenBy(c, w), i) /\ wire'[c][i] = wire[c][i]
        BY <1>4, <1>5, <1>7, <1>10, <2>1, <3>2
      <4>2. stage[wire[c][i][1]] = "piece" /\ wire[c][i][1] \in submitted
            /\ wire[c][i][1] # r
        BY <1>5, <1>7, <2>1, <3>2, <4>1 DEF Seen, HalvesGoOn, WrittenBy
      <4> QED BY <1>1, <3>2, <4>1, <4>2
    <3>3. CASE d = c /\ w = w0
      <4>1. i \in Q /\ Last(Q, i)
        BY <1>12, <2>1, <3>3
      <4>2. i = n
        BY <1>13, <4>1
      <4> QED BY <1>1, <1>4, <2>1, <3>3, <4>2
    <3> QED BY <3>1, <3>2, <3>3
  <2> QED BY <2>1 DEF HalvesGoOn, Writers, SenderNo, Last
<1>19. HalvesEnd'
  <2>1. ASSUME NEW s \in submitted, stage'[s] = "piece", asker[s] \notin gone,
               NEW d \in Conns, d = asker[s], NEW w, w = WriterOf(s)
        PROVE  \E i \in WrittenBy(d, w)' : /\ Last(WrittenBy(d, w)', i)
                                           /\ wire'[d][i] \in {<<s, 0>>, <<s, 1>>}
    <3>1. CASE s = r
      <4>1. d = c /\ w = w0 /\ p # 2
        BY <1>1, <1>7, <2>1, <3>1
      <4>2. n \in Q /\ Last(Q, n) /\ wire'[c][n] \in {<<s, 0>>, <<s, 1>>}
        BY <1>4, <1>12, <1>13, <3>1, <4>1
      <4> QED BY <1>12, <4>1, <4>2
    <3>2. CASE s # r
      <4>1. stage[s] = "piece"
        BY <1>1, <2>1, <3>2
      <4>2. PICK i \in WrittenBy(d, w) : /\ Last(WrittenBy(d, w), i)
                                         /\ wire[d][i] \in {<<s, 0>>, <<s, 1>>}
        BY <2>1, <4>1 DEF Seen, HalvesEnd
      <4>3. w # w0
        BY <1>14, <2>1, <3>2, <4>1
      <4>4. WrittenBy(d, w)' = WrittenBy(d, w) /\ wire'[d][i] = wire[d][i]
        BY <1>4, <1>5, <1>6, <1>10, <4>2, <4>3
      <4> QED BY <4>2, <4>4
    <3> QED BY <3>1, <3>2
  <2>2. ASSUME NEW s \in submitted, stage'[s] = "piece", asker[s] \notin gone
        PROVE  \E i \in WrittenBy(asker[s], WriterOf(s))' :
                 /\ Last(WrittenBy(asker[s], WriterOf(s)), i)'
                 /\ wire'[asker'[s]][i] \in {<<s, 0>>, <<s, 1>>}
    <3>1. PICK d \in Conns : d = asker[s] /\ d = asker'[s]
      BY <2>2 DEF IInv, TaskKnowsAsker
    <3>2. PICK w : w = WriterOf(s) /\ w = WriterOf(s)'
      BY <1>2
    <3>3. PICK i \in WrittenBy(d, w)' : /\ Last(WrittenBy(d, w)', i)
                                        /\ wire'[d][i] \in {<<s, 0>>, <<s, 1>>}
      BY <2>1, <2>2, <3>1, <3>2
    <3>4. WrittenBy(asker[s], WriterOf(s))' = WrittenBy(d, w)'
      BY <3>1, <3>2 DEF WrittenBy
    <3> QED BY <3>1, <3>3, <3>4 DEF Last
  <2> QED BY <2>2 DEF HalvesEnd
<1>20. NoCut'
  <2>1. ASSUME NEW d \in Conns, NEW i \in WrittenBy(d, SenderNo)' PROVE wire'[d][i][2] # 0
    <3>1. CASE i \in WrittenBy(d, SenderNo) /\ wire'[d][i] = wire[d][i]
      BY <3>1 DEF Seen, NoCut
    <3>2. CASE d = c /\ w0 = SenderNo /\ i = n
      <4>1. ~IsHttp(r)
        BY <1>1, <1>7, <3>2, WriterIs
      <4> QED BY <1>4, <3>2, <4>1
    <3>3. CASE d # c
      BY <1>4, <1>6, <2>1, <3>1, <3>3
    <3>4. CASE d = c /\ w0 # SenderNo
      BY <1>4, <1>5, <1>10, <2>1, <3>1, <3>4
    <3>5. CASE d = c /\ w0 = SenderNo
      BY <1>4, <1>5, <1>12, <2>1, <3>1, <3>2, <3>5
    <3> QED BY <3>3, <3>4, <3>5
  <2> QED BY <2>1 DEF NoCut, SenderNo
<1>21. AllWhole'
  <2>1. ASSUME NEW d \in Conns, NEW w \in Writers PROVE WholeBy(d, w)'
    <3>0. WholeBy(d, w)
      BY DEF Seen, AllWhole
    <3>1. CASE d # c \/ w # w0
      <4>1. /\ WrittenBy(d, w)' = WrittenBy(d, w)
            /\ \A i \in WrittenBy(d, w) : wire'[d][i] = wire[d][i]
        BY <1>4, <1>5, <1>6, <1>10, <3>1
      <4> QED BY <3>0, <4>1, WholeKept
    <3>2. CASE d = c /\ w = w0
      <4>0. \A i \in P : /\ wire'[c][i] = wire[c][i] /\ i # n
                         /\ wire[c][i][1] \in submitted /\ WriterOf(wire[c][i][1]) = w0
        BY <1>1, <1>4, <1>5, <1>12 DEF WrittenBy
      <4>1. \A i \in P :
              LET s == wire[c][i][1]
              IN  /\ wire[c][i][2] # 2 => \A j \in P : Follows(P, i, j) => wire[c][j] = <<s, 2>>
                  /\ wire[c][i][2] = 2 /\ asker[s] = c =>
                       \E j \in P : Follows(P, j, i) /\ wire[c][j] \in {<<s, 0>>, <<s, 1>>}
        BY <1>12, <3>0, <3>2 DEF WholeBy
      <4>2. ASSUME NEW i \in P, wire[c][i][2] # 2, Last(P, i)
            PROVE  <<r, p>> = <<wire[c][i][1], 2>>
        <5>1. stage[wire[c][i][1]] = "piece"
          BY <1>1, <1>7, <1>12, <4>2 DEF Seen, HalvesGoOn
        <5>2. wire[c][i][1] = r
          BY <1>14, <4>0, <5>1
        <5> QED BY <5>1, <5>2
      <4>3. ASSUME p = 2, asker[r] = c
            PROVE  \E j \in P : Last(P, j) /\ wire[c][j] \in {<<r, 0>>, <<r, 1>>}
        <5>1. stage[r] = "piece"
          BY <4>3
        <5> QED BY <1>1, <1>7, <1>12, <4>3, <5>1 DEF Seen, HalvesEnd
      <4>4. ASSUME NEW i \in Q
            PROVE  LET s == wire'[c][i][1]
                   IN  /\ wire'[c][i][2] # 2 =>
                            \A j \in Q : Follows(Q, i, j) => wire'[c][j] = <<s, 2>>
                       /\ wire'[c][i][2] = 2 /\ asker[s] = c =>
                            \E j \in Q : Follows(Q, j, i)
                                         /\ wire'[c][j] \in {<<s, 0>>, <<s, 1>>}
        <5>1. CASE i = n
          <6>1. ASSUME p = 2, asker[r] = c
                PROVE  \E j \in Q : Follows(Q, j, n) /\ wire'[c][j] \in {<<r, 0>>, <<r, 1>>}
            BY <1>12, <1>13, <4>0, <4>3, <6>1
          <6> QED BY <1>4, <1>13, <5>1, <6>1
        <5>2. CASE i \in P
          <6>1. ASSUME NEW j \in Q, wire[c][i][2] # 2, Follows(Q, i, j)
                PROVE  wire'[c][j] = <<wire[c][i][1], 2>>
            <7>1. CASE j = n
              BY <1>4, <1>13, <4>2, <5>2, <6>1, <7>1
            <7>2. CASE j \in P
              BY <1>13, <4>0, <4>1, <5>2, <6>1, <7>2
            <7> QED BY <1>12, <7>1, <7>2
          <6>2. ASSUME wire[c][i][2] = 2, asker[wire[c][i][1]] = c
                PROVE  \E j \in Q : Follows(Q, j, i)
                         /\ wire'[c][j] \in {<<wire[c][i][1], 0>>, <<wire[c][i][1], 1>>}
            <7>1. PICK j \in P : Follows(P, j, i)
                         /\ wire[c][j] \in {<<wire[c][i][1], 0>>, <<wire[c][i][1], 1>>}
              BY <4>1, <5>2, <6>2
            <7> QED BY <1>12, <1>13, <4>0, <5>2, <7>1
          <6> QED BY <4>0, <5>2, <6>1, <6>2
        <5> QED BY <1>12, <5>1, <5>2
      <4> QED BY <1>12, <3>2, <4>4, WholeNow
    <3> QED BY <3>1, <3>2
  <2> QED BY <2>1 DEF AllWhole, Writers, SenderNo
<1>22. OrderPerWorker'
  <2>1. ASSUME NEW d \in Conns
        PROVE  \A i, j \in Own(d)' :
                 /\ i < j /\ wire'[d][i][1] # wire'[d][j][1]
                 /\ WorkerOf(wire'[d][i][1]) = WorkerOf(wire'[d][j][1])
                 => Before(wire'[d][i][1], wire'[d][j][1])
    <3>1. CASE d # c \/ asker[r] # c
      <4>1. Own(d)' = Own(d) /\ \A k \in Own(d) : wire'[d][k] = wire[d][k]
        BY <1>4, <1>5, <1>6, <1>10, <3>1
      <4> QED BY <4>1 DEF Seen, OrderPerWorker
    <3>2. CASE d = c /\ asker[r] = c
      <4>1. /\ Own(c)' = Own(c) \cup {n} /\ wire'[c][n][1] = r
            /\ \A k \in Own(c) : /\ wire'[c][k] = wire[c][k] /\ k < n /\ k \in Nat
                                 /\ wire[c][k][1] \in submitted /\ asker[wire[c][k][1]] = c
        BY <1>4, <1>5, <1>10, <3>2 DEF Own
      <4>2. ~IsHttp(r) => r \in handed
        BY <1>1 DEF Ordered, OutOrdered
      <4>3. Wired /\ OrderPerWorker /\ n \in Nat
        BY <1>4 DEF Seen
      <4>4. \A i, j \in Own(c)' :
              /\ i < j /\ wire'[c][i][1] # wire'[c][j][1]
              /\ WorkerOf(wire'[c][i][1]) = WorkerOf(wire'[c][j][1])
              => Before(wire'[c][i][1], wire'[c][j][1])
        <5>1. IF IsHttp(r) THEN inService[WorkerOf(r)] = r
                           ELSE outService[0] = r /\ r \in handed
          BY <4>2
        <5>2. TypeOK /\ Ordered /\ asker[r] = c
          BY <1>1, <3>2
        <5> QED BY <4>1, <4>3, <5>1, <5>2, OrderKept
      <4> QED BY <3>2, <4>4
    <3> QED BY <3>1, <3>2
  <2>2. \A s, t : WorkerOf(s)' = WorkerOf(s) /\ (Before(s, t)' <=> Before(s, t))
    BY <1>2
  <2> QED BY <2>1, <2>2 DEF OrderPerWorker
<1> QED BY <1>16, <1>17, <1>18, <1>19, <1>20, <1>21, <1>22 DEF Seen

LEMMA InitSeen == Init => Seen
<1> SUFFICES ASSUME Init PROVE Seen
    OBVIOUS
<1>1. /\ \A c \in Conns : state[c] = "new" /\ wire[c] = <<>>
      /\ \A r \in Requests : stage[r] = "none"
      /\ submitted = {}
  BY DEF Init, Pool!Init
<1>2. \A c \in Conns : Own(c) = {} /\ \A w : WrittenBy(c, w) = {}
  BY <1>1 DEF Own, WrittenBy
<1>3. ClosedGone /\ Reached /\ Wired /\ HalvesGoOn /\ HalvesEnd /\ NoCut
  BY <1>1, <1>2 DEF ClosedGone, Reached, Wired, HalvesGoOn, HalvesEnd, NoCut
<1>4. AllWhole /\ OrderPerWorker
  BY <1>2 DEF AllWhole, WholeBy, OrderPerWorker
<1> QED BY <1>3, <1>4 DEF Seen

\* Connections come, go and bring requests; the answers on the wire stay.
LEMMA LoopSeen ==
  ASSUME IInv, Ordered, Seen,
         EventLoop \/ (\E c \in Conns : PeerCloses(c)) \/ UNCHANGED vars
  PROVE  Seen'
<1>0. TypeOK /\ Known
  BY DEF IInv
<1>1. /\ UNCHANGED wire /\ gone \subseteq gone' /\ handed' = handed
      /\ ClosedGone' /\ Reached'
  <2>1. UNCHANGED wire /\ gone \subseteq gone' /\ handed' = handed
    BY DEF EventLoop, Start, Accept, ReadData, CloseConn, HandleData, EndData, PeerCloses,
       Sender!Toggle, vars, connVars, outVars
  <2>2. \A c \in Conns : state'[c] = "closed" => state[c] = "closed" \/ c \in gone
    BY DEF EventLoop, Start, Accept, ReadData, CloseConn, HandleData, EndData, PeerCloses,
       vars, connVars, IInv, TypeOK
  <2>3. \A c \in Conns : state[c] = "open" /\ c \notin gone =>
          state'[c] = "open" /\ fd'[c] = fd[c]
    BY DEF EventLoop, Start, Accept, ReadData, CloseConn, HandleData, EndData, PeerCloses,
       vars, connVars, IInv, TypeOK
  <2>4. \A c \in Conns : \A i \in 1 .. Len(wire[c]) :
          wire[c][i][1] \in submitted /\ taskFd'[wire[c][i][1]] = taskFd[wire[c][i][1]]
    <3>1. \A c \in Conns : \A i \in 1 .. Len(wire[c]) :
            wire[c][i][1] \in submitted /\ wire[c][i][1] \in Requests
      BY <1>0, PlacesAre
    <3>2. \A s \in submitted : s \in Requests => taskFd'[s] = taskFd[s]
      BY DEF EventLoop, Start, Accept, ReadData, CloseConn, HandleData, EndData, PeerCloses,
         Pool!Submit, vars, taskVars, IInv, TypeOK
    <3> QED BY <3>1, <3>2
  <2>5. Reached'
    BY <2>1, <2>3, <2>4 DEF Seen, Reached
  <2> QED BY <2>1, <2>2, <2>5 DEF Seen, ClosedGone
<1>2. ASSUME UNCHANGED <<asker, stage, submitted, arrivals>>
      PROVE  Seen'
  <2>1. \A r, s : WorkerOf(r)' = WorkerOf(r) /\ (Before(r, s)' <=> Before(r, s))
    BY <1>2, Settled
  <2> QED BY <1>1, <1>2, <2>1, SeenQuiet
<1>3. ASSUME NEW r \in Requests, HandleData(r)
      PROVE  Seen'
  <2>1. /\ r \notin submitted /\ submitted' = submitted \cup {r}
        /\ stage' = [stage EXCEPT ![r] = "task"]
        /\ \A s \in submitted :
             asker'[s] = asker[s] /\ stage'[s] = stage[s] /\ WorkerOf(s)' = WorkerOf(s)
        /\ \A s, t \in submitted' :
             Before(s, t)' <=> (Before(s, t) \/ (t = r /\ s \in submitted))
    BY <1>3, ArrivalOf DEF IInv, Ordered
  <2>2. stage'[r] = "task" /\ submitted' \ submitted = {r}
    BY <2>1 DEF IInv, TypeOK
  <2> QED BY <1>1, <2>1, <2>2, SeenQuiet
<1>4. (\E r \in Requests : HandleData(r)) \/ UNCHANGED <<asker, stage, submitted, arrivals>>
  BY DEF EventLoop, Start, Accept, ReadData, CloseConn, EndData, PeerCloses,
     Pool!Toggle, vars, taskVars, poolVars
<1> QED BY <1>2, <1>3, <1>4

\* A thread writes a piece of what it is at, and somebody gets it or nobody.
LEMMA PieceSeen ==
  ASSUME IInv, Ordered, Seen, NEW r \in submitted, NEW p \in {0, 1, 2}, NEW v \in Stages,
         Write(r, p),
         UNCHANGED <<state, fd, gone, asker, taskFd, submitted, arrivals, handed>>,
         stage' = [stage EXCEPT ![r] = v],
         \/ p # 2 /\ v = "piece" /\ stage[r] \in {"task", "handed"}
         \/ p = 2 /\ v \in {"done", "freed"} /\ stage[r] = "piece",
         IF IsHttp(r) THEN inService[WorkerOf(r)] = r
                      ELSE outService[0] = r /\ v \in {"piece", "freed"} /\ p # 0
  PROVE  Seen'
<1>1. CASE wire' = wire /\ asker[r] \in gone /\ Behind(r) \subseteq gone
  <2>1. \A s, t : WorkerOf(s)' = WorkerOf(s) /\ (Before(s, t)' <=> Before(s, t))
    BY Settled
  <2>2. ClosedGone' /\ Reached' /\ r \in Requests /\ submitted \subseteq Requests
    BY <1>1 DEF Seen, ClosedGone, Reached, IInv, TypeOK
  <2>3. \A s \in submitted : s # r => stage'[s] = stage[s]
    BY <2>2 DEF IInv, TypeOK
  <2>4. stage'[r] = v
    BY <2>2 DEF IInv, TypeOK
  <2>5. r \in handed => v \in {"piece", "freed"} /\ ~IsHttp(r)
    BY DEF Ordered, Placed
  <2>6. \A s \in submitted :
           /\ stage'[s] = "piece" => stage[s] = "piece" \/ asker[s] \in gone
           /\ stage[s] = "piece" => stage'[s] = "piece" \/ Behind(s) \subseteq gone
           /\ stage[s] # "task" => stage'[s] # "task"
           /\ s \in handed /\ stage[s] \in {"piece", "freed"} =>
                stage'[s] \in {"piece", "freed"}
    BY <1>1, <2>3, <2>4, <2>5
  <2> QED BY <1>1, <2>1, <2>2, <2>6, SeenQuiet
<1>2. ASSUME NEW c \in Behind(r) \ gone,
             wire' = [wire EXCEPT ![c] = Append(@, <<r, p>>)],
             asker[r] \notin gone => c = asker[r]
      PROVE  Seen'
  <2>1. c \in Conns /\ Wrote(r, p, v, c)
    BY <1>2 DEF Wrote, Behind
  <2> QED BY <2>1, SeenWrite
<1>3. ClosedGone
  BY DEF Seen
<1> QED BY <1>1, <1>2, <1>3, WireAfterWrite

\* A thread ends an answer without writing.
LEMMA EndSeen ==
  ASSUME IInv, Ordered, Seen, NEW r \in submitted, NEW v \in {"done", "freed"},
         UNCHANGED <<wire, state, fd, gone, asker, taskFd, submitted, arrivals, handed>>,
         stage' = [stage EXCEPT ![r] = v], IsHttp(r) \/ v = "freed",
         stage[r] = "piece" => Behind(r) \subseteq gone
  PROVE  Seen'
<1>1. \A s, t : WorkerOf(s)' = WorkerOf(s) /\ (Before(s, t)' <=> Before(s, t))
  BY Settled
<1>2. ClosedGone' /\ Reached' /\ r \in Requests /\ submitted \subseteq Requests
  BY DEF Seen, ClosedGone, Reached, IInv, TypeOK
<1>3. \A s \in submitted : s # r => stage'[s] = stage[s]
  BY <1>2 DEF IInv, TypeOK
<1>4. stage'[r] = v /\ (r \in handed => v = "freed")
  BY <1>2 DEF IInv, TypeOK, Ordered, Placed
<1>5. \A s \in submitted :
         /\ stage'[s] = "piece" => stage[s] = "piece" \/ asker[s] \in gone
         /\ stage[s] = "piece" => stage'[s] = "piece" \/ Behind(s) \subseteq gone
         /\ stage[s] # "task" => stage'[s] # "task"
         /\ s \in handed /\ stage[s] \in {"piece", "freed"} =>
              stage'[s] \in {"piece", "freed"}
  BY <1>3, <1>4
<1> QED BY <1>1, <1>2, <1>5, SeenQuiet

LEMMA WorkerSeen ==
  ASSUME IInv, Ordered, Seen, NEW l \in Pool!Lanes, Worker(l)
  PROVE  Seen'
<1> USE DEF connVars, taskVars, poolVars, outVars
<1>1. /\ UNCHANGED <<state, fd, gone, asker, taskFd, submitted, arrivals>>
      /\ handed \subseteq handed'
  BY DEF Worker, TakeTask, AddResponse, Discard, SendHead, SendBody, Return, Pool!Begin,
     Pool!End, Sender!Submit
<1>2. \A r, s : WorkerOf(r)' = WorkerOf(r) /\ (Before(r, s)' <=> Before(r, s))
  BY <1>1, Settled
<1>3. CASE TakeTask(l) \/ AddResponse(l) \/ Discard(l) \/ Return(l)
  <2>1. UNCHANGED wire
    BY <1>3 DEF TakeTask, AddResponse, Discard, Return
  <2>2. ClosedGone' /\ Reached'
    BY <1>1, <2>1 DEF Seen, ClosedGone, Reached
  <2>3. ASSUME NEW r \in submitted
        PROVE  \/ stage'[r] = stage[r]
               \/ stage[r] \in {"task", "done"} /\ stage'[r] \in {"handed", "freed", "leaked"}
    BY <1>3 DEF TakeTask, AddResponse, Discard, Return, Answering, IInv, TypeOK
  <2>4. \A r \in submitted :
           /\ stage'[r] = "piece" => stage[r] = "piece" \/ asker[r] \in gone
           /\ stage[r] = "piece" => stage'[r] = "piece" \/ Behind(r) \subseteq gone
           /\ stage[r] # "task" => stage'[r] # "task"
           /\ r \in handed /\ stage[r] \in {"piece", "freed"} =>
                stage'[r] \in {"piece", "freed"}
    BY <2>3
  <2>5. submitted' \ submitted = {} /\ \A r \in submitted : asker'[r] = asker[r]
    BY <1>1
  <2> QED BY <1>1, <1>2, <2>1, <2>2, <2>4, <2>5, SeenQuiet
<1>4. CASE SendHead(l) \/ SendBody(l)
  <2>0. PICK r : r = inService[l]
    OBVIOUS
  <2>1. /\ r \in submitted /\ IsHttp(r) /\ WorkerOf(r) = l /\ inService[WorkerOf(r)] = r
    <3>1. r # NoRequest /\ IsHttp(r)
      BY <1>4, <2>0 DEF SendHead, SendBody, Answering
    <3> QED BY <2>0, <3>1, ServedIsOut DEF IInv
  <2>2. UNCHANGED handed
    BY <1>4 DEF SendHead, SendBody
  <2>3. ASSUME NEW p \in {0, 1}, Write(r, p), stage[r] = "task",
               stage' = [stage EXCEPT ![r] = "piece"]
        PROVE  Seen'
    <3>1. p \in {0, 1, 2} /\ p # 2 /\ "piece" \in Stages
      BY DEF Stages
    <3>2. IF IsHttp(r) THEN inService[WorkerOf(r)] = r
                       ELSE outService[0] = r /\ "piece" \in {"piece", "freed"} /\ p # 0
      BY <2>1
    <3> QED BY <1>1, <2>1, <2>2, <2>3, <3>1, <3>2, PieceSeen
  <2>4. CASE Write(r, 2) /\ stage[r] = "piece" /\ stage' = [stage EXCEPT ![r] = "done"]
    BY <1>1, <2>1, <2>2, <2>4, PieceSeen DEF Stages
  <2>5. CASE /\ UNCHANGED wire /\ stage' = [stage EXCEPT ![r] = "done"]
             /\ stage[r] = "piece" => Behind(r) \subseteq gone
    BY <1>1, <2>1, <2>2, <2>5, EndSeen
  <2> QED BY <1>4, <2>0, <2>3, <2>4, <2>5 DEF SendHead, SendBody, Answering, WriteFails
<1> QED BY <1>3, <1>4 DEF Worker

LEMMA SenderSeen ==
  ASSUME IInv, Ordered, Seen, SendThread
  PROVE  Seen'
<1> USE DEF connVars, taskVars, poolVars, outVars
<1>1. UNCHANGED <<state, fd, gone, asker, taskFd, submitted, arrivals, handed>>
  BY DEF SendThread, TakeAnswer, SendFirst, SendLast, Sender!Begin, Sender!End
<1>2. \A r, s : WorkerOf(r)' = WorkerOf(r) /\ (Before(r, s)' <=> Before(r, s))
  BY <1>1, Settled
<1>3. CASE TakeAnswer
  <2>1. UNCHANGED <<wire, stage>> /\ submitted' \ submitted = {}
    BY <1>1, <1>3 DEF TakeAnswer
  <2>2. ClosedGone' /\ Reached'
    BY <1>1, <2>1 DEF Seen, ClosedGone, Reached
  <2> QED BY <1>1, <1>2, <2>1, <2>2, SeenQuiet
<1>4. CASE SendFirst \/ SendLast
  <2>0. PICK r : r = outService[0]
    OBVIOUS
  <2>1. r \in submitted /\ ~IsHttp(r) /\ outService[0] = r
    <3>1. r # NoRequest
      BY <1>4, <2>0 DEF SendFirst, SendLast
    <3> QED BY <2>0, <3>1 DEF Ordered, OutOrdered, Placed
  <2>2. CASE Write(r, 1) /\ stage[r] = "handed" /\ stage' = [stage EXCEPT ![r] = "piece"]
    <3>1. PICK p \in {0, 1, 2} : p = 1
      OBVIOUS
    <3>2. PICK v \in Stages : v = "piece"
      BY DEF Stages
    <3>3. IF IsHttp(r) THEN inService[WorkerOf(r)] = r
                       ELSE outService[0] = r /\ v \in {"piece", "freed"} /\ p # 0
      BY <2>1, <3>1, <3>2
    <3>4. /\ Write(r, p) /\ stage' = [stage EXCEPT ![r] = v]
          /\ p # 2 /\ v = "piece" /\ stage[r] \in {"task", "handed"}
      BY <2>2, <3>1, <3>2
    <3> QED BY <1>1, <2>1, <3>3, <3>4, PieceSeen
  <2>3. CASE Write(r, 2) /\ stage[r] = "piece" /\ stage' = [stage EXCEPT ![r] = "freed"]
    <3>1. 2 \in {0, 1, 2} /\ "freed" \in Stages
      BY DEF Stages
    <3>2. IF IsHttp(r) THEN inService[WorkerOf(r)] = r
                       ELSE outService[0] = r /\ "freed" \in {"piece", "freed"} /\ 2 # 0
      BY <2>1
    <3> QED BY <1>1, <2>1, <2>3, <3>1, <3>2, PieceSeen
  <2>4. CASE WriteFails(r) /\ stage' = [stage EXCEPT ![r] = "freed"]
    BY <1>1, <2>1, <2>4, EndSeen DEF WriteFails
  <2> QED BY <1>4, <2>0, <2>2, <2>3, <2>4 DEF SendFirst, SendLast
<1> QED BY <1>3, <1>4 DEF SendThread

LEMMA AlwaysSeen == SafetySpec => [](IInv /\ Ordered /\ Seen)
<1>1. Init => IInv /\ Ordered /\ Seen
  BY InitIInv, InitOrdered, InitSeen
<1>2. IInv /\ Ordered /\ Seen /\ [Next]_vars => IInv' /\ Ordered' /\ Seen'
  <2>1. IInv => TypeOK /\ Known
    BY DEF IInv
  <2>2. IInv /\ Ordered /\ Seen /\ [Next]_vars => Seen'
    BY LoopSeen, WorkerSeen, SenderSeen DEF Next
  <2> QED BY <2>1, <2>2, NextIInv, NextOrdered
<1> QED BY <1>1, <1>2, PTL DEF SafetySpec

\* Through the send_thread no answer is cut or torn by another answer of the
\* send_thread, stray ones too, however many workers answer at once; only what a
\* worker writes for an HTTP client that was closed may come in between.
THEOREM PbWhole == SafetySpec => []PbAnswersWhole
<1>1. IInv /\ Ordered /\ Seen => PbAnswersWhole
  <2> SUFFICES ASSUME IInv, Ordered, Seen, NEW c \in PbConns
               PROVE  /\ WholeBy(c, SenderNo)
                      /\ \A i \in WrittenBy(c, SenderNo) : wire[c][i][2] # 0
                      /\ \A i \in 1 .. Len(wire[c]) :
                           i \in WrittenBy(c, SenderNo) \/ state[asker[wire[c][i][1]]] = "closed"
    BY DEF PbAnswersWhole
  <2>1. WholeBy(c, SenderNo) /\ \A i \in WrittenBy(c, SenderNo) : wire[c][i][2] # 0
    BY DEF Seen, AllWhole, NoCut, Writers
  <2>2. ASSUME NEW i \in 1 .. Len(wire[c]), i \notin WrittenBy(c, SenderNo)
        PROVE  state[asker[wire[c][i][1]]] = "closed"
    <3>1. IsHttp(wire[c][i][1])
      BY <2>2 DEF WrittenBy, WriterOf
    <3>2. asker[wire[c][i][1]] # c
      BY <3>1 DEF IsHttp
    <3> QED BY <3>2 DEF IInv, AnswersReachAsker
  <2> QED BY <2>1, <2>2
<1> QED BY <1>1, AlwaysSeen, PTL

\* What one worker writes to one connection comes in whole answers, but for headers
\* a full socket cut: an answer is damaged by such a cut or by another thread only.
THEOREM HttpWhole == SafetySpec => []HttpBodyFollowsHead
<1>1. Seen => HttpBodyFollowsHead
  BY DEF Seen, AllWhole, Writers, HttpBodyFollowsHead
<1> QED BY <1>1, AlwaysSeen, PTL

\* The answers each worker gives to a connection leave in the order its requests
\* came, through both queues.
THEOREM WorkersKeepOrder == SafetySpec => []OrderPerWorker
<1>1. Seen => OrderPerWorker
  BY DEF Seen
<1> QED BY <1>1, AlwaysSeen, PTL
=============================================================================
