--------------------------- MODULE ThreadPoolProofs --------------------------
(***************************************************************************)
(* Proofs about ThreadPool for every pool size and every set of tasks.     *)
(***************************************************************************)
EXTENDS ThreadPool, TLAPS

\* What the threads hold: between the wrap and the increment m_task_index is the
\* index of a worker, the task in the main thread's hand was not pushed before,
\* and a worker has a task in hand exactly while it is inside run().
InHand ==
  /\ addPc \in {"enter", "holding", "release"} => taskIndex \in Workers
  /\ addPc = "enter" => addTask \in Tasks \ submitted
  /\ \A w \in Workers : running[w] # NoTask <=> pc[w] = "run"

\* How start-up, serving and stopping bound one another.
PhaseInv ==
  /\ phase = "serving" => ready = Workers
  /\ addPc # "idle" => phase = "serving"
  /\ stopPc # "none" => phase = "serving"
  /\ \A w \in Workers : deque[w] # <<>> => phase = "serving"
  /\ \A w \in Workers : pc[w] = "run" => phase = "serving"

IInv == TypeOK /\ InHand /\ PhaseInv /\ NoSleepOnWork /\ FreedAfterExit
        /\ TasksAccounted

USE PoolAssumption DEF PoolAssumption, Workers

-----------------------------------------------------------------------------
(* Type correctness.                                                       *)

LEMMA InitType == Init => TypeOK /\ InHand
  BY DEF Init, TypeOK, InHand, WorkerPcs, AddPcs, StopPcs

LEMMA NextType == TypeOK /\ InHand /\ [Next]_vars => TypeOK' /\ InHand'
<1> SUFFICES ASSUME TypeOK, InHand, [Next]_vars
             PROVE  TypeOK' /\ InHand'
    OBVIOUS
<1> USE DEF TypeOK, InHand, WorkerPcs, AddPcs, StopPcs, Wrap,
            startVars, workVars, addVars, stopVars, histVars
<1>1. CASE StartUp
  <2>1. CASE CreateWorker
    BY <2>1 DEF CreateWorker
  <2>2. CASE ConnectWorker
    BY <2>2 DEF ConnectWorker
  <2>3. CASE WorkerInitFails
    BY <2>3 DEF WorkerInitFails
  <2>4. CASE FinishInit
    BY <2>4 DEF FinishInit
  <2> QED BY <1>1, <2>1, <2>2, <2>3, <2>4 DEF StartUp
<1>2. CASE AddTask
  <2>1. ASSUME NEW t \in Tasks, EnterAdd(t) PROVE TypeOK' /\ InHand'
    BY <2>1 DEF EnterAdd
  <2>2. CASE PushTask
    BY <2>2 DEF PushTask
  <2>3. CASE SignalTask
    BY <2>3 DEF SignalTask, Signalled
  <2>4. CASE LeaveAdd
    BY <2>4 DEF LeaveAdd
  <2>5. CASE PushOnDeleted
    BY <2>5 DEF PushOnDeleted
  <2> QED BY <1>2, <2>1, <2>2, <2>3, <2>4, <2>5 DEF AddTask
<1>3. ASSUME NEW w \in Workers, Run(w) \/ WakeSpuriously(w)
      PROVE  TypeOK' /\ InHand'
  <2>1. CASE CheckFlag(w)
    BY <2>1 DEF CheckFlag
  <2>2. CASE TakeTask(w)
    BY <2>2 DEF TakeTask
  <2>3. CASE Sleep(w)
    BY <2>3 DEF Sleep
  <2>4. CASE WakeUp(w)
    BY <2>4 DEF WakeUp
  <2>5. CASE FinishTask(w)
    BY <2>5 DEF FinishTask
  <2>6. CASE WakeSpuriously(w)
    BY <2>6 DEF WakeSpuriously, Signalled
  <2> QED BY <1>3, <2>1, <2>2, <2>3, <2>4, <2>5, <2>6 DEF Run
<1>4. CASE Interrupt
  BY <1>4 DEF Interrupt
<1>5. CASE Destory
  <2>1. CASE ClearFlag
    BY <2>1 DEF ClearFlag
  <2>2. CASE SignalStop
    BY <2>2 DEF SignalStop, Signalled
  <2>3. CASE Join
    BY <2>3 DEF Join
  <2> QED BY <1>5, <2>1, <2>2, <2>3 DEF Destory
<1>6. CASE UNCHANGED vars
  BY <1>6 DEF vars
<1> QED BY <1>1, <1>2, <1>3, <1>4, <1>5, <1>6 DEF Next

\* Every state variable keeps its type, whatever the pool size: m_task_index
\* never leaves the array, although it is incremented before it wraps.
THEOREM TypeCorrect == SafetySpec => []TypeOK
<1>1. SafetySpec => [](TypeOK /\ InHand)
  BY InitType, NextType, PTL DEF SafetySpec
<1> QED BY <1>1, PTL
-----------------------------------------------------------------------------
(* Every task is accounted for.                                            *)

LEMMA InitIInv == Init => IInv
  BY InitType DEF Init, IInv, PhaseInv, NoSleepOnWork, FreedAfterExit,
     TasksAccounted, QueuedOnce, RunningOnce, NoneLost

\* Actions that leave the deques, the tasks in hand and the history alone.
LEMMA NextPhase ==
  TypeOK /\ InHand /\ PhaseInv /\ [Next]_vars => PhaseInv'
<1> SUFFICES ASSUME TypeOK, InHand, PhaseInv, [Next]_vars
             PROVE  PhaseInv'
    OBVIOUS
<1> USE DEF TypeOK, InHand, PhaseInv,
            startVars, workVars, addVars, stopVars, histVars
<1>1. CASE StartUp
  <2>1. CASE CreateWorker
    BY <2>1 DEF CreateWorker
  <2>2. CASE ConnectWorker
    BY <2>2 DEF ConnectWorker
  <2>3. CASE WorkerInitFails
    BY <2>3 DEF WorkerInitFails
  <2>4. CASE FinishInit
    BY <2>4 DEF FinishInit
  <2> QED BY <1>1, <2>1, <2>2, <2>3, <2>4 DEF StartUp
<1>2. CASE AddTask
  <2>1. ASSUME NEW t \in Tasks, EnterAdd(t) PROVE PhaseInv'
    BY <2>1 DEF EnterAdd, LoopRuns
  <2>2. CASE PushTask
    BY <2>2 DEF PushTask, LoopRuns
  <2>3. CASE SignalTask
    BY <2>3 DEF SignalTask, Signalled, LoopRuns
  <2>4. CASE LeaveAdd
    BY <2>4 DEF LeaveAdd, LoopRuns
  <2>5. CASE PushOnDeleted
    BY <2>5 DEF PushOnDeleted, LoopRuns
  <2> QED BY <1>2, <2>1, <2>2, <2>3, <2>4, <2>5 DEF AddTask
<1>3. ASSUME NEW w \in Workers, Run(w) \/ WakeSpuriously(w)
      PROVE  PhaseInv'
  <2>1. CASE CheckFlag(w)
    BY <2>1 DEF CheckFlag
  <2>2. CASE TakeTask(w)
    BY <2>2 DEF TakeTask
  <2>3. CASE Sleep(w)
    BY <2>3 DEF Sleep
  <2>4. CASE WakeUp(w)
    BY <2>4 DEF WakeUp
  <2>5. CASE FinishTask(w)
    BY <2>5 DEF FinishTask
  <2>6. CASE WakeSpuriously(w)
    BY <2>6 DEF WakeSpuriously, Signalled
  <2> QED BY <1>3, <2>1, <2>2, <2>3, <2>4, <2>5, <2>6 DEF Run
<1>4. CASE Interrupt
  BY <1>4 DEF Interrupt
<1>5. CASE Destory
  <2>1. CASE ClearFlag
    BY <2>1 DEF ClearFlag
  <2>2. CASE SignalStop
    BY <2>2 DEF SignalStop, Signalled
  <2>3. CASE Join
    BY <2>3 DEF Join
  <2> QED BY <1>5, <2>1, <2>2, <2>3 DEF Destory
<1>6. CASE UNCHANGED vars
  BY <1>6 DEF vars
<1> QED BY <1>1, <1>2, <1>3, <1>4, <1>5, <1>6 DEF Next

\* A push leaves the new task last in one deque and every other task in place.
LEMMA PushShape ==
  ASSUME TypeOK, InHand, PushTask
  PROVE  /\ addTask \in Tasks \ submitted
         /\ taskIndex \in Workers
         /\ Len(deque'[taskIndex]) = Len(deque[taskIndex]) + 1
         /\ deque'[taskIndex][Len(deque[taskIndex]) + 1] = addTask
         /\ \A i \in 1 .. Len(deque[taskIndex]) :
              deque'[taskIndex][i] = deque[taskIndex][i]
         /\ \A w \in Workers \ {taskIndex} : deque'[w] = deque[w]
  BY DEF TypeOK, InHand, PushTask

\* A worker that takes a task gets the first one; the others move up by one.
LEMMA TakeShape ==
  ASSUME TypeOK, NEW w \in Workers, TakeTask(w)
  PROVE  /\ Len(deque[w]) \in Nat \ {0}
         /\ running'[w] = deque[w][1]
         /\ Len(deque'[w]) = Len(deque[w]) - 1
         /\ \A i \in 1 .. Len(deque'[w]) : deque'[w][i] = deque[w][i + 1]
         /\ \A v \in Workers \ {w} : /\ deque'[v] = deque[v]
                                     /\ running'[v] = running[v]
<1>1. deque[w] \in Seq(Tasks) /\ deque[w] # <<>>
  BY DEF TypeOK, TakeTask
<1>2. deque'[w] = Tail(deque[w]) /\ running'[w] = Head(deque[w])
  BY DEF TypeOK, TakeTask
<1>3. \A v \in Workers \ {w} : deque'[v] = deque[v] /\ running'[v] = running[v]
  BY DEF TypeOK, TakeTask
<1> QED BY <1>1, <1>2, <1>3

LEMMA PushAccounted ==
  TypeOK /\ InHand /\ TasksAccounted /\ PushTask => TasksAccounted'
<1> SUFFICES ASSUME TypeOK, InHand, TasksAccounted, PushTask
             PROVE  TasksAccounted'
    OBVIOUS
<1> DEFINE d == taskIndex
           n == Len(deque[d]) + 1
<1>1. /\ running' = running /\ finished' = finished
      /\ submitted' = submitted \cup {addTask}
  BY DEF PushTask
<1>2. /\ addTask \in Tasks \ submitted /\ d \in Workers
      /\ Len(deque'[d]) = n /\ n \in Nat
      /\ deque'[d][n] = addTask
      /\ \A i \in 1 .. Len(deque[d]) : deque'[d][i] = deque[d][i]
      /\ \A w \in Workers \ {d} : deque'[w] = deque[w]
  BY PushShape DEF TypeOK
<1>3. addTask \notin submitted /\ addTask \notin finished
  BY <1>2 DEF TasksAccounted
<1>4. \A w \in Workers : running[w] # addTask
  BY <1>2, <1>3 DEF TasksAccounted, RunningOnce
<1>5. \A w \in Workers : \A i \in 1 .. Len(deque'[w]) :
        \/ w = d /\ i = n /\ deque'[w][i] = addTask
        \/ i \in 1 .. Len(deque[w]) /\ deque'[w][i] = deque[w][i]
  <2> SUFFICES ASSUME NEW w \in Workers, NEW i \in 1 .. Len(deque'[w])
               PROVE  \/ w = d /\ i = n /\ deque'[w][i] = addTask
                      \/ i \in 1 .. Len(deque[w]) /\ deque'[w][i] = deque[w][i]
    OBVIOUS
  <2>1. CASE w # d
    BY <2>1, <1>2
  <2>2. CASE w = d /\ i = n
    BY <2>2, <1>2
  <2>3. CASE w = d /\ i # n
    <3>1. Len(deque[d]) \in Nat
      BY <1>2 DEF TypeOK
    <3>2. i \in 1 .. Len(deque[d])
      BY <2>3, <3>1, <1>2
    <3> QED BY <2>3, <3>2, <1>2
  <2> QED BY <2>1, <2>2, <2>3
<1>6. QueuedOnce'
  <2> SUFFICES ASSUME NEW w \in Workers, NEW i \in 1 .. Len(deque'[w])
               PROVE  /\ deque'[w][i] \in submitted' \ finished'
                      /\ \A v \in Workers : running'[v] # deque'[w][i]
                      /\ \A v \in Workers : \A j \in 1 .. Len(deque'[v]) :
                           deque'[w][i] = deque'[v][j] => w = v /\ i = j
    BY DEF QueuedOnce
  <2>1. CASE w = d /\ i = n /\ deque'[w][i] = addTask
    <3>1. \A v \in Workers : \A j \in 1 .. Len(deque[v]) : deque[v][j] # addTask
      BY <1>3 DEF TasksAccounted, QueuedOnce
    <3> QED BY <2>1, <3>1, <1>1, <1>3, <1>4, <1>5
  <2>2. CASE i \in 1 .. Len(deque[w]) /\ deque'[w][i] = deque[w][i]
    <3>1. /\ deque[w][i] \in submitted \ finished
          /\ \A v \in Workers : running[v] # deque[w][i]
      BY <2>2 DEF TasksAccounted, QueuedOnce
    <3>2. \A v \in Workers : \A j \in 1 .. Len(deque[v]) :
            deque[w][i] = deque[v][j] => w = v /\ i = j
      BY <2>2 DEF TasksAccounted, QueuedOnce
    <3> QED BY <2>2, <3>1, <3>2, <1>1, <1>3, <1>5
  <2> QED BY <2>1, <2>2, <1>5
<1>7. RunningOnce'
  BY <1>1 DEF TasksAccounted, RunningOnce
<1>8. NoneLost'
  <2> SUFFICES ASSUME NEW t \in submitted' \ finished'
               PROVE  \E w \in Workers : running'[w] = t \/ InDeque(t, w)'
    BY DEF NoneLost
  <2>1. CASE t = addTask
    BY <2>1, <1>2 DEF InDeque
  <2>2. CASE t # addTask
    <3>1. PICK w \in Workers : running[w] = t \/ InDeque(t, w)
      BY <2>2, <1>1 DEF TasksAccounted, NoneLost
    <3>2. InDeque(t, w) => InDeque(t, w)'
      <4>1. CASE w = d
        <5>1. Len(deque[d]) \in Nat /\ 1 .. Len(deque[d]) \subseteq 1 .. n
          BY <1>2 DEF TypeOK
        <5> QED BY <4>1, <5>1, <1>2 DEF InDeque
      <4>2. CASE w # d
        BY <4>2, <1>2 DEF InDeque
      <4> QED BY <4>1, <4>2
    <3> QED BY <3>1, <3>2, <1>1
  <2> QED BY <2>1, <2>2
<1> QED BY <1>1, <1>6, <1>7, <1>8 DEF TasksAccounted

LEMMA TakeAccounted ==
  ASSUME NEW w \in Workers
  PROVE  TypeOK /\ InHand /\ TasksAccounted /\ TakeTask(w) => TasksAccounted'
<1> SUFFICES ASSUME TypeOK, InHand, TasksAccounted, TakeTask(w)
             PROVE  TasksAccounted'
    OBVIOUS
<1>1. finished' = finished /\ submitted' = submitted /\ running[w] = NoTask
  BY DEF TakeTask, InHand, histVars
<1>2. /\ Len(deque[w]) \in Nat \ {0}
      /\ running'[w] = deque[w][1]
      /\ Len(deque'[w]) = Len(deque[w]) - 1
      /\ \A i \in 1 .. Len(deque'[w]) : deque'[w][i] = deque[w][i + 1]
      /\ \A v \in Workers \ {w} : /\ deque'[v] = deque[v]
                                  /\ running'[v] = running[v]
  BY TakeShape
<1>3. /\ deque[w][1] \in submitted \ finished
      /\ \A v \in Workers : running[v] # deque[w][1]
  BY <1>2 DEF TasksAccounted, QueuedOnce
\* Where an entry of the new deques was before.
<1> DEFINE Old(v, i) == IF v = w THEN i + 1 ELSE i
<1>4. \A v \in Workers : \A i \in 1 .. Len(deque'[v]) :
        /\ Old(v, i) \in 1 .. Len(deque[v])
        /\ deque'[v][i] = deque[v][Old(v, i)]
        /\ v = w => Old(v, i) # 1
  <2> SUFFICES ASSUME NEW v \in Workers, NEW i \in 1 .. Len(deque'[v])
               PROVE  /\ Old(v, i) \in 1 .. Len(deque[v])
                      /\ deque'[v][i] = deque[v][Old(v, i)]
                      /\ v = w => Old(v, i) # 1
    OBVIOUS
  <2>1. CASE v = w
    BY <2>1, <1>2
  <2>2. CASE v # w
    BY <2>2, <1>2
  <2> QED BY <2>1, <2>2
<1>5. QueuedOnce'
  <2> SUFFICES ASSUME NEW v \in Workers, NEW i \in 1 .. Len(deque'[v])
               PROVE  /\ deque'[v][i] \in submitted \ finished
                      /\ \A u \in Workers : running'[u] # deque'[v][i]
                      /\ \A u \in Workers : \A j \in 1 .. Len(deque'[u]) :
                           deque'[v][i] = deque'[u][j] => v = u /\ i = j
    BY <1>1 DEF QueuedOnce
  <2>1. /\ deque'[v][i] \in submitted \ finished
        /\ \A u \in Workers : running[u] # deque'[v][i]
    <3>1. Old(v, i) \in 1 .. Len(deque[v]) /\ deque'[v][i] = deque[v][Old(v, i)]
      BY <1>4
    <3> HIDE DEF Old
    <3> QED BY <3>1 DEF TasksAccounted, QueuedOnce
  <2>2. deque'[v][i] # deque[w][1]
    <3> DEFINE a == Old(v, i)
    <3>1. /\ a \in 1 .. Len(deque[v]) /\ deque'[v][i] = deque[v][a]
          /\ v = w => a # 1
          /\ 1 \in 1 .. Len(deque[w])
      BY <1>2, <1>4
    <3> HIDE DEF a
    <3>2. deque[v][a] = deque[w][1] => v = w /\ a = 1
      BY <3>1 DEF TasksAccounted, QueuedOnce
    <3> QED BY <3>1, <3>2
  <2>3. ASSUME NEW u \in Workers, NEW j \in 1 .. Len(deque'[u]),
               deque'[v][i] = deque'[u][j]
        PROVE  v = u /\ i = j
    <3> DEFINE a == Old(v, i)
               b == Old(u, j)
    <3>2. /\ a \in 1 .. Len(deque[v]) /\ deque'[v][i] = deque[v][a]
          /\ b \in 1 .. Len(deque[u]) /\ deque'[u][j] = deque[u][b]
      BY <1>4
    <3> HIDE DEF a, b
    <3>3. v = u /\ a = b
      <4>1. deque[v][a] = deque[u][b]
        BY <2>3, <3>2
      <4>2. \A k \in 1 .. Len(deque[u]) : deque[v][a] = deque[u][k] => v = u /\ a = k
        BY <2>3, <3>2 DEF TasksAccounted, QueuedOnce
      <4> QED BY <4>1, <4>2, <3>2
    <3> USE DEF a, b
    <3>1. v = u /\ Old(v, i) = Old(u, j)
      BY <3>3
    <3> QED BY <3>1, <1>2
  <2> QED BY <2>1, <2>2, <2>3, <1>2
<1>6. RunningOnce'
  BY <1>1, <1>2, <1>3 DEF TasksAccounted, RunningOnce
<1>7. NoneLost'
  <2> SUFFICES ASSUME NEW t \in submitted \ finished
               PROVE  \E v \in Workers : running'[v] = t \/ InDeque(t, v)'
    BY <1>1 DEF NoneLost
  <2>1. PICK v \in Workers : running[v] = t \/ InDeque(t, v)
    BY DEF TasksAccounted, NoneLost
  <2>2. CASE running[v] = t
    BY <2>2, <1>1, <1>2 DEF TypeOK
  <2>3. CASE InDeque(t, v)
    <3>1. PICK i \in 1 .. Len(deque[v]) : deque[v][i] = t
      BY <2>3 DEF InDeque
    <3>2. CASE v # w
      BY <3>1, <3>2, <1>2 DEF InDeque
    <3>3. CASE v = w /\ i = 1
      BY <3>1, <3>3, <1>2
    <3>4. CASE v = w /\ i # 1
      <4>1. i - 1 \in 1 .. Len(deque'[v]) /\ deque'[v][i - 1] = t
        BY <3>1, <3>4, <1>2
      <4> QED BY <4>1 DEF InDeque
    <3> QED BY <3>2, <3>3, <3>4
  <2> QED BY <2>1, <2>2, <2>3
<1> QED BY <1>1, <1>5, <1>6, <1>7 DEF TasksAccounted

LEMMA FinishAccounted ==
  ASSUME NEW w \in Workers
  PROVE  TypeOK /\ InHand /\ TasksAccounted /\ FinishTask(w) => TasksAccounted'
<1> SUFFICES ASSUME TypeOK, InHand, TasksAccounted, FinishTask(w)
             PROVE  TasksAccounted'
    OBVIOUS
<1> DEFINE t == running[w]
<1>1. /\ deque' = deque /\ submitted' = submitted
      /\ finished' = finished \cup {t}
      /\ running'[w] = NoTask
      /\ \A v \in Workers \ {w} : running'[v] = running[v]
  BY DEF FinishTask, TypeOK
<1>2. t # NoTask /\ t \in submitted
  BY DEF FinishTask, InHand, TasksAccounted, RunningOnce
<1>3. \A v \in Workers : \A i \in 1 .. Len(deque[v]) : deque[v][i] # t
  BY DEF TasksAccounted, QueuedOnce
<1>4. \A v \in Workers : \A i \in 1 .. Len(deque[v]) : deque[v][i] # NoTask
  BY DEF TypeOK
<1>5. QueuedOnce'
  <2> SUFFICES ASSUME NEW v \in Workers, NEW i \in 1 .. Len(deque[v])
               PROVE  /\ deque[v][i] \in submitted' \ finished'
                      /\ \A u \in Workers : running'[u] # deque[v][i]
                      /\ \A u \in Workers : \A j \in 1 .. Len(deque[u]) :
                           deque[v][i] = deque[u][j] => v = u /\ i = j
    BY <1>1 DEF QueuedOnce
  <2>1. QueuedOnce
    BY DEF TasksAccounted
  <2>2. deque[v][i] # t /\ deque[v][i] # NoTask
    BY <1>3, <1>4
  <2>3. deque[v][i] \in submitted' \ finished'
    BY <1>1, <2>1, <2>2 DEF QueuedOnce
  <2>4. \A u \in Workers : running'[u] # deque[v][i]
    BY <1>1, <2>1, <2>2 DEF QueuedOnce
  <2> QED BY <2>1, <2>3, <2>4 DEF QueuedOnce
<1>6. RunningOnce'
  BY <1>1, <1>2 DEF TasksAccounted, RunningOnce
<1>7. NoneLost'
  BY <1>1, <1>2 DEF TasksAccounted, NoneLost, InDeque
<1> QED BY <1>1, <1>2, <1>5, <1>6, <1>7 DEF TasksAccounted

taskVars == <<deque, running, submitted, finished>>

LEMMA NextAccounted ==
  TypeOK /\ InHand /\ TasksAccounted /\ [Next]_vars => TasksAccounted'
<1> SUFFICES ASSUME TypeOK, InHand, TasksAccounted, [Next]_vars
             PROVE  TasksAccounted'
    OBVIOUS
<1>1. ASSUME UNCHANGED taskVars PROVE TasksAccounted'
  BY <1>1 DEF taskVars, TasksAccounted, QueuedOnce, RunningOnce, NoneLost, InDeque
<1> USE DEF taskVars, workVars, histVars
<1>2. CASE StartUp
  BY <1>1, <1>2 DEF StartUp, CreateWorker, ConnectWorker, WorkerInitFails, FinishInit
<1>3. CASE AddTask
  <2>1. ASSUME NEW t \in Tasks, EnterAdd(t) PROVE TasksAccounted'
    BY <1>1, <2>1 DEF EnterAdd
  <2>2. CASE PushTask
    BY <2>2, PushAccounted
  <2>3. CASE SignalTask \/ LeaveAdd \/ PushOnDeleted
    BY <1>1, <2>3 DEF SignalTask, LeaveAdd, PushOnDeleted
  <2> QED BY <1>3, <2>1, <2>2, <2>3 DEF AddTask
<1>4. ASSUME NEW w \in Workers, Run(w) \/ WakeSpuriously(w)
      PROVE  TasksAccounted'
  <2>1. CASE CheckFlag(w) \/ Sleep(w) \/ WakeUp(w) \/ WakeSpuriously(w)
    BY <1>1, <2>1 DEF CheckFlag, Sleep, WakeUp, WakeSpuriously
  <2>2. CASE TakeTask(w)
    BY <2>2, TakeAccounted
  <2>3. CASE FinishTask(w)
    BY <2>3, FinishAccounted
  <2> QED BY <1>4, <2>1, <2>2, <2>3 DEF Run
<1>5. CASE Interrupt \/ Destory
  BY <1>1, <1>5 DEF Interrupt, Destory, ClearFlag, SignalStop, Join
<1>6. CASE UNCHANGED vars
  BY <1>1, <1>6 DEF vars
<1> QED BY <1>2, <1>3, <1>4, <1>5, <1>6 DEF Next

-----------------------------------------------------------------------------
(* Sleepers and destructors.                                               *)

LEMMA NextAsleep ==
  TypeOK /\ InHand /\ NoSleepOnWork /\ [Next]_vars => NoSleepOnWork'
<1> SUFFICES ASSUME TypeOK, InHand, NoSleepOnWork, [Next]_vars
             PROVE  NoSleepOnWork'
    OBVIOUS
<1> USE DEF TypeOK, InHand, NoSleepOnWork, LoopHolds,
            startVars, workVars, addVars, stopVars, histVars
<1>1. CASE StartUp
  BY <1>1 DEF StartUp, CreateWorker, ConnectWorker, WorkerInitFails, FinishInit
<1>2. CASE AddTask
  <2>1. ASSUME NEW t \in Tasks, EnterAdd(t) PROVE NoSleepOnWork'
    BY <2>1 DEF EnterAdd
  <2>2. CASE PushTask
    BY <2>2 DEF PushTask
  <2>3. CASE SignalTask
    BY <2>3 DEF SignalTask, Signalled
  <2>4. CASE LeaveAdd
    BY <2>4 DEF LeaveAdd
  <2>5. CASE PushOnDeleted
    BY <2>5 DEF PushOnDeleted
  <2> QED BY <1>2, <2>1, <2>2, <2>3, <2>4, <2>5 DEF AddTask
<1>3. ASSUME NEW w \in Workers, Run(w) \/ WakeSpuriously(w)
      PROVE  NoSleepOnWork'
  <2>1. CASE CheckFlag(w)
    BY <2>1 DEF CheckFlag
  <2>2. CASE TakeTask(w)
    BY <2>2 DEF TakeTask
  <2>3. CASE Sleep(w)
    BY <2>3 DEF Sleep
  <2>4. CASE WakeUp(w)
    BY <2>4 DEF WakeUp
  <2>5. CASE FinishTask(w)
    BY <2>5 DEF FinishTask
  <2>6. CASE WakeSpuriously(w)
    BY <2>6 DEF WakeSpuriously, Signalled
  <2> QED BY <1>3, <2>1, <2>2, <2>3, <2>4, <2>5, <2>6 DEF Run
<1>4. CASE Interrupt \/ Destory
  BY <1>4 DEF Interrupt, Destory, ClearFlag, SignalStop, Signalled, Join
<1>5. CASE UNCHANGED vars
  BY <1>5 DEF vars
<1> QED BY <1>1, <1>2, <1>3, <1>4, <1>5 DEF Next

LEMMA NextFreed ==
  TypeOK /\ PhaseInv /\ FreedAfterExit /\ [Next]_vars => FreedAfterExit'
<1> SUFFICES ASSUME TypeOK, PhaseInv, FreedAfterExit, [Next]_vars
             PROVE  FreedAfterExit'
    OBVIOUS
<1> USE DEF TypeOK, FreedAfterExit, startVars, workVars, addVars, stopVars, histVars
<1>1. CASE StartUp
  BY <1>1 DEF StartUp, CreateWorker, ConnectWorker, WorkerInitFails, FinishInit
<1>2. CASE AddTask
  BY <1>2 DEF AddTask, EnterAdd, PushTask, SignalTask, Signalled, LeaveAdd,
     PushOnDeleted
<1>3. ASSUME NEW w \in Workers, Run(w) \/ WakeSpuriously(w)
      PROVE  FreedAfterExit'
  BY <1>3 DEF Run, CheckFlag, TakeTask, Sleep, WakeUp, FinishTask,
     WakeSpuriously, Signalled
<1>4. CASE Interrupt \/ Destory
  BY <1>4 DEF Interrupt, Destory, ClearFlag, SignalStop, Signalled, Join
<1>5. CASE UNCHANGED vars
  BY <1>5 DEF vars
<1> QED BY <1>1, <1>2, <1>3, <1>4, <1>5 DEF Next

-----------------------------------------------------------------------------
LEMMA Inductive == SafetySpec => []IInv
<1>1. IInv /\ [Next]_vars => IInv'
  BY NextType, NextPhase, NextAsleep, NextFreed, NextAccounted DEF IInv
<1> QED BY InitIInv, <1>1, PTL DEF SafetySpec

\* A task given to add_task is never lost, doubled or run twice.
THEOREM Accounted == SafetySpec => []TasksAccounted
  BY Inductive, PTL DEF IInv

\* A push is never missed by the worker it is for.
THEOREM NoLostWakeup == SafetySpec => []NoSleepOnWork
  BY Inductive, PTL DEF IInv

\* A worker is freed only after its thread has ended.
THEOREM SafeFree == SafetySpec => []FreedAfterExit
  BY Inductive, PTL DEF IInv

\* Handlers only run where the connections exist: the sockets open after every
\* worker is ready, and the connections go after the thread has ended.
THEOREM LiveConnections == SafetySpec => []RunsOnLiveConnections
<1>1. IInv => RunsOnLiveConnections
  BY DEF IInv, InHand, PhaseInv, FreedAfterExit, RunsOnLiveConnections
<1> QED BY <1>1, Inductive, PTL

-----------------------------------------------------------------------------
(* The pool implements the lanes.                                          *)

\* How far delete [] has come.
StopInv ==
  /\ stopPc = "done" => deleted = Workers
  /\ stopPc # "done" => deleted = {w \in Workers : w > stopAt}

LEMMA InitStop == Init => StopInv
  BY DEF Init, StopInv

LEMMA NextStop == TypeOK /\ StopInv /\ [Next]_vars => StopInv'
<1> SUFFICES ASSUME TypeOK, StopInv, [Next]_vars
             PROVE  StopInv'
    OBVIOUS
<1> USE DEF TypeOK, StopInv, stopVars
<1>1. CASE UNCHANGED stopVars
  BY <1>1
<1>2. CASE StartUp
  BY <1>1, <1>2 DEF StartUp, CreateWorker, ConnectWorker, WorkerInitFails, FinishInit
<1>3. CASE AddTask
  BY <1>1, <1>3 DEF AddTask, EnterAdd, PushTask, SignalTask, LeaveAdd, PushOnDeleted
<1>4. ASSUME NEW w \in Workers, Run(w) \/ WakeSpuriously(w)
      PROVE  StopInv'
  BY <1>1, <1>4 DEF Run, CheckFlag, TakeTask, Sleep, WakeUp, FinishTask,
     WakeSpuriously
<1>5. CASE Interrupt
  BY <1>5 DEF Interrupt
<1>6. CASE ClearFlag \/ SignalStop
  BY <1>6 DEF ClearFlag, SignalStop
<1>7. CASE Join
  <2>1. stopAt \in Workers /\ deleted = {w \in Workers : w > stopAt}
    BY <1>7 DEF Join
  <2>2. CASE stopAt = 0
    BY <1>7, <2>1, <2>2 DEF Join
  <2>3. CASE stopAt # 0
    <3>1. /\ stopPc' = "flag" /\ stopAt' = stopAt - 1
          /\ deleted' = deleted \cup {stopAt}
      BY <1>7, <2>3 DEF Join
    <3> HIDE DEF TypeOK
    <3>2. {w \in Workers : w > stopAt} \cup {stopAt}
            = {w \in Workers : w > stopAt - 1}
      BY <2>1
    <3> QED BY <2>1, <3>1, <3>2
  <2> HIDE DEF TypeOK, StopInv
  <2> QED BY <2>2, <2>3
<1>8. CASE UNCHANGED vars
  BY <1>1, <1>8 DEF vars
<1> QED BY <1>2, <1>3, <1>4, <1>5, <1>6, <1>7, <1>8 DEF Next, Destory

LEMMA InitLanes == Init => FL!Init
  BY DEF Init, FL!Init, FL!Lanes, Accepting, Wrap

lanesView == <<phase, stopPc, deque, running, submitted, taskIndex, addPc>>

LEMMA NextLanes ==
  TypeOK /\ InHand /\ PhaseInv /\ StopInv /\ [Next]_vars => [FL!Next]_FL!vars
<1> SUFFICES ASSUME TypeOK, InHand, PhaseInv, StopInv, [Next]_vars
             PROVE  [FL!Next]_FL!vars
    OBVIOUS
<1> USE DEF startVars, workVars, addVars, stopVars, histVars, FL!vars, Accepting, Wrap
<1>1. ASSUME UNCHANGED lanesView PROVE UNCHANGED FL!vars
  BY <1>1 DEF lanesView
<1> USE DEF lanesView
<1>2. CASE StartUp
  <2>1. CASE CreateWorker \/ ConnectWorker \/ WorkerInitFails
    BY <1>1, <2>1 DEF CreateWorker, ConnectWorker, WorkerInitFails
  <2>2. CASE FinishInit
    <3>1. CASE phase' = "serving"
      BY <2>2, <3>1 DEF FinishInit, PhaseInv, FL!Toggle, FL!Next
    <3>2. CASE phase' = "failed"
      BY <2>2, <3>2 DEF FinishInit
    <3> QED BY <2>2, <3>1, <3>2 DEF FinishInit
  <2> QED BY <1>2, <2>1, <2>2 DEF StartUp
<1>3. CASE AddTask
  <2>1. ASSUME NEW t \in Tasks, EnterAdd(t) PROVE UNCHANGED FL!vars
    BY <2>1 DEF EnterAdd, TypeOK
  <2>2. CASE PushTask
    <3>1. Accepting /\ Accepting'
      BY <2>2 DEF PushTask, LoopRuns, InHand, StopInv
    <3>2. /\ addTask \in Tasks \ submitted
          /\ taskIndex \in Workers
          /\ submitted' = submitted \cup {addTask}
          /\ deque' = [deque EXCEPT ![taskIndex] = Append(@, addTask)]
          /\ running' = running /\ taskIndex' = taskIndex
          /\ addPc = "enter" /\ addPc' = "holding"
      BY <2>2 DEF PushTask, InHand
    <3>3. /\ taskIndex # PoolSize
          /\ Wrap(taskIndex + 1) = FL!After(taskIndex)
      BY <3>2, PoolAssumption DEF Workers, FL!After
    <3>4. FL!Submit(addTask)
      <4>1. /\ addTask \notin submitted
            /\ submitted' = submitted \cup {addTask}
            /\ running' = running
        BY <3>2
      <4>2. deque' = [deque EXCEPT ![Wrap(IF addPc \in {"holding", "release"}
                                         THEN taskIndex + 1 ELSE taskIndex)]
                                 = Append(@, addTask)]
        BY <3>2, <3>3
      <4>3. Wrap(IF addPc \in {"holding", "release"}
                 THEN taskIndex + 1 ELSE taskIndex)' =
            FL!After(Wrap(IF addPc \in {"holding", "release"}
                          THEN taskIndex + 1 ELSE taskIndex))
        BY <3>2, <3>3
      <4> QED BY <3>1, <4>1, <4>2, <4>3 DEF FL!Submit
    <3> QED BY <3>2, <3>4 DEF FL!Next
  <2>3. CASE SignalTask
    BY <2>3 DEF SignalTask
  <2>4. CASE LeaveAdd
    BY <2>4 DEF LeaveAdd, InHand
  <2>5. CASE PushOnDeleted
    BY <2>5 DEF PushOnDeleted
  <2> QED BY <1>3, <2>1, <2>2, <2>3, <2>4, <2>5 DEF AddTask
<1>4. ASSUME NEW w \in Workers, Run(w) \/ WakeSpuriously(w)
      PROVE  [FL!Next]_FL!vars
  <2>1. CASE CheckFlag(w) \/ Sleep(w) \/ WakeUp(w) \/ WakeSpuriously(w)
    BY <1>1, <2>1 DEF CheckFlag, Sleep, WakeUp, WakeSpuriously
  <2>2. CASE TakeTask(w)
    <3>1. running[w] = NoTask
      BY <2>2 DEF TakeTask, InHand
    <3>2. FL!Begin(w)
      BY <2>2, <3>1 DEF TakeTask, FL!Begin
    <3> QED BY <3>2 DEF FL!Next, FL!Lanes
  <2>3. CASE FinishTask(w)
    <3>1. running[w] # NoTask
      BY <2>3 DEF FinishTask, InHand
    <3>2. FL!End(w)
      BY <2>3, <3>1 DEF FinishTask, FL!End
    <3> QED BY <3>2 DEF FL!Next, FL!Lanes
  <2> QED BY <1>4, <2>1, <2>2, <2>3 DEF Run
<1>5. CASE Interrupt
  BY <1>5 DEF Interrupt, FL!Toggle, FL!Next
<1>6. CASE Destory
  <2>1. ~Accepting /\ ~Accepting'
    BY <1>6 DEF Destory, ClearFlag, SignalStop, Join
  <2>2. UNCHANGED <<deque, running, submitted, taskIndex, addPc>>
    BY <1>6 DEF Destory, ClearFlag, SignalStop, Join
  <2> QED BY <2>1, <2>2
<1>7. CASE UNCHANGED vars
  BY <1>1, <1>7 DEF vars
<1> QED BY <1>2, <1>3, <1>4, <1>5, <1>6, <1>7 DEF Next

\* For the code that submits tasks the pool is PoolSize FIFO lanes served in
\* rotation: mutexes, condition variables, sleeping and waking do not show.
THEOREM ImplementsLanes == SafetySpec => LanesSafety
<1>1. SafetySpec => [](IInv /\ StopInv)
  <2>1. IInv /\ StopInv /\ [Next]_vars => StopInv'
    BY NextStop DEF IInv
  <2> QED BY Inductive, InitStop, <2>1, PTL DEF SafetySpec
<1>2. IInv /\ StopInv /\ [Next]_vars => [FL!Next]_FL!vars
  BY NextLanes DEF IInv
<1> QED BY <1>1, <1>2, InitLanes, PTL DEF SafetySpec, LanesSafety, FL!SafetySpec
=============================================================================
