------------------------------ MODULE ThreadPool -----------------------------
(***************************************************************************)
(* thread_pool and its task_threads (thread_pool.cpp), from start-up       *)
(* through serving to destory().  Two kinds of thread take part:           *)
(*   - the main thread: net_server::start initialises the pool, then the   *)
(*     event loop calls add_task; SIGUSR1 runs net_server::stop on top of  *)
(*     whatever the main thread is doing (main.cpp), so that destory() may *)
(*     interrupt add_task at any point;                                    *)
(*   - PoolSize workers, each with a deque, a mutex, a condition variable  *)
(*     and the flag m_flag, which is read without the mutex.               *)
(* A worker's critical section is one step; the main thread's, which the   *)
(* signal can cut in two, is not: LoopHolds tells when it has the mutex.   *)
(***************************************************************************)
EXTENDS Integers, Sequences

CONSTANTS PoolSize,   \* m_pool_size, thread_pool_size of server_config.conf
          Tasks,      \* the task objects that may be added (bounds a run)
          NoTask

ASSUME PoolAssumption == /\ PoolSize \in Nat \ {0}
                         /\ NoTask \notin Tasks

Workers == 0 .. PoolSize - 1

VARIABLES
  \* start-up
  phase,      \* "init", then "serving" or "failed"
  initAt,     \* i of thread_pool::init
  ready,      \* workers whose MySQL and redis connections are set up
  \* the workers
  pc,         \* where task_thread::run is
  flag,       \* m_flag
  deque,      \* m_deque_task
  running,    \* ptask, between pop_front and the return of run()
  \* the main thread in add_task
  taskIndex,  \* m_task_index
  addPc,      \* "idle" outside add_task
  addTask,    \* the argument of add_task
  \* the main thread in destory
  stopPc,     \* "none" before SIGUSR1, "done" after delete []
  stopAt,     \* the worker whose destructor runs
  deleted,    \* workers whose destructor has finished
  \* history
  submitted,  \* tasks pushed on a deque
  finished,   \* tasks whose run() has returned
  hitAt,      \* the value of addPc when SIGUSR1 arrived
  missed      \* workers that went to sleep after their destructor's signal

startVars == <<phase, initAt, ready>>
workVars  == <<pc, flag, deque, running>>
addVars   == <<taskIndex, addPc, addTask>>
stopVars  == <<stopPc, stopAt, deleted>>
histVars  == <<submitted, finished, hitAt, missed>>
vars == <<startVars, workVars, addVars, stopVars, histVars>>

-----------------------------------------------------------------------------
WorkerPcs == {"none", "check", "lock", "waiting", "woken", "run", "exit"}
AddPcs    == {"idle", "enter", "holding", "release", "undefined"}
StopPcs   == {"none", "flag", "signal", "join", "done"}

TypeOK ==
  /\ phase \in {"init", "serving", "failed"}
  /\ initAt \in 0 .. PoolSize
  /\ ready \subseteq Workers
  /\ pc \in [Workers -> WorkerPcs]
  /\ flag \in [Workers -> BOOLEAN]
  /\ deque \in [Workers -> Seq(Tasks)]
  /\ running \in [Workers -> Tasks \cup {NoTask}]
  /\ taskIndex \in 0 .. PoolSize
  /\ addPc # "idle" => taskIndex \in Workers    \* the array is used within bounds
  /\ addPc \in AddPcs
  /\ addTask \in Tasks \cup {NoTask}
  /\ stopPc \in StopPcs
  /\ stopAt \in Workers
  /\ deleted \subseteq Workers
  /\ submitted \subseteq Tasks
  /\ finished \subseteq Tasks
  /\ hitAt \in AddPcs \cup {"none"}
  /\ missed \subseteq Workers

Init ==
  /\ phase = "init" /\ initAt = 0 /\ ready = {}
  /\ pc = [w \in Workers |-> "none"]
  /\ flag = [w \in Workers |-> TRUE]
  /\ deque = [w \in Workers |-> <<>>]
  /\ running = [w \in Workers |-> NoTask]
  /\ taskIndex = 0 /\ addPc = "idle" /\ addTask = NoTask
  /\ stopPc = "none" /\ stopAt = PoolSize - 1 /\ deleted = {}
  /\ submitted = {} /\ finished = {} /\ hitAt = "none" /\ missed = {}

-----------------------------------------------------------------------------
(* Start-up: net_server::start, thread_pool::init, task_thread::init.      *)

\* create(): the new thread runs before its connections exist.
CreateWorker ==
  /\ phase = "init" /\ initAt < PoolSize
  /\ pc[initAt] = "none"
  /\ pc' = [pc EXCEPT ![initAt] = "check"]
  /\ UNCHANGED <<startVars, flag, deque, running, addVars, stopVars, histVars>>

\* m_mysql_conn.init() and new cache_conn succeed.
ConnectWorker ==
  /\ phase = "init" /\ initAt < PoolSize
  /\ pc[initAt] # "none"
  /\ ready' = ready \cup {initAt}
  /\ initAt' = initAt + 1
  /\ UNCHANGED <<phase, workVars, addVars, stopVars, histVars>>

\* pthread_create or the MySQL connection failed: init() goes on to the next.
WorkerInitFails ==
  /\ phase = "init" /\ initAt < PoolSize
  /\ initAt' = initAt + 1
  /\ UNCHANGED <<phase, ready, workVars, addVars, stopVars, histVars>>

\* The sockets are opened, hence tasks arrive, only if every worker is ready.
FinishInit ==
  /\ phase = "init" /\ initAt = PoolSize
  /\ phase' = IF ready = Workers THEN "serving" ELSE "failed"
  /\ UNCHANGED <<initAt, ready, workVars, addVars, stopVars, histVars>>

-----------------------------------------------------------------------------
(* add_task, called by the event loop.  The signal handler runs on the     *)
(* same thread, so nothing here happens while destory() is under way.      *)

LoopRuns == phase = "serving" /\ stopPc \in {"none", "done"}

LoopHolds(w) == addPc = "holding" /\ taskIndex = w

\* A wake-up moves a sleeping worker on; it does nothing to any other.
Signalled(w) == IF pc[w] = "waiting" THEN [pc EXCEPT ![w] = "woken"] ELSE pc

Wrap(i) == IF i = PoolSize THEN 0 ELSE i

\* Pick the worker; m_task_index wraps here, not after the increment.
EnterAdd(t) ==
  /\ LoopRuns /\ stopPc = "none"
  /\ addPc = "idle" /\ t \notin submitted
  /\ taskIndex' = Wrap(taskIndex)
  /\ addTask' = t
  /\ addPc' = "enter"
  /\ UNCHANGED <<startVars, workVars, stopVars, histVars>>

\* Mutant: push_front.
PushTask_Front ==
  /\ LoopRuns /\ addPc = "enter" /\ taskIndex \notin deleted
  /\ deque' = [deque EXCEPT ![taskIndex] = <<addTask>> \o @]
  /\ submitted' = submitted \cup {addTask}
  /\ addTask' = NoTask
  /\ addPc' = "holding"
  /\ UNCHANGED <<startVars, pc, flag, running, taskIndex, stopVars,
                  finished, hitAt, missed>>

\* push_task: lock and push_back.
PushTask ==
  /\ LoopRuns /\ addPc = "enter" /\ taskIndex \notin deleted
  /\ deque' = [deque EXCEPT ![taskIndex] = Append(@, addTask)]
  /\ submitted' = submitted \cup {addTask}
  /\ addTask' = NoTask
  /\ addPc' = "holding"
  /\ UNCHANGED <<startVars, pc, flag, running, taskIndex, stopVars,
                  finished, hitAt, missed>>

\* Mutant: push_task forgets to signal.
SignalTask_Silent ==
  /\ LoopRuns /\ addPc = "holding"
  /\ addPc' = "release"
  /\ UNCHANGED <<startVars, workVars, taskIndex, addTask, stopVars, histVars>>

\* push_task: signal and unlock.
SignalTask ==
  /\ LoopRuns /\ addPc = "holding"
  /\ pc' = Signalled(taskIndex)
  /\ addPc' = "release"
  /\ UNCHANGED <<startVars, flag, deque, running, taskIndex, addTask, stopVars,
                  histVars>>

LeaveAdd ==
  /\ LoopRuns /\ addPc = "release"
  /\ taskIndex' = taskIndex + 1
  /\ addPc' = "idle"
  /\ UNCHANGED <<startVars, workVars, addTask, stopVars, histVars>>

\* The handler returned into a push_task of a deleted object: the code has no
\* defined behaviour from here on and the main thread is not followed further.
PushOnDeleted ==
  /\ LoopRuns /\ addPc = "enter" /\ taskIndex \in deleted
  /\ addPc' = "undefined"
  /\ UNCHANGED <<startVars, workVars, taskIndex, addTask, stopVars, histVars>>

-----------------------------------------------------------------------------
(* task_thread::run.                                                       *)

\* while (m_flag)
CheckFlag(w) ==
  /\ pc[w] = "check"
  /\ pc' = [pc EXCEPT ![w] = IF flag[w] THEN "lock" ELSE "exit"]
  /\ UNCHANGED <<startVars, flag, deque, running, addVars, stopVars, histVars>>

\* lock, front, pop_front, unlock
TakeTask(w) ==
  /\ pc[w] = "lock" /\ ~LoopHolds(w)
  /\ deque[w] # <<>>
  /\ running' = [running EXCEPT ![w] = Head(deque[w])]
  /\ deque' = [deque EXCEPT ![w] = Tail(@)]
  /\ pc' = [pc EXCEPT ![w] = "run"]
  /\ UNCHANGED <<startVars, flag, addVars, stopVars, histVars>>

\* lock, and wait releases the mutex; m_flag is not looked at again.
Sleep(w) ==
  /\ pc[w] = "lock" /\ ~LoopHolds(w)
  /\ deque[w] = <<>>
  /\ pc' = [pc EXCEPT ![w] = "waiting"]
  /\ missed' = IF stopPc = "join" /\ stopAt = w THEN missed \cup {w} ELSE missed
  /\ UNCHANGED <<startVars, flag, deque, running, addVars, stopVars,
                  submitted, finished, hitAt>>

\* wait may return for no reason.
WakeSpuriously(w) ==
  /\ pc[w] = "waiting"
  /\ pc' = Signalled(w)
  /\ UNCHANGED <<startVars, flag, deque, running, addVars, stopVars, histVars>>

\* Mutant: a wake-up is taken for the end of the thread.
WakeUp_Exits(w) ==
  /\ pc[w] = "woken" /\ ~LoopHolds(w)
  /\ pc' = [pc EXCEPT ![w] = "exit"]
  /\ UNCHANGED <<startVars, flag, deque, running, addVars, stopVars, histVars>>

\* wait returns with the mutex, which is unlocked; the deque is not looked at.
WakeUp(w) ==
  /\ pc[w] = "woken" /\ ~LoopHolds(w)
  /\ pc' = [pc EXCEPT ![w] = "check"]
  /\ UNCHANGED <<startVars, flag, deque, running, addVars, stopVars, histVars>>

\* ptask->run() returns.
FinishTask(w) ==
  /\ pc[w] = "run"
  /\ finished' = finished \cup {running[w]}
  /\ running' = [running EXCEPT ![w] = NoTask]
  /\ pc' = [pc EXCEPT ![w] = "check"]
  /\ UNCHANGED <<startVars, flag, deque, addVars, stopVars,
                  submitted, hitAt, missed>>

-----------------------------------------------------------------------------
(* net_server::stop and thread_pool::destory; delete [] runs the           *)
(* destructors from the last worker to the first.                          *)

Interrupt ==
  /\ phase = "serving" /\ stopPc = "none"
  /\ stopPc' = "flag"
  /\ hitAt' = addPc
  /\ UNCHANGED <<startVars, workVars, addVars, stopAt, deleted,
                  submitted, finished, missed>>

ClearFlag ==
  /\ stopPc = "flag"
  /\ flag' = [flag EXCEPT ![stopAt] = FALSE]
  /\ stopPc' = "signal"
  /\ UNCHANGED <<startVars, pc, deque, running, addVars, stopAt, deleted, histVars>>

\* Mutant: the destructor clears the flag and wakes nobody.
SignalStop_Silent ==
  /\ stopPc = "signal" /\ ~LoopHolds(stopAt)
  /\ stopPc' = "join"
  /\ UNCHANGED <<startVars, workVars, addVars, stopAt, deleted, histVars>>

\* lock, signal, unlock: the mutex is not recursive, so a push_task cut short
\* while holding it on this very thread blocks the destructor for good.
SignalStop ==
  /\ stopPc = "signal" /\ ~LoopHolds(stopAt)
  /\ pc' = Signalled(stopAt)
  /\ stopPc' = "join"
  /\ UNCHANGED <<startVars, flag, deque, running, addVars, stopAt, deleted, histVars>>

\* wait() joins the thread; then its connections and its deque are freed.
Join ==
  /\ stopPc = "join" /\ pc[stopAt] = "exit"
  /\ deleted' = deleted \cup {stopAt}
  /\ stopPc' = IF stopAt = 0 THEN "done" ELSE "flag"
  /\ stopAt' = IF stopAt = 0 THEN 0 ELSE stopAt - 1
  /\ UNCHANGED <<startVars, workVars, addVars, histVars>>

-----------------------------------------------------------------------------
StartUp == CreateWorker \/ ConnectWorker \/ WorkerInitFails \/ FinishInit

AddTask == (\E t \in Tasks : EnterAdd(t)) \/ PushTask \/ SignalTask \/ LeaveAdd
           \/ PushOnDeleted

Run(w) == CheckFlag(w) \/ TakeTask(w) \/ Sleep(w) \/ WakeUp(w) \/ FinishTask(w)

Destory == ClearFlag \/ SignalStop \/ Join

Next == \/ StartUp
        \/ AddTask
        \/ \E w \in Workers : Run(w) \/ WakeSpuriously(w)
        \/ Interrupt
        \/ Destory

\* Threads that can run do run, and handlers return (every MySQL and redis call
\* does, if only with an error).  Nothing obliges a task to arrive, the
\* operator to stop the server, or wait to return spuriously.
Fairness ==
  /\ WF_vars(PushTask \/ SignalTask \/ LeaveAdd)
  /\ \A w \in Workers : WF_vars(Run(w))
  /\ WF_vars(Destory)

SafetySpec == Init /\ [][Next]_vars

Spec == SafetySpec /\ Fairness

-----------------------------------------------------------------------------
(* Properties.                                                             *)

InDeque(t, w) == \E i \in 1 .. Len(deque[w]) : deque[w][i] = t

\* A task waiting in a deque waits once, is not being run and was not run before.
QueuedOnce ==
  \A w \in Workers : \A i \in 1 .. Len(deque[w]) :
    /\ deque[w][i] \in submitted \ finished
    /\ \A v \in Workers : running[v] # deque[w][i]
    /\ \A v \in Workers : \A j \in 1 .. Len(deque[v]) :
         deque[w][i] = deque[v][j] => w = v /\ i = j

\* A task being run was submitted, is run by one worker and was not run before.
RunningOnce ==
  \A w \in Workers : running[w] # NoTask =>
    /\ running[w] \in submitted \ finished
    /\ \A v \in Workers : running[v] = running[w] => v = w

\* A task submitted and not done waits or is being run.
NoneLost ==
  \A t \in submitted \ finished :
    \E w \in Workers : running[w] = t \/ InDeque(t, w)

\* A task given to add_task is in exactly one place: waiting in one deque, once,
\* or being run by one worker, or done.  A task run twice would be answered and
\* freed twice; a task nowhere would never be answered.
TasksAccounted ==
  QueuedOnce /\ RunningOnce /\ NoneLost /\ finished \subseteq submitted

\* No wake-up is lost between add_task and a worker: a worker asleep on a
\* non-empty deque is about to be signalled, because push_task still holds the
\* mutex the sleeper needs.
NoSleepOnWork ==
  \A w \in Workers : pc[w] = "waiting" /\ deque[w] # <<>> => LoopHolds(w)

\* The thread is created before its MySQL and redis connections, and a failed
\* connection does not end the thread: still no handler ever runs on a worker
\* that lacks them, nor on one whose destructor has freed them.
RunsOnLiveConnections ==
  \A w \in Workers : running[w] # NoTask => w \in ready \ deleted

\* destory() frees a worker only after its thread has ended, so the thread never
\* touches the deque, the mutex or the connections afterwards.
FreedAfterExit == \A w \in deleted : pc[w] = "exit"

\* Until the server is stopped every task pushed is eventually run to its end,
\* whichever way the pushes interleave with workers going to sleep.
TasksGetDone ==
  \A t \in Tasks : t \in submitted ~> (t \in finished \/ stopPc # "none")

\* destory() ends in all but two cases: SIGUSR1 cut push_task short inside its
\* critical section, or a worker had read m_flag before it was cleared and went
\* to sleep after the destructor's only signal.
StopCompletes ==
  stopPc # "none" ~> (stopPc = "done" \/ hitAt = "holding" \/ missed # {})

\* thread_pool is a set of FIFO lanes served in rotation.  A submission happens
\* when the task is on the deque.
Accepting == phase = "serving" /\ stopPc = "none"

FL == INSTANCE FifoLanes WITH
        open      <- Accepting,
        nextLane  <- Wrap(IF addPc \in {"holding", "release"} THEN taskIndex + 1
                          ELSE taskIndex),
        lane      <- deque,
        inService <- running

\* Every step of the pool is a step of the lanes or changes none of them.
LanesSafety == FL!SafetySpec

\* While the pool serves, no worker leaves its lane unserved.
LanesFairness == FL!Fairness

\* thread_lock.h says that locking a mutex again does not deadlock.
RelockIsHarmless == ~(stopPc = "signal" /\ LoopHolds(stopAt))
=============================================================================
