------------------------------ MODULE FifoLanes ------------------------------
(***************************************************************************)
(* What the thread pool promises its callers: PoolSize independent servers *)
(* ("lanes").  Submitted tasks go to the lanes in rotation; a lane works   *)
(* on one task at a time, in the order it received them.  Nothing is said  *)
(* of mutexes, condition variables or sleeping threads: ThreadPool is      *)
(* shown to implement this module.                                         *)
(***************************************************************************)
EXTENDS Integers, Sequences

CONSTANTS PoolSize,   \* number of lanes
          Tasks,      \* the tasks that may ever be submitted
          NoTask      \* an idle lane works on NoTask

VARIABLES open,       \* are submissions accepted, and every lane served?
          nextLane,   \* the lane the next submission goes to
          lane,       \* the tasks waiting in each lane, oldest first
          inService,  \* the task each lane works on
          submitted   \* every task submitted so far

vars == <<open, nextLane, lane, inService, submitted>>

Lanes == 0 .. PoolSize - 1

After(l) == IF l + 1 = PoolSize THEN 0 ELSE l + 1

Init == /\ open = FALSE
        /\ nextLane = 0
        /\ lane = [l \in Lanes |-> <<>>]
        /\ inService = [l \in Lanes |-> NoTask]
        /\ submitted = {}

\* The pool begins, or ceases, to accept submissions.
Toggle == /\ open' = ~open
          /\ UNCHANGED <<nextLane, lane, inService, submitted>>

Submit(t) == /\ open
             /\ t \notin submitted
             /\ submitted' = submitted \cup {t}
             /\ lane' = [lane EXCEPT ![nextLane] = Append(@, t)]
             /\ nextLane' = After(nextLane)
             /\ UNCHANGED <<open, inService>>

Begin(l) == /\ inService[l] = NoTask
            /\ lane[l] # <<>>
            /\ inService' = [inService EXCEPT ![l] = Head(lane[l])]
            /\ lane' = [lane EXCEPT ![l] = Tail(@)]
            /\ UNCHANGED <<open, nextLane, submitted>>

End(l) == /\ inService[l] # NoTask
          /\ inService' = [inService EXCEPT ![l] = NoTask]
          /\ UNCHANGED <<open, nextLane, lane, submitted>>

Next == \/ Toggle
        \/ \E t \in Tasks : Submit(t)
        \/ \E l \in Lanes : Begin(l) \/ End(l)

\* While the pool is open no lane is left idle with work waiting in it.
Fairness == \A l \in Lanes : /\ WF_vars(open /\ Begin(l))
                             /\ WF_vars(End(l))

SafetySpec == Init /\ [][Next]_vars

Spec == SafetySpec /\ Fairness
=============================================================================
