---------------------------- MODULE ResponseQueue ----------------------------
(***************************************************************************)
(* The way back: m_response_queue of net_server, filled by the workers     *)
(* (add_response) and emptied by the one send_thread, which writes each    *)
(* answer to its non-blocking socket in as many pieces as the peer makes   *)
(* it, turning EAGAIN into a busy loop (pb_task::send).  net_server::stop  *)
(* deletes the send_thread after the workers have been joined.             *)
(* Critical sections under m_lock are single steps: no thread that uses    *)
(* m_lock is cut short inside one.                                         *)
(***************************************************************************)
EXTENDS Integers, Sequences

CONSTANTS Answers,    \* the task objects that carry an answer (bounds a run)
          NoAnswer,
          Peers,      \* the sockets at the other end
          NoPeer,
          Size,       \* length of an answer, in units the kernel may cut at
          Room        \* what a socket buffer holds, in the same units

ASSUME QueueAssumption == /\ NoAnswer \notin Answers
                          /\ NoPeer \notin Peers
                          /\ Size \in Nat \ {0}
                          /\ Room \in Nat \ {0}

VARIABLES
  queue,      \* m_response_queue
  dest,       \* the socket each answer is for
  sendPc,     \* where send_thread::run is
  flag,       \* m_flag of the send_thread
  sending,    \* ptask, between pop_front and delete this
  pos,        \* how much of sending the kernel has taken
  \* the peers
  space,      \* free space in the buffer of each socket
  hung,       \* peers that stopped reading, connection still up
  reset,      \* peers whose connection is broken
  \* net_server::stop
  stopPc,
  \* history
  added, sent, dropped,
  missed      \* did the sender go to sleep after the only signal of its end?

queueVars == <<queue, dest, added>>
sendVars  == <<sending, pos, sent, dropped>>
peerVars  == <<space, hung, reset>>
stopVars  == <<flag, stopPc>>
vars == <<queueVars, sendVars, sendPc, peerVars, stopVars, missed>>

-----------------------------------------------------------------------------
SendPcs == {"none", "check", "lock", "waiting", "woken", "send", "exit"}

TypeOK ==
  /\ queue \in Seq(Answers)
  /\ dest \in [Answers -> Peers \cup {NoPeer}]
  /\ sendPc \in SendPcs
  /\ flag \in BOOLEAN
  /\ sending \in Answers \cup {NoAnswer}
  /\ pos \in 0 .. Size
  /\ sending # NoAnswer => dest[sending] \in Peers /\ pos < Size
  /\ space \in [Peers -> 0 .. Room]
  /\ hung \subseteq Peers /\ reset \subseteq Peers
  /\ stopPc \in {"none", "flag", "signal", "join", "done"}
  /\ added \subseteq Answers /\ sent \subseteq Answers /\ dropped \subseteq Answers
  /\ missed \in BOOLEAN

Init ==
  /\ queue = <<>> /\ dest = [a \in Answers |-> NoPeer]
  /\ sendPc = "none" /\ flag = TRUE
  /\ sending = NoAnswer /\ pos = 0
  /\ space = [p \in Peers |-> Room] /\ hung = {} /\ reset = {}
  /\ stopPc = "none"
  /\ added = {} /\ sent = {} /\ dropped = {} /\ missed = FALSE

-----------------------------------------------------------------------------
Signalled == IF sendPc = "waiting" THEN "woken" ELSE sendPc

\* net_server::start: m_send_thread->create()
Create ==
  /\ sendPc = "none"
  /\ sendPc' = "check"
  /\ UNCHANGED <<queueVars, sendVars, peerVars, stopVars, missed>>

\* Mutant: add_response forgets to signal.
AddResponse_Silent(a, p) ==
  /\ sendPc # "none" /\ stopPc = "none"
  /\ a \notin added
  /\ added' = added \cup {a}
  /\ dest' = [dest EXCEPT ![a] = p]
  /\ queue' = Append(queue, a)
  /\ UNCHANGED <<sendVars, sendPc, peerVars, stopVars, missed>>

\* A worker hands over a finished task.  The workers end before the sender does.
AddResponse(a, p) ==
  /\ sendPc # "none" /\ stopPc = "none"
  /\ a \notin added
  /\ added' = added \cup {a}
  /\ dest' = [dest EXCEPT ![a] = p]
  /\ queue' = Append(queue, a)
  /\ sendPc' = Signalled
  /\ UNCHANGED <<sendVars, peerVars, stopVars, missed>>

-----------------------------------------------------------------------------
(* send_thread::run, send_response and pb_task::send.                      *)

CheckFlag ==
  /\ sendPc = "check"
  /\ sendPc' = IF flag THEN "lock" ELSE "exit"
  /\ UNCHANGED <<queueVars, sendVars, peerVars, stopVars, missed>>

\* Mutant: the newest answer is taken first.
TakeAnswer_Newest ==
  /\ sendPc = "lock" /\ queue # <<>>
  /\ sending' = queue[Len(queue)]
  /\ pos' = 0
  /\ queue' = SubSeq(queue, 1, Len(queue) - 1)
  /\ sendPc' = "send"
  /\ UNCHANGED <<dest, added, sent, dropped, peerVars, stopVars, missed>>

TakeAnswer ==
  /\ sendPc = "lock" /\ queue # <<>>
  /\ sending' = Head(queue)
  /\ pos' = 0
  /\ queue' = Tail(queue)
  /\ sendPc' = "send"
  /\ UNCHANGED <<dest, added, sent, dropped, peerVars, stopVars, missed>>

\* The queue was empty under the lock; m_flag is not looked at again.
Sleep ==
  /\ sendPc = "lock" /\ queue = <<>>
  /\ sendPc' = "waiting"
  /\ missed' = (stopPc = "join")
  /\ UNCHANGED <<queueVars, sendVars, peerVars, stopVars>>

WakeUp ==
  /\ sendPc = "woken"
  /\ sendPc' = "check"
  /\ UNCHANGED <<queueVars, sendVars, peerVars, stopVars, missed>>

WakeSpuriously ==
  /\ sendPc = "waiting"
  /\ sendPc' = "woken"
  /\ UNCHANGED <<queueVars, sendVars, peerVars, stopVars, missed>>

\* ::send takes k units, no more than the buffer of the socket holds; after the
\* last one the task deletes itself.  With the buffer full ::send says EAGAIN and
\* the loop tries again: no change of state.
SendSome(k) ==
  /\ sendPc = "send" /\ dest[sending] \notin reset
  /\ k <= space[dest[sending]] /\ pos + k <= Size
  /\ space' = [space EXCEPT ![dest[sending]] = @ - k]
  /\ IF pos + k < Size
       THEN /\ pos' = pos + k
            /\ UNCHANGED <<sending, sent, sendPc>>
       ELSE /\ pos' = 0
            /\ sent' = sent \cup {sending}
            /\ sending' = NoAnswer
            /\ sendPc' = "check"
  /\ UNCHANGED <<queueVars, dropped, hung, reset, stopVars, missed>>

\* Mutant: EAGAIN ends the loop like any other error.
GiveUp_OnEagain ==
  /\ sendPc = "send"
  /\ dest[sending] \in reset \/ space[dest[sending]] = 0
  /\ dropped' = dropped \cup {sending}
  /\ sending' = NoAnswer
  /\ pos' = 0
  /\ sendPc' = "check"
  /\ UNCHANGED <<queueVars, sent, peerVars, stopVars, missed>>

\* Any other error ends the loop: the rest of the answer is given up.
GiveUp ==
  /\ sendPc = "send" /\ dest[sending] \in reset
  /\ dropped' = dropped \cup {sending}
  /\ sending' = NoAnswer
  /\ pos' = 0
  /\ sendPc' = "check"
  /\ UNCHANGED <<queueVars, sent, peerVars, stopVars, missed>>

-----------------------------------------------------------------------------
(* The peers.                                                              *)

PeerReads(p) ==
  /\ p \notin hung /\ space[p] < Room
  /\ space' = [space EXCEPT ![p] = Room]
  /\ UNCHANGED <<queueVars, sendVars, sendPc, hung, reset, stopVars, missed>>

PeerHangs(p) ==
  /\ p \notin hung
  /\ hung' = hung \cup {p}
  /\ UNCHANGED <<queueVars, sendVars, sendPc, space, reset, stopVars, missed>>

PeerResets(p) ==
  /\ p \notin reset
  /\ reset' = reset \cup {p}
  /\ UNCHANGED <<queueVars, sendVars, sendPc, space, hung, stopVars, missed>>

-----------------------------------------------------------------------------
(* net_server::stop: delete m_send_thread.                                 *)

StopBegins ==
  /\ sendPc # "none" /\ stopPc = "none"
  /\ stopPc' = "flag"
  /\ UNCHANGED <<queueVars, sendVars, sendPc, peerVars, flag, missed>>

ClearFlag ==
  /\ stopPc = "flag"
  /\ flag' = FALSE
  /\ stopPc' = "signal"
  /\ UNCHANGED <<queueVars, sendVars, sendPc, peerVars, missed>>

\* Mutant: the destructor clears the flag and wakes nobody.
SignalResponse_Silent ==
  /\ stopPc = "signal"
  /\ stopPc' = "join"
  /\ UNCHANGED <<queueVars, sendVars, sendPc, peerVars, flag, missed>>

SignalResponse ==
  /\ stopPc = "signal"
  /\ sendPc' = Signalled
  /\ stopPc' = "join"
  /\ UNCHANGED <<queueVars, sendVars, peerVars, flag, missed>>

Join ==
  /\ stopPc = "join" /\ sendPc = "exit"
  /\ stopPc' = "done"
  /\ UNCHANGED <<queueVars, sendVars, sendPc, peerVars, flag, missed>>

-----------------------------------------------------------------------------
PbTaskSend == (\E k \in 1 .. Size : SendSome(k)) \/ GiveUp

Run == CheckFlag \/ TakeAnswer \/ Sleep \/ WakeUp \/ PbTaskSend

StopSender == ClearFlag \/ SignalResponse \/ Join

Next == \/ Create
        \/ \E a \in Answers, p \in Peers : AddResponse(a, p)
        \/ Run \/ WakeSpuriously
        \/ \E p \in Peers : PeerReads(p) \/ PeerHangs(p) \/ PeerResets(p)
        \/ StopBegins \/ StopSender

\* The send_thread runs while it can, peers that are not hung read, and the main
\* thread goes on with the destructor.
Fairness == /\ WF_vars(Run)
            /\ \A p \in Peers : WF_vars(PeerReads(p))
            /\ WF_vars(StopSender)

SafetySpec == Init /\ [][Next]_vars

Spec == SafetySpec /\ Fairness

-----------------------------------------------------------------------------
(* Properties.                                                             *)

InQueue(a) == \E i \in 1 .. Len(queue) : queue[i] = a

\* An answer handed to add_response is in one place: in the queue, once; in the
\* hands of the sender; or done with, sent to its end or given up, never both.
\* The task object is freed when it is done with, so this is also what keeps the
\* sender off freed memory.
AnswersAccounted ==
  /\ \A i, j \in 1 .. Len(queue) : queue[i] = queue[j] => i = j
  /\ \A a \in added : \/ InQueue(a) /\ a # sending /\ a \notin sent \cup dropped
                      \/ ~InQueue(a) /\ a = sending /\ a \notin sent \cup dropped
                      \/ ~InQueue(a) /\ a # sending /\ a \in sent \cup dropped
  /\ \A i \in 1 .. Len(queue) : queue[i] \in added
  /\ sending # NoAnswer => sending \in added
  /\ sent \cup dropped \subseteq added /\ sent \cap dropped = {}

\* The sender never sleeps while an answer waits: a push either comes before the
\* sender's look at the queue or signals a sender that already sleeps.
NoSleepOnAnswers == sendPc = "waiting" => queue = <<>>

\* While the server runs, an answer is sent, or given up because its own peer
\* broke the connection, unless the sender is stuck on a peer that does not read:
\* one client that stops reading holds up the answers of all the others.
AnswersGetSent ==
  \A a \in Answers :
    a \in added ~> \/ a \in sent
                   \/ a \in dropped /\ dest[a] \in reset
                   \/ sending # NoAnswer /\ dest[sending] \in hung
                   \/ stopPc # "none"

\* Deleting the send_thread ends unless the sender is stuck on a peer that does
\* not read, or had read m_flag before it was cleared and went to sleep after the
\* only signal.
SenderStops ==
  stopPc # "none" ~> \/ stopPc = "done"
                     \/ sending # NoAnswer /\ dest[sending] \in hung
                     \/ missed

\* The sender is one FIFO lane: answers leave in the order they were handed over,
\* each to its end before the next begins.
FL == INSTANCE FifoLanes WITH
        PoolSize  <- 1,
        Tasks     <- Answers,
        NoTask    <- NoAnswer,
        open      <- sendPc # "none" /\ stopPc = "none",
        nextLane  <- 0,
        lane      <- [l \in {0} |-> queue],
        inService <- [l \in {0} |-> sending],
        submitted <- added

LaneSafety == FL!SafetySpec
=============================================================================
