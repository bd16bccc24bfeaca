------------------------------ MODULE MsgFifo ------------------------------
(***************************************************************************)
(* What a queue promises: messages are received in the order in which they *)
(* were sent, and a message that finds tasks waiting goes to one of the    *)
(* highest priority among them.  The whole queue is one sequence; neither  *)
(* its ring buffer nor its list of waiters is to be seen.                  *)
(***************************************************************************)
EXTENDS Integers, Sequences

CONSTANTS Task, Prios, Msg, None, Waiting

VARIABLES
  fifo,     \* the messages sent and not received
  answer,   \* of the last receive of each task: Waiting, None or a message
  prio      \* the priorities

Waiters == {t \in Task : answer[t] = Waiting}
Foremost == {t \in Waiters : \A u \in Waiters : prio[t] <= prio[u]}

Init == fifo = <<>> /\ answer = [t \in Task |-> None] /\ prio \in [Task -> Prios]

(* A message that is handed over, or kept because nobody waits for it. *)
Send(m) ==
  /\ UNCHANGED prio
  /\ \/ /\ Waiters = {} /\ fifo' = Append(fifo, m)
        /\ UNCHANGED answer
     \/ /\ fifo = <<>>
        /\ \E t \in Foremost : answer' = [answer EXCEPT ![t] = m]
        /\ UNCHANGED fifo

Recv(t) ==
  /\ answer[t] # Waiting /\ UNCHANGED prio
  /\ \/ /\ fifo # <<>>
        /\ answer' = [answer EXCEPT ![t] = Head(fifo)]
        /\ fifo' = Tail(fifo)
     \/ /\ fifo = <<>>
        /\ \E a \in {None, Waiting} : answer' = [answer EXCEPT ![t] = a]
        /\ UNCHANGED fifo

(* A wait may end without a message, and the messages may be discarded. *)
GiveUp(t) == answer[t] = Waiting /\ answer' = [answer EXCEPT ![t] = None] /\ UNCHANGED <<fifo, prio>>
Discard == fifo' = <<>> /\ UNCHANGED <<answer, prio>>

SetPrio(t) == (\E p \in Prios : prio' = [prio EXCEPT ![t] = p]) /\ UNCHANGED <<fifo, answer>>

Next ==
  \/ \E m \in Msg : Send(m)
  \/ \E t \in Task : Recv(t) \/ GiveUp(t) \/ SetPrio(t)
  \/ Discard

Spec == Init /\ [][Next]_<<fifo, answer, prio>>
=============================================================================
