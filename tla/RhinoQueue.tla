----------------------------- MODULE RhinoQueue -----------------------------
(***************************************************************************)
(* The message queues of k_queue.c and the buffer queues of k_buf_queue.c, *)
(* of fixed and of dynamic message sizes, over the ring buffer.  Senders   *)
(* are tasks or interrupt handlers and never wait.                         *)
(***************************************************************************)
EXTENDS RhinoWait, RingBuf

CONSTANT BlkSize   \* the size of a message where it is fixed

ASSUME BlkAssumption == BlkSize \in 1 .. RingSize /\ RingSize % BlkSize = 0

VARIABLES
  ring, cur_num,
  msg        \* what the last receive of each task was given; None while it waits

queueVars == <<ring, cur_num, msg>>

QueueInit ==
  /\ ring = ringbuf_init /\ cur_num = 0
  /\ msg = [t \in Task |-> None]

QueueType == IF kind = "queue" THEN "RHINO_QUEUE_OBJ_TYPE" ELSE "RHINO_BUF_QUEUE_OBJ_TYPE"
IsQueue == Quiet /\ kind # "event" /\ obj_type = QueueType

(* The messages the program sends.  A shorter one is none for a queue of a fixed size: ringbuf_push copies the full size
   from wherever the message is. *)
Sendable == IF kind = "buf_queue" THEN Msg ELSE {m \in Msg : MsgLen[m] = BlkSize}

(* msg_send looks at cur_num, buf_queue_send at what ringbuf_push returns; likewise
   the receivers.  What is received from the ring is the message and its size. *)
Full(m) == CASE kind = "queue"         -> cur_num >= RingSize \div BlkSize
             [] kind = "fix_buf_queue" -> FixFull(ring, m)
             [] OTHER                  -> DynFull(ring, m)
Empty == IF kind = "queue" THEN cur_num = 0 ELSE ringbuf_is_empty(ring)
Push(m) == IF kind = "buf_queue" THEN DynPush(ring, m) ELSE FixPush(ring, m)
Pop == IF kind = "buf_queue" THEN DynPop(ring) ELSE FixPop(ring, BlkSize)

-----------------------------------------------------------------------------
krhino_queue_create ==
  /\ kind # "event"
  /\ Create(QueueType)
  /\ ring' = ringbuf_init /\ cur_num' = 0
  /\ UNCHANGED msg

(* Faulty: the message goes to the ring although a task waits for it. *)
SendPushFirst(m) ==
  /\ IsQueue /\ ~Full(m)
  /\ ring' = Push(m)
  /\ cur_num' = cur_num + 1
  /\ UNCHANGED <<waitVars, msg>>

(* msg_send and buf_queue_send.  A full queue has no waiters, so it makes no
   difference that only msg_send looks at it first. *)
SendPush(m) ==
  /\ IsQueue /\ blk_list = <<>> /\ ~Full(m)
  /\ ring' = Push(m)
  /\ cur_num' = cur_num + 1
  /\ UNCHANGED <<waitVars, msg>>

Hand(t, m) ==
  /\ msg' = [msg EXCEPT ![t] = m]
  /\ Wake(t, "BLK_FINISH")
  /\ UNCHANGED <<obj_type, ring, cur_num>>

SendWake(m) ==
  /\ IsQueue /\ blk_list # <<>>
  /\ (kind = "queue" => ~Full(m))
  /\ Hand(Head(blk_list), m)
  /\ UNCHANGED cs

(* krhino_queue_all_send *)
SendAll(m) ==
  /\ IsQueue /\ kind = "queue" /\ ~Full(m) /\ blk_list # <<>>
  /\ cs' = Loop("all_send", <<>>, m)
  /\ UNCHANGED <<obj_type, blk_list, prio, pc, ticking, queueVars>>

SendAllNext ==
  /\ cs.op = "all_send" /\ blk_list # <<>>
  /\ Hand(Head(blk_list), cs.arg)
  /\ UNCHANGED cs

SendAllEnd ==
  /\ cs.op = "all_send" /\ blk_list = <<>>
  /\ cs' = NoCs
  /\ UNCHANGED <<obj_type, blk_list, prio, pc, ticking, queueVars>>

(* krhino_queue_recv and krhino_buf_queue_recv: there is a message, or the call gives
   up (RHINO_NO_WAIT or a locked scheduler), or the task waits. *)
RecvPop(t) ==
  /\ IsQueue /\ pc[t] = "run" /\ ~Empty
  /\ ring' = Pop.ring
  /\ cur_num' = cur_num - 1
  /\ msg' = [msg EXCEPT ![t] = MsgOf(Pop.bytes)]
  /\ UNCHANGED waitVars

RecvNoWait(t) ==
  /\ IsQueue /\ pc[t] = "run" /\ Empty
  /\ msg' = [msg EXCEPT ![t] = None]
  /\ UNCHANGED <<waitVars, ring, cur_num>>

RecvWait(t) ==
  /\ IsQueue /\ pc[t] = "run" /\ Empty
  /\ msg' = [msg EXCEPT ![t] = None]
  /\ pend_to_blk_obj(t)
  /\ UNCHANGED <<obj_type, cs, ring, cur_num>>

RecvEnd(t) ==
  /\ kind # "event"
  /\ pend_state_end_proc(t)
  /\ msg' = [msg EXCEPT ![t] = IF pc[t] = "BLK_FINISH" THEN @ ELSE None]
  /\ UNCHANGED <<ring, cur_num>>

(* Faulty: the ring is emptied and the messages are still counted. *)
FlushUncounted ==
  /\ IsQueue
  /\ ring' = ringbuf_reset
  /\ UNCHANGED <<waitVars, cur_num, msg>>

krhino_queue_flush ==
  /\ IsQueue
  /\ ring' = ringbuf_reset /\ cur_num' = 0
  /\ UNCHANGED <<waitVars, msg>>

(* krhino_queue_del and krhino_buf_queue_del: the messages are still counted. *)
krhino_queue_del ==
  /\ kind # "event"
  /\ \/ (DelBegin \/ DelWake) /\ UNCHANGED queueVars
     \/ /\ DelEnd
        /\ ring' = ringbuf_reset
        /\ UNCHANGED <<cur_num, msg>>

QueueNext ==
  \/ krhino_queue_create \/ krhino_queue_del \/ krhino_queue_flush
  \/ \E m \in Sendable : SendPush(m) \/ SendWake(m) \/ SendAll(m)
  \/ SendAllNext \/ SendAllEnd
  \/ \E t \in Task : RecvPop(t) \/ RecvNoWait(t) \/ RecvWait(t) \/ RecvEnd(t)
  \/ WaitNext /\ UNCHANGED queueVars

-----------------------------------------------------------------------------
(* The messages in the ring. *)
Contents == IF kind = "buf_queue" THEN DynContents(ring) ELSE FixContents(ring, BlkSize)

QueueTypeOK ==
  /\ ring.head \in 0 .. RingSize /\ ring.tail \in 0 .. RingSize
  /\ ring.freesize \in 0 .. RingSize
  /\ cur_num \in Nat
  /\ msg \in [Task -> Msg \cup {None}]

(* No task waits for a message while there is one in the queue. *)
NoIdleMessage == IsQueue /\ blk_list # <<>> => Empty

(* The two accounts of a queue agree with what is in its ring, wherever messages and
   their lengths are broken at its end: the bytes that freesize leaves are whole
   messages and nothing else, and cur_num counts them. *)
RingExact ==
  obj_type = QueueType =>
    /\ cur_num = Len(Contents)
    /\ \A i \in DOMAIN Contents : Contents[i] \in Msg
    /\ kind # "buf_queue" => RingSize - ring.freesize = cur_num * BlkSize
=============================================================================
