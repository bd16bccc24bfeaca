------------------------------ MODULE RhinoIpc ------------------------------
(***************************************************************************)
(* An event, a message queue or a buffer queue with the tasks that use it, *)
(* and what can end or reorder their waits: time, krhino_task_wait_abort,  *)
(* a change of priority and the deletion of the object.                    *)
(***************************************************************************)
EXTENDS RhinoEvent, RhinoQueue

(* No message looks like the mark of a receive that goes on. *)
ASSUME MarkAssumption == "waiting" \notin Msg \cup {None}

vars == <<waitVars, eventVars, kind, queueVars>>

Init == WaitInit /\ EventInit /\ QueueInit

Next ==
  /\ \/ kind = "event" /\ EventNext /\ UNCHANGED queueVars
     \/ kind # "event" /\ QueueNext /\ UNCHANGED eventVars
  /\ UNCHANGED kind

Spec == Init /\ [][Next]_vars

-----------------------------------------------------------------------------
TypeOK == WaitTypeOK /\ EventTypeOK /\ QueueTypeOK

(* What is to be seen of a queue: its messages, and the answers of the receives. *)
Fifo == IF kind = "event" \/ obj_type = "RHINO_OBJ_TYPE_NONE" THEN <<>> ELSE Contents
Answer == [t \in Task |-> IF kind # "event" /\ pc[t] = "pend" THEN "waiting" ELSE msg[t]]

Abs == INSTANCE MsgFifo WITH Waiting <- "waiting", fifo <- Fifo, answer <- Answer

(* A queue is a fifo of whole messages that serves the waiter of the highest priority
   first, whatever is at the end of its ring, and whichever of a send, a time limit, an
   abort, a deletion or a change of priority comes first. *)
Refines == Abs!Spec
=============================================================================
