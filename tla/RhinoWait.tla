----------------------------- MODULE RhinoWait -----------------------------
(***************************************************************************)
(* Waiting for a kernel object (k_pend.c), as event flags and queues do it *)
(* at the granularity of their critical sections.  Which of the tasks that *)
(* are ready runs next is left open (RhinoKernel models the scheduler), so *)
(* any of them may be between two critical sections.  The loops that wake  *)
(* several tasks in one critical section take a step for each of them.     *)
(***************************************************************************)
EXTENDS RhinoList

CONSTANTS
  Task,     \* the tasks that wait for the object
  Prios,    \* the priorities they may be given; 0 is the highest
  Kinds,    \* the kinds of objects to look at
  None

ASSUME WaitAssumption ==
  /\ Prios \subseteq Nat /\ Prios # {} /\ None \notin Task
  /\ Kinds \subseteq {"event", "queue", "fix_buf_queue", "buf_queue"}

VARIABLES
  kind,        \* what the object is; never changes
  obj_type,    \* whether the object exists
  blk_list,    \* the tasks that wait
  prio,        \* the priority of each task
  pc,          \* "run", "pend" in the wait, or after it blk_state, why it has ended
  ticking,     \* the tasks on the tick list
  cs           \* the loop of the critical section under way

waitVars == <<obj_type, blk_list, prio, pc, ticking, cs>>

BlkStates == {"BLK_FINISH", "BLK_ABORT", "BLK_TIMEOUT", "BLK_DEL"}

(* iter: the waiters the loop has yet to look at; arg: what it hands to them. *)
NoCs == [op |-> "none", iter |-> <<>>, arg |-> None]
Loop(op, iter, arg) == [op |-> op, iter |-> iter, arg |-> arg]
Quiet == cs = NoCs

WaitInit ==
  /\ kind \in Kinds
  /\ obj_type = "RHINO_OBJ_TYPE_NONE"
  /\ blk_list = <<>>
  /\ prio \in [Task -> Prios]
  /\ pc = [t \in Task |-> "run"]
  /\ ticking = {}
  /\ cs = NoCs

-----------------------------------------------------------------------------
(* Faulty: a new waiter is put in front. *)
PendInFront(t) ==
  /\ blk_list' = <<t>> \o blk_list
  /\ pc' = [pc EXCEPT ![t] = "pend"]
  /\ \E timed \in BOOLEAN : ticking' = IF timed THEN ticking \cup {t} ELSE ticking
  /\ UNCHANGED prio

(* pend_to_blk_obj, with a time limit or without. *)
pend_to_blk_obj(t) ==
  /\ blk_list' = SortedInsert(blk_list, t, prio)
  /\ pc' = [pc EXCEPT ![t] = "pend"]
  /\ \E timed \in BOOLEAN : ticking' = IF timed THEN ticking \cup {t} ELSE ticking
  /\ UNCHANGED prio

(* pend_task_wakeup and pend_task_rm; the tick handler and krhino_task_wait_abort
   do the same. *)
Wake(t, why) ==
  /\ blk_list' = klist_rm(blk_list, t)
  /\ pc' = [pc EXCEPT ![t] = why]
  /\ ticking' = ticking \ {t}
  /\ UNCHANGED prio

(* tick_list_update: the time of a waiter is up. *)
Timeout(t) ==
  /\ Quiet /\ t \in ticking
  /\ Wake(t, "BLK_TIMEOUT")
  /\ UNCHANGED <<obj_type, cs>>

krhino_task_wait_abort(t) ==
  /\ Quiet /\ pc[t] = "pend"
  /\ Wake(t, "BLK_ABORT")
  /\ UNCHANGED <<obj_type, cs>>

(* Faulty: the task keeps its place in the list. *)
PriChangeInPlace(t) ==
  /\ Quiet
  /\ \E p \in Prios \ {prio[t]} : prio' = [prio EXCEPT ![t] = p]
  /\ UNCHANGED <<obj_type, blk_list, pc, ticking, cs>>

(* task_pri_change, with the pend_list_reorder of a task that waits. *)
task_pri_change(t) ==
  /\ Quiet
  /\ \E p \in Prios \ {prio[t]} : prio' = [prio EXCEPT ![t] = p]
  /\ blk_list' = IF pc[t] = "pend" THEN SortedInsert(klist_rm(blk_list, t), t, prio') ELSE blk_list
  /\ UNCHANGED <<obj_type, pc, ticking, cs>>

(* The task runs again, and pend_state_end_proc tells it why. *)
pend_state_end_proc(t) ==
  /\ Quiet /\ pc[t] \in BlkStates
  /\ pc' = [pc EXCEPT ![t] = "run"]
  /\ UNCHANGED <<obj_type, blk_list, prio, ticking, cs>>

-----------------------------------------------------------------------------
(* The deletion of an object: its waiters are woken one after the other. *)
DelBegin ==
  /\ Quiet /\ obj_type # "RHINO_OBJ_TYPE_NONE"
  /\ obj_type' = "RHINO_OBJ_TYPE_NONE"
  /\ cs' = Loop("del", <<>>, None)
  /\ UNCHANGED <<blk_list, prio, pc, ticking>>

DelWake ==
  /\ cs.op = "del" /\ blk_list # <<>>
  /\ Wake(Head(blk_list), "BLK_DEL")
  /\ UNCHANGED <<obj_type, cs>>

DelEnd ==
  /\ cs.op = "del" /\ blk_list = <<>>
  /\ cs' = NoCs
  /\ UNCHANGED <<obj_type, blk_list, prio, pc, ticking>>

(* The creation of an object that does not exist; its list is initialised. *)
Create(type) ==
  /\ Quiet /\ obj_type = "RHINO_OBJ_TYPE_NONE"
  /\ obj_type' = type
  /\ blk_list' = <<>>
  /\ UNCHANGED <<prio, pc, ticking, cs>>

WaitNext == \E t \in Task : Timeout(t) \/ krhino_task_wait_abort(t) \/ task_pri_change(t)

-----------------------------------------------------------------------------
WaitTypeOK ==
  /\ kind \in Kinds
  /\ obj_type \in {"RHINO_OBJ_TYPE_NONE", "RHINO_EVENT_OBJ_TYPE", "RHINO_QUEUE_OBJ_TYPE",
                   "RHINO_BUF_QUEUE_OBJ_TYPE"}
  /\ blk_list \in Seq(Task)
  /\ prio \in [Task -> Prios]
  /\ pc \in [Task -> {"run", "pend"} \cup BlkStates]
  /\ ticking \in SUBSET Task

(* Whatever ends a wait, or changes a priority in it: the list holds every task that
   waits once, in the order of the priorities, only tasks that wait are on the tick
   list, and nobody waits for an object that was deleted. *)
WaitersListed ==
  /\ Linear(blk_list) /\ Sorted(blk_list, prio)
  /\ ToSet(blk_list) = {t \in Task : pc[t] = "pend"}
  /\ ticking \subseteq ToSet(blk_list)
  /\ Quiet /\ obj_type = "RHINO_OBJ_TYPE_NONE" => blk_list = <<>>
=============================================================================
