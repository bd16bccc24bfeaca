------------------------------ MODULE RhinoTask ------------------------------
(***************************************************************************)
(* The task management API of k_task.c.                                    *)
(***************************************************************************)
EXTENDS RhinoCore

krhino_task_sleep(ticks) ==
  LET t == active IN
  /\ TaskCall("krhino_task_sleep")
  /\ ticks > 0
  /\ sched_lock = 0
  /\ task_state' = [task_state EXCEPT ![t] = "K_SLEEP"]
  /\ tick_list_insert(t, ticks)
  /\ rq' = ready_list_rm(rq, t)
  /\ pc' = [pc EXCEPT ![t] = "sched_pend"]
  /\ UNCHANGED <<schedVars, blk_obj, blk_state, blk_list, prio, b_prio,
                 suspend_count, mutex_list, sliceVars, arg, objVars,
                 chg, cs>>

SuspendedState(st) ==
  CASE st = "K_SLEEP" -> "K_SLEEP_SUSPENDED"
    [] st = "K_PEND"  -> "K_PEND_SUSPENDED"
    [] OTHER          -> "K_SUSPENDED"

task_suspend(t) ==
  /\ AnyCall("krhino_task_suspend")
  /\ prio[t] # IdlePri
  /\ t = active => sched_lock = 0
  /\ \/ /\ task_state[t] \in {"K_RDY", "K_SLEEP", "K_PEND"}
        /\ suspend_count' = [suspend_count EXCEPT ![t] = 1]
        /\ task_state' = [task_state EXCEPT ![t] = SuspendedState(@)]
        /\ rq' = IF task_state[t] = "K_RDY" THEN ready_list_rm(rq, t) ELSE rq
     \/ /\ task_state[t] \in SuspendStates
        /\ suspend_count[t] < SuspendMax
        /\ suspend_count' = [suspend_count EXCEPT ![t] = @ + 1]
        /\ UNCHANGED <<task_state, rq>>
  /\ CriticalExitSched
  /\ UNCHANGED <<schedVars, tickVars, blk_obj, blk_state, blk_list, prio,
                 b_prio, mutex_list, sliceVars, arg, objVars, chg, cs>>

ResumedState(st) ==
  CASE st = "K_SLEEP_SUSPENDED" -> "K_SLEEP"
    [] st = "K_PEND_SUSPENDED"  -> "K_PEND"
    [] OTHER                    -> "K_RDY"

task_resume(t) ==
  /\ AnyCall("krhino_task_resume")
  /\ task_state[t] \in SuspendStates
  /\ suspend_count' = [suspend_count EXCEPT ![t] = @ - 1]
  /\ IF suspend_count[t] = 1
     THEN /\ task_state' = [task_state EXCEPT ![t] = ResumedState(@)]
          /\ rq' = IF task_state[t] = "K_SUSPENDED"
                   THEN ready_list_add(rq, t) ELSE rq
     ELSE UNCHANGED <<task_state, rq>>
  /\ CriticalExitSched
  /\ UNCHANGED <<schedVars, tickVars, blk_obj, blk_state, blk_list, prio,
                 b_prio, mutex_list, sliceVars, arg, objVars, chg, cs>>

(* krhino_task_pri_change looks at the task before it disables interrupts ... *)
PriChangeCheck(t, pri) ==
  /\ TaskCall("krhino_task_pri_change")
  /\ prio[t] < IdlePri
  /\ pri < IdlePri
  /\ task_state[t] # "K_DELETED"
  /\ pc' = [pc EXCEPT ![active] = "pri_change"]
  /\ arg' = [arg EXCEPT ![active] = [task |-> t, pri |-> pri]]
  /\ UNCHANGED <<schedVars, rq, tickVars, pendVars, prio, b_prio,
                 suspend_count, mutex_list, sliceVars, objVars, chg, cs>>

(* ... and changes it afterwards. *)
krhino_task_pri_change ==
  LET t == arg[active].task
      p == arg[active].pri
  IN
  /\ InTask
  /\ pc[active] = "pri_change"
  /\ b_prio' = [b_prio EXCEPT ![t] = p]
  /\ chg' = [task |-> t, pri |-> mutex_pri_limit(p, mutex_list[t], blk_list, prio)]
  /\ cs' = CsExit
  /\ UNCHANGED <<schedVars, rq, tickVars, pendVars, prio, suspend_count,
                 mutex_list, sliceVars, callVars, objVars>>

(* krhino_task_wait_abort, by the state of the task. *)
AbortReady(t) ==
  /\ task_state[t] \in {"K_RDY", "K_SUSPENDED"}
  /\ rq' = IF task_state[t] = "K_SUSPENDED" THEN ready_list_add(rq, t) ELSE rq
  /\ task_state' = [task_state EXCEPT ![t] = "K_RDY"]
  /\ UNCHANGED <<tickVars, blk_obj, blk_state, blk_list, chg>>

(* Faulty: the aborted sleeper stays on the tick list. *)
AbortSleepKeepsTimer(t) ==
  /\ task_state[t] \in SleepStates
  /\ rq' = ready_list_add(rq, t)
  /\ task_state' = [task_state EXCEPT ![t] = "K_RDY"]
  /\ blk_state' = [blk_state EXCEPT ![t] = "BLK_ABORT"]
  /\ UNCHANGED <<tickVars, blk_obj, blk_list, chg>>

AbortSleep(t) ==
  /\ task_state[t] \in SleepStates
  /\ tick_list_rm(t)
  /\ rq' = ready_list_add(rq, t)
  /\ task_state' = [task_state EXCEPT ![t] = "K_RDY"]
  /\ blk_state' = [blk_state EXCEPT ![t] = "BLK_ABORT"]
  /\ UNCHANGED <<blk_obj, blk_list, chg>>

AbortPend(t) ==
  LET bl == [blk_list EXCEPT ![blk_obj[t]] = klist_rm(@, t)] IN
  /\ task_state[t] \in PendStates
  /\ tick_list_rm(t)
  /\ blk_list' = bl
  /\ rq' = ready_list_add(rq, t)
  /\ task_state' = [task_state EXCEPT ![t] = "K_RDY"]
  /\ blk_state' = [blk_state EXCEPT ![t] = "BLK_ABORT"]
  /\ mutex_task_pri_reset(t, bl)
  /\ blk_obj' = [blk_obj EXCEPT ![t] = None]

krhino_task_wait_abort(t) ==
  /\ TaskCall("krhino_task_wait_abort")
  /\ AbortReady(t) \/ AbortSleep(t) \/ AbortPend(t)
  /\ cs' = CsExit
  /\ UNCHANGED <<schedVars, prio, b_prio, suspend_count, mutex_list,
                 sliceVars, callVars, objVars>>

------------------------------------------------------------------------------
(* Deletion: task_mutex_free passes on the mutexes of the task one by one,
   then the task leaves the lists it is on.  task_mutex_free comes before the
   test of the state, so it also runs for a task that is deleted already, whose
   mutex_list is what it was; that is enabled with a single mutex, when the
   stale list leads to no other. *)

krhino_task_del(t) ==
  /\ TaskCall("krhino_task_del")
  /\ prio[t] # IdlePri
  /\ t = active => sched_lock = 0
  /\ task_state[t] = "K_DELETED" =>
       TaskCall("krhino_task_del again") /\ \A m, n \in Mutex : m = n
  /\ cs' = [CsNone EXCEPT !.op = "free", !.task = t, !.list = mutex_list[t]]
  /\ UNCHANGED <<schedVars, rq, tickVars, pendVars, prio, b_prio,
                 suspend_count, mutex_list, sliceVars, callVars, objVars, chg>>

(* An iteration of task_mutex_free with a waiter ... *)
FreeToWaiter ==
  LET m == Head(cs.list)
      t == Head(blk_list[m])
  IN
  /\ cs.op = "free" /\ cs.list # <<>>
  /\ blk_list[m] # <<>>
  /\ pend_task_wakeup(t, "BLK_FINISH")
  /\ mutex_task' = [mutex_task EXCEPT ![m] = t]
  /\ mutex_list' = [mutex_list EXCEPT ![t] = <<m>> \o @]
  /\ cs' = [cs EXCEPT !.list = Tail(@)]
  /\ UNCHANGED <<schedVars, prio, b_prio, suspend_count, sliceVars, callVars,
                 live, owner_nested, count, chg>>

(* Faulty: the mutex still belongs to the deleted task. *)
FreeForgotten ==
  LET m == Head(cs.list) IN
  /\ cs.op = "free" /\ cs.list # <<>>
  /\ blk_list[m] = <<>>
  /\ cs' = [cs EXCEPT !.list = Tail(@)]
  /\ UNCHANGED <<schedVars, rq, tickVars, pendVars, prio, b_prio,
                 suspend_count, mutex_list, sliceVars, callVars, objVars, chg>>

(* ... and without one. *)
FreeUnowned ==
  LET m == Head(cs.list) IN
  /\ cs.op = "free" /\ cs.list # <<>>
  /\ blk_list[m] = <<>>
  /\ mutex_task' = [mutex_task EXCEPT ![m] = None]
  /\ cs' = [cs EXCEPT !.list = Tail(@)]
  /\ UNCHANGED <<schedVars, rq, tickVars, pendVars, prio, b_prio,
                 suspend_count, mutex_list, sliceVars, callVars, live,
                 owner_nested, count, chg>>

DelUnpended(t) ==
  /\ task_state[t] \notin PendStates
  /\ rq' = IF task_state[t] = "K_RDY" THEN ready_list_rm(rq, t) ELSE rq
  /\ tick_list_rm(t)
  /\ UNCHANGED <<blk_list, chg>>

DelPended(t) ==
  LET bl == [blk_list EXCEPT ![blk_obj[t]] = klist_rm(@, t)] IN
  /\ task_state[t] \in PendStates
  /\ tick_list_rm(t)
  /\ blk_list' = bl
  /\ mutex_task_pri_reset(t, bl)
  /\ UNCHANGED rq

(* The switch of krhino_task_del; a deleted task is left alone. *)
DelTask ==
  LET t == cs.task IN
  /\ cs.op = "free" /\ cs.list = <<>>
  /\ IF task_state[t] = "K_DELETED"
     THEN /\ cs' = CsNone
          /\ UNCHANGED <<rq, tickVars, pendVars, chg>>
     ELSE /\ DelUnpended(t) \/ DelPended(t)
          /\ task_state' = [task_state EXCEPT ![t] = "K_DELETED"]
          /\ cs' = CsExit
          /\ UNCHANGED <<blk_obj, blk_state>>
  /\ UNCHANGED <<schedVars, prio, b_prio, suspend_count, mutex_list,
                 sliceVars, callVars, objVars>>

(* krhino_task_create of a task that was deleted.  Nobody uses the handle until
   the call returns, so the stores before the critical section count as part
   of it. *)
krhino_task_create(t, autorun) ==
  /\ TaskCall("krhino_task_create")
  /\ task_state[t] = "K_DELETED"
  /\ prio' = [prio EXCEPT ![t] = BasePrio[t]]
  /\ b_prio' = [b_prio EXCEPT ![t] = BasePrio[t]]
  /\ blk_obj' = [blk_obj EXCEPT ![t] = None]
  /\ blk_state' = [blk_state EXCEPT ![t] = "BLK_FINISH"]
  /\ mutex_list' = [mutex_list EXCEPT ![t] = <<>>]
  /\ time_total' = [time_total EXCEPT ![t] = SliceTotal[t]]
  /\ time_slice' = [time_slice EXCEPT ![t] = SliceTotal[t]]
  /\ sched_policy' = [sched_policy EXCEPT ![t] = "KSCHED_RR"]
  /\ arg' = [arg EXCEPT ![t] = None]
  /\ IF autorun
     THEN /\ task_state' = [task_state EXCEPT ![t] = "K_RDY"]
          /\ suspend_count' = [suspend_count EXCEPT ![t] = 0]
          /\ rq' = ready_list_add_tail(rq, t, BasePrio[t])
          /\ pc' = [pc EXCEPT ![t] = "user", ![active] = "sched"]
     ELSE /\ task_state' = [task_state EXCEPT ![t] = "K_SUSPENDED"]
          /\ suspend_count' = [suspend_count EXCEPT ![t] = 1]
          /\ pc' = [pc EXCEPT ![t] = "user"]
          /\ UNCHANGED rq
  /\ UNCHANGED <<schedVars, tickVars, blk_list, slice_due, objVars, chg, cs>>

------------------------------------------------------------------------------
(* Round robin parameters. *)

(* Faulty: what is left of the slice is not set with it. *)
SliceSetKeepsRest(t, slice) ==
  /\ TaskCall("krhino_task_time_slice_set")
  /\ time_total' = [time_total EXCEPT ![t] = slice]
  /\ UNCHANGED <<schedVars, rq, tickVars, pendVars, prio, b_prio,
                 suspend_count, mutex_list, time_slice, sched_policy, slice_due,
                 callVars, objVars, chg, cs>>

krhino_task_time_slice_set(t, slice) ==
  /\ TaskCall("krhino_task_time_slice_set")
  /\ time_total' = [time_total EXCEPT ![t] = slice]
  /\ time_slice' = [time_slice EXCEPT ![t] = slice]
  /\ UNCHANGED <<schedVars, rq, tickVars, pendVars, prio, b_prio,
                 suspend_count, mutex_list, sched_policy, slice_due, callVars,
                 objVars, chg, cs>>

krhino_sched_policy_set(t, policy) ==
  /\ TaskCall("krhino_sched_policy_set")
  /\ sched_policy' = [sched_policy EXCEPT ![t] = policy]
  /\ UNCHANGED <<schedVars, rq, tickVars, pendVars, prio, b_prio,
                 suspend_count, mutex_list, time_slice, time_total, slice_due,
                 callVars, objVars, chg, cs>>
==============================================================================
