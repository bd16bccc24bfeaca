------------------------------- MODULE RhinoSem -------------------------------
(***************************************************************************)
(* Counting semaphores, k_sem.c.  A give with waiters hands the unit over  *)
(* to a waiter and leaves the count alone.                                 *)
(***************************************************************************)
EXTENDS RhinoCore

krhino_sem_create(s, n) ==
  /\ TaskCall("krhino_sem_create")
  /\ s \notin live
  /\ \A t \in Task : arg[t] # s
  /\ live' = live \cup {s}
  /\ blk_list' = [blk_list EXCEPT ![s] = <<>>]
  /\ count' = [count EXCEPT ![s] = n]
  /\ UNCHANGED <<schedVars, rq, tickVars, task_state, blk_obj, blk_state, prio,
                 b_prio, suspend_count, mutex_list, sliceVars, callVars,
                 mutex_task, owner_nested, chg, cs>>

krhino_sem_del(s) ==
  /\ TaskCall("krhino_sem_del")
  /\ s \in live
  /\ live' = live \ {s}
  /\ cs' = [CsNone EXCEPT !.op = "wake", !.obj = s, !.why = "BLK_DEL"]
  /\ UNCHANGED <<schedVars, rq, tickVars, pendVars, prio, b_prio,
                 suspend_count, mutex_list, sliceVars, callVars, mutex_task,
                 owner_nested, count, chg>>

(* sem_give without a waiter, whichever of its options is given. *)
GiveCount(s) ==
  /\ AnyCall("krhino_sem_give") \/ AnyCall("krhino_sem_give_all")
  /\ s \in live
  /\ blk_list[s] = <<>>
  /\ count[s] < SemMax
  /\ count' = [count EXCEPT ![s] = @ + 1]
  /\ UNCHANGED <<schedVars, rq, tickVars, pendVars, prio, b_prio,
                 suspend_count, mutex_list, sliceVars, callVars, live,
                 mutex_task, owner_nested, chg, cs>>

(* WAKE_ONE_SEM: wake up the highest prio task block on the semaphore *)
GiveOne(s) ==
  /\ AnyCall("krhino_sem_give")
  /\ s \in live
  /\ blk_list[s] # <<>>
  /\ pend_task_wakeup(Head(blk_list[s]), "BLK_FINISH")
  /\ CriticalExitSched
  /\ UNCHANGED <<schedVars, prio, b_prio, suspend_count, mutex_list,
                 sliceVars, arg, objVars, chg, cs>>

(* WAKE_ALL_SEM *)
GiveAll(s) ==
  /\ AnyCall("krhino_sem_give_all")
  /\ s \in live
  /\ blk_list[s] # <<>>
  /\ cs' = [CsNone EXCEPT !.op = "wake", !.obj = s]
  /\ UNCHANGED <<schedVars, rq, tickVars, pendVars, prio, b_prio,
                 suspend_count, mutex_list, sliceVars, callVars, objVars, chg>>

sem_give(s) == GiveCount(s) \/ GiveOne(s) \/ GiveAll(s)

(* The loops that wake every waiter of an object, in sem_give,
   krhino_sem_del and krhino_mutex_del: one waiter, and the end. *)
WakeNext ==
  /\ cs.op = "wake" /\ chg.task = None
  /\ blk_list[cs.obj] # <<>>
  /\ pend_task_wakeup(Head(blk_list[cs.obj]), cs.why)
  /\ UNCHANGED <<schedVars, prio, b_prio, suspend_count, mutex_list,
                 sliceVars, callVars, objVars, chg, cs>>

WakeEnd ==
  /\ cs.op = "wake" /\ chg.task = None
  /\ blk_list[cs.obj] = <<>>
  /\ cs' = CsNone
  /\ CriticalExitSched
  /\ UNCHANGED <<schedVars, rq, tickVars, pendVars, prio, b_prio,
                 suspend_count, mutex_list, sliceVars, arg, objVars, chg>>

TakeCount(s) ==
  /\ count[s] > 0
  /\ count' = [count EXCEPT ![s] = @ - 1]
  /\ UNCHANGED <<rq, tickVars, pendVars, callVars>>

TakeWait(s, ticks) ==
  /\ count[s] = 0
  /\ ticks # 0
  /\ sched_lock = 0
  /\ pend_to_blk_obj(s, active, ticks)
  /\ pc' = [pc EXCEPT ![active] = "sched_pend"]
  /\ arg' = [arg EXCEPT ![active] = s]
  /\ UNCHANGED count

krhino_sem_take(s, ticks) ==
  /\ TaskCall("krhino_sem_take")
  /\ s \in live
  /\ TakeCount(s) \/ TakeWait(s, ticks)
  /\ UNCHANGED <<schedVars, prio, b_prio, suspend_count, mutex_list,
                 sliceVars, live, mutex_task, owner_nested, chg, cs>>

(* Faulty: the count is set although tasks wait. *)
CountSetUnchecked(s, n) ==
  /\ TaskCall("krhino_sem_count_set")
  /\ s \in live
  /\ count' = [count EXCEPT ![s] = n]
  /\ UNCHANGED <<schedVars, rq, tickVars, pendVars, prio, b_prio,
                 suspend_count, mutex_list, sliceVars, callVars, live,
                 mutex_task, owner_nested, chg, cs>>

krhino_sem_count_set(s, n) ==
  /\ TaskCall("krhino_sem_count_set")
  /\ s \in live
  /\ count[s] > 0 \/ blk_list[s] = <<>>
  /\ count' = [count EXCEPT ![s] = n]
  /\ UNCHANGED <<schedVars, rq, tickVars, pendVars, prio, b_prio,
                 suspend_count, mutex_list, sliceVars, callVars, live,
                 mutex_task, owner_nested, chg, cs>>
==============================================================================
