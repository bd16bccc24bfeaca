------------------------------ MODULE RhinoSched ------------------------------
(***************************************************************************)
(* The scheduler of k_sched.c and k_sys.c: scheduler lock, core_sched,     *)
(* interrupt entry and exit, the tick interrupt (k_time.c, k_tick.c) and   *)
(* round robin time slices.                                                *)
(***************************************************************************)
EXTENDS RhinoCore

krhino_sched_disable ==
  /\ TaskCall("krhino_sched_disable")
  /\ sched_lock < SchedLockMax
  /\ sched_lock' = sched_lock + 1
  /\ UNCHANGED <<active, intrpt, rq, tickVars, pendVars, prio, b_prio,
                 suspend_count, mutex_list, sliceVars, callVars, objVars,
                 chg, cs>>

krhino_sched_enable ==
  /\ TaskCall("krhino_sched_enable")
  /\ sched_lock > 0
  /\ sched_lock' = sched_lock - 1
  /\ IF sched_lock = 1 THEN CriticalExitSched ELSE UNCHANGED pc
  /\ UNCHANGED <<active, intrpt, rq, tickVars, pendVars, prio, b_prio,
                 suspend_count, mutex_list, sliceVars, arg, objVars,
                 chg, cs>>

(* core_sched at the end of an API call, an instant after interrupts were
   enabled again.  A blocking call goes on at its pend_state_end_proc when the
   task is next switched to, any other call returns. *)
core_sched ==
  /\ InTask
  /\ pc[active] \in {"sched", "sched_pend"}
  /\ active' = IF sched_lock > 0 THEN active ELSE preferred_cpu_ready_task_get(rq)
  /\ pc' = [pc EXCEPT ![active] = IF @ = "sched" THEN "user" ELSE "pend"]
  /\ UNCHANGED <<sched_lock, intrpt, rq, tickVars, pendVars, prio, b_prio,
                 suspend_count, mutex_list, sliceVars, arg, objVars,
                 chg, cs>>

(* The tail of a blocking call: the status it returns is what blk_state says. *)
pend_state_end_proc ==
  /\ InTask
  /\ pc[active] = "pend"
  /\ pc' = [pc EXCEPT ![active] = "user"]
  /\ arg' = [arg EXCEPT ![active] = None]
  /\ UNCHANGED <<schedVars, rq, tickVars, pendVars, prio, b_prio,
                 suspend_count, mutex_list, sliceVars, objVars,
                 chg, cs>>

krhino_intrpt_enter ==
  /\ Quiet
  /\ intrpt < IntrptMax
  /\ IsrCalls # {}
  /\ intrpt' = intrpt + 1
  /\ UNCHANGED <<active, sched_lock, rq, tickVars, pendVars, prio, b_prio,
                 suspend_count, mutex_list, sliceVars, callVars, objVars,
                 chg, cs>>

krhino_intrpt_exit ==
  /\ InIsr
  /\ intrpt' = intrpt - 1
  /\ active' = IF intrpt > 1 \/ sched_lock > 0 THEN active
               ELSE preferred_cpu_ready_task_get(rq)
  /\ UNCHANGED <<sched_lock, rq, tickVars, pendVars, prio, b_prio,
                 suspend_count, mutex_list, sliceVars, callVars, objVars,
                 chg, cs>>

(* Faulty: the yielding task returns without a scheduling point. *)
YieldNoSched ==
  /\ TaskCall("krhino_task_yield")
  /\ rq' = ready_list_head_to_tail(rq, prio[active])
  /\ UNCHANGED <<schedVars, tickVars, pendVars, prio, b_prio, suspend_count,
                 mutex_list, sliceVars, callVars, objVars, chg, cs>>

(* make current task to the end of ready list *)
krhino_task_yield ==
  /\ TaskCall("krhino_task_yield")
  /\ rq' = ready_list_head_to_tail(rq, prio[active])
  /\ CriticalExitSched
  /\ UNCHANGED <<schedVars, tickVars, pendVars, prio, b_prio, suspend_count,
                 mutex_list, sliceVars, arg, objVars, chg, cs>>

------------------------------------------------------------------------------
(* The tick interrupt: krhino_intrpt_enter, then krhino_tick_proc, whose
   tick_list_update takes the expired tasks off the tick list one by one; then,
   in a critical section of its own, time_slice_update. *)

(* Faulty: g_tick_count is not advanced. *)
TickIntrptNoCount ==
  /\ Quiet
  /\ intrpt < IntrptMax
  /\ intrpt' = intrpt + 1
  /\ cs' = CsTick
  /\ UNCHANGED <<active, sched_lock, rq, tickVars, pendVars, prio, b_prio,
                 suspend_count, mutex_list, sliceVars, callVars, objVars,
                 chg>>

TickIntrpt ==
  /\ Quiet
  /\ intrpt < IntrptMax
  /\ intrpt' = intrpt + 1
  /\ tick_remain' = [t \in AllTask |-> IF Contains(tick_list, t)
                                       THEN tick_remain[t] - 1
                                       ELSE tick_remain[t]]
  /\ cs' = CsTick
  /\ UNCHANGED <<active, sched_lock, rq, tick_list, pendVars, prio, b_prio,
                 suspend_count, mutex_list, sliceVars, callVars, objVars,
                 chg>>

TickExpired == tick_list # <<>> /\ tick_remain[Head(tick_list)] <= 0

(* The two sleep cases of the switch in tick_list_update. *)
TickSleep ==
  LET t == Head(tick_list) IN
  /\ cs.op = "tick" /\ chg.task = None
  /\ TickExpired
  /\ task_state[t] \in SleepStates
  /\ tick_list_rm(t)
  /\ rq' = IF task_state[t] = "K_SLEEP" THEN ready_list_add(rq, t) ELSE rq
  /\ task_state' = [task_state EXCEPT ![t] = Awake(@)]
  /\ blk_state' = [blk_state EXCEPT ![t] = "BLK_FINISH"]
  /\ UNCHANGED <<schedVars, blk_obj, blk_list, prio, b_prio, suspend_count,
                 mutex_list, sliceVars, callVars, objVars, chg, cs>>

(* The two pend cases.  The owner of the mutex waited for may lose the
   priority it had inherited: mutex_task_pri_reset. *)
TickTimeout ==
  LET t  == Head(tick_list)
      bl == [blk_list EXCEPT ![blk_obj[t]] = klist_rm(@, t)]
  IN
  /\ cs.op = "tick" /\ chg.task = None
  /\ TickExpired
  /\ task_state[t] \in PendStates
  /\ tick_list_rm(t)
  /\ blk_list' = bl
  /\ rq' = IF task_state[t] = "K_PEND" THEN ready_list_add(rq, t) ELSE rq
  /\ task_state' = [task_state EXCEPT ![t] = Awake(@)]
  /\ blk_state' = [blk_state EXCEPT ![t] = "BLK_TIMEOUT"]
  /\ mutex_task_pri_reset(t, bl)
  /\ blk_obj' = [blk_obj EXCEPT ![t] = None]
  /\ UNCHANGED <<schedVars, prio, b_prio, suspend_count, mutex_list,
                 sliceVars, callVars, objVars, cs>>

(* Always look at the first task on the ready list of the active priority. *)
time_slice_update ==
  LET p     == prio[active]
      head  == Head(rq.list[p])
      slice == IF time_slice[head] > 0 THEN time_slice[head] - 1 ELSE 0
  IN
  IF Len(rq.list[p]) > 1 /\ sched_policy[head] = "KSCHED_RR"
  THEN /\ rq' = IF slice > 0 THEN rq ELSE ready_list_head_to_tail(rq, p)
       /\ time_slice' = [time_slice EXCEPT ![head] =
                           IF slice > 0 THEN slice ELSE time_total[head]]
  ELSE UNCHANGED <<rq, time_slice>>

TickEnd ==
  /\ cs.op = "tick" /\ chg.task = None
  /\ ~TickExpired
  /\ cs' = CsNone
  /\ slice_due' = slice_due \cup {intrpt}
  /\ UNCHANGED <<schedVars, rq, tickVars, pendVars, prio, b_prio,
                 suspend_count, mutex_list, time_slice, time_total,
                 sched_policy, callVars, objVars, chg>>

tick_list_update == TickSleep \/ TickTimeout \/ TickEnd

TickSlice ==
  /\ Quiet
  /\ intrpt \in slice_due
  /\ time_slice_update
  /\ slice_due' = slice_due \ {intrpt}
  /\ UNCHANGED <<schedVars, tickVars, pendVars, prio, b_prio, suspend_count,
                 mutex_list, time_total, sched_policy, callVars, objVars,
                 chg, cs>>

(* The end of a critical section that leaves through
   RHINO_CRITICAL_EXIT_SCHED. *)
ExitSched ==
  /\ cs.op = "exit" /\ chg.task = None
  /\ cs' = CsNone
  /\ CriticalExitSched
  /\ arg' = IF intrpt > 0 THEN arg ELSE [arg EXCEPT ![active] = None]
  /\ UNCHANGED <<schedVars, rq, tickVars, pendVars, prio, b_prio,
                 suspend_count, mutex_list, sliceVars, objVars, chg>>
==============================================================================
