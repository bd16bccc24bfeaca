------------------------------ MODULE RhinoMutex ------------------------------
(***************************************************************************)
(* Mutexes with nesting and priority inheritance, k_mutex.c.  The early    *)
(* returns (deleted mutex, RHINO_NO_WAIT, scheduler locked, not the owner) *)
(* change nothing and are the negations of the guards.                     *)
(***************************************************************************)
EXTENDS RhinoCore

(* The application creates an object anew when nobody is in a call on it. *)
Unused(o) == \A t \in Task : arg[t] # o

krhino_mutex_create(m) ==
  /\ TaskCall("krhino_mutex_create")
  /\ m \notin live
  /\ Unused(m)
  /\ live' = live \cup {m}
  /\ blk_list' = [blk_list EXCEPT ![m] = <<>>]
  /\ mutex_task' = [mutex_task EXCEPT ![m] = None]
  /\ UNCHANGED <<schedVars, rq, tickVars, task_state, blk_obj, blk_state, prio,
                 b_prio, suspend_count, mutex_list, sliceVars, callVars,
                 owner_nested, count, chg, cs>>

(* Faulty: the owner keeps what it inherited through the deleted mutex. *)
MutexDelNoRelease(m) ==
  LET owner == mutex_task[m] IN
  /\ TaskCall("krhino_mutex_del")
  /\ m \in live
  /\ live' = live \ {m}
  /\ mutex_list' = IF owner = None THEN mutex_list
                   ELSE [mutex_list EXCEPT ![owner] = klist_rm(@, m)]
  /\ cs' = [CsNone EXCEPT !.op = "wake", !.obj = m, !.why = "BLK_DEL"]
  /\ UNCHANGED <<schedVars, rq, tickVars, pendVars, prio, b_prio,
                 suspend_count, sliceVars, callVars, mutex_task, owner_nested,
                 count, chg>>

(* The owner gives up what it inherited through the mutex, then all waiters
   are woken with BLK_DEL. *)
krhino_mutex_del(m) ==
  LET owner == mutex_task[m]
      ml    == klist_rm(mutex_list[owner], m)
  IN
  /\ TaskCall("krhino_mutex_del")
  /\ m \in live
  /\ live' = live \ {m}
  /\ IF owner # None
     THEN /\ mutex_list' = [mutex_list EXCEPT ![owner] = ml]
          /\ mutex_release(owner, ml, blk_list)
     ELSE UNCHANGED <<mutex_list, chg>>
  /\ cs' = [CsNone EXCEPT !.op = "wake", !.obj = m, !.why = "BLK_DEL"]
  /\ UNCHANGED <<schedVars, rq, tickVars, pendVars, prio, b_prio,
                 suspend_count, sliceVars, callVars, mutex_task, owner_nested,
                 count>>

(* Faulty: no check for the overflow of owner_nested. *)
LockNestedUnchecked(m) ==
  /\ mutex_task[m] = active
  /\ owner_nested' = [owner_nested EXCEPT ![m] = @ + 1]
  /\ UNCHANGED <<mutex_task, mutex_list, chg, cs>>

(* The caller owns the mutex already. *)
LockNested(m) ==
  /\ mutex_task[m] = active
  /\ owner_nested[m] < NestMax
  /\ owner_nested' = [owner_nested EXCEPT ![m] = @ + 1]
  /\ UNCHANGED <<mutex_task, mutex_list, chg, cs>>

(* Faulty: the mutex is taken although another task owns it. *)
LockTaken(m) ==
  /\ mutex_task[m] # active
  /\ mutex_task' = [mutex_task EXCEPT ![m] = active]
  /\ mutex_list' = [mutex_list EXCEPT ![active] = <<m>> \o @]
  /\ owner_nested' = [owner_nested EXCEPT ![m] = 1]
  /\ UNCHANGED <<chg, cs>>

LockFree(m) ==
  /\ mutex_task[m] = None
  /\ mutex_task' = [mutex_task EXCEPT ![m] = active]
  /\ mutex_list' = [mutex_list EXCEPT ![active] = <<m>> \o @]
  /\ owner_nested' = [owner_nested EXCEPT ![m] = 1]
  /\ UNCHANGED <<chg, cs>>

(* The caller has to wait: it lends its priority to the owner first. *)
LockWait(m, ticks) ==
  LET owner == mutex_task[m] IN
  /\ owner \notin {None, active}
  /\ ticks # 0
  /\ sched_lock = 0
  /\ chg' = IF prio[active] < prio[owner]
            THEN [task |-> owner, pri |-> prio[active]] ELSE NoChg
  /\ cs' = [CsNone EXCEPT !.op = "pend", !.obj = m, !.ticks = ticks]
  /\ UNCHANGED <<mutex_task, mutex_list, owner_nested>>

krhino_mutex_lock(m, ticks) ==
  /\ TaskCall("krhino_mutex_lock")
  /\ m \in live
  /\ LockNested(m) \/ LockFree(m) \/ LockWait(m, ticks)
  /\ UNCHANGED <<schedVars, rq, tickVars, pendVars, prio, b_prio,
                 suspend_count, sliceVars, callVars, live, count>>

(* any way block the current task *)
LockPend ==
  /\ cs.op = "pend" /\ chg.task = None
  /\ pend_to_blk_obj(cs.obj, active, cs.ticks)
  /\ pc' = [pc EXCEPT ![active] = "sched_pend"]
  /\ arg' = [arg EXCEPT ![active] = cs.obj]
  /\ cs' = CsNone
  /\ UNCHANGED <<schedVars, prio, b_prio, suspend_count, mutex_list,
                 sliceVars, objVars, chg>>

UnlockNested(m) ==
  /\ owner_nested[m] > 1
  /\ UNCHANGED <<mutex_list, chg, cs>>

UnlockRelease(m) ==
  LET ml == klist_rm(mutex_list[active], m) IN
  /\ owner_nested[m] = 1
  /\ mutex_list' = [mutex_list EXCEPT ![active] = ml]
  /\ mutex_release(active, ml, blk_list)
  /\ cs' = [CsNone EXCEPT !.op = "handover", !.obj = m]

krhino_mutex_unlock(m) ==
  /\ TaskCall("krhino_mutex_unlock")
  /\ m \in live
  /\ mutex_task[m] = active
  /\ owner_nested' = [owner_nested EXCEPT ![m] = @ - 1]
  /\ UnlockNested(m) \/ UnlockRelease(m)
  /\ UNCHANGED <<schedVars, rq, tickVars, pendVars, prio, b_prio,
                 suspend_count, sliceVars, callVars, live, mutex_task, count>>

(* No task waits: the mutex is free, and the caller goes on without a
   scheduling point. *)
UnlockFree ==
  LET m == cs.obj IN
  /\ cs.op = "handover" /\ chg.task = None
  /\ blk_list[m] = <<>>
  /\ mutex_task' = [mutex_task EXCEPT ![m] = None]
  /\ cs' = CsNone
  /\ UNCHANGED <<schedVars, rq, tickVars, pendVars, prio, b_prio,
                 suspend_count, mutex_list, sliceVars, callVars, live,
                 owner_nested, count, chg>>

(* The first waiter is woken as the owner. *)
UnlockHandover ==
  LET m == cs.obj
      t == Head(blk_list[m])
  IN
  /\ cs.op = "handover" /\ chg.task = None
  /\ blk_list[m] # <<>>
  /\ pend_task_wakeup(t, "BLK_FINISH")
  /\ mutex_task' = [mutex_task EXCEPT ![m] = t]
  /\ mutex_list' = [mutex_list EXCEPT ![t] = <<m>> \o @]
  /\ owner_nested' = [owner_nested EXCEPT ![m] = 1]
  /\ cs' = CsExit
  /\ UNCHANGED <<schedVars, prio, b_prio, suspend_count, sliceVars, callVars,
                 live, count, chg>>
==============================================================================
