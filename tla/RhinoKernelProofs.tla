-------------------------- MODULE RhinoKernelProofs --------------------------
(***************************************************************************)
(* The mutexes and the task management functions keep KernelInv, and with  *)
(* it the safety properties of the kernel hold, for any number of tasks,   *)
(* mutexes, semaphores, priorities and ticks, and for every program that   *)
(* deletes no task twice.                                                  *)
(***************************************************************************)
EXTENDS RhinoSchedProofs

USE DEF schedVars, tickVars, pendVars, sliceVars, callVars, objVars

(* The mutexes and priority inheritance. *)

(* The mutex lists: their entries are mutexes. *)
LEMMA HeldMutexes ==
  ASSUME KernelInv
  PROVE  /\ Mutex \subseteq Obj /\ Task \subseteq AllTask
         /\ \A t \in Task : mutex_list[t] \in Seq(Mutex) /\ ToSet(mutex_list[t]) \subseteq Mutex
<1>1. mutex_list \in [AllTask -> Seq(Mutex)] /\ Task \subseteq AllTask /\ Mutex \subseteq Obj
  BY DEF KernelInv, TypeOK, AllTask, Obj
<1> QED BY <1>1, EntrySet

(* The critical section of a call that takes no mutex: who owns what when no
   unlock and no deletion is under way. *)
LEMMA Settled ==
  ASSUME KernelInv, cs.op \notin {"handover", "free"}
  PROVE  /\ \A m \in Mutex \cap live :
              /\ blk_list[m] # <<>> => mutex_task[m] \in Task
              /\ mutex_task[m] \in Task =>
                   /\ task_state[mutex_task[m]] # "K_DELETED"
                   /\ mutex_task[m] \notin ToSet(blk_list[m])
                   /\ m \in ToSet(mutex_list[mutex_task[m]])
                   /\ owner_nested[m] > 0
         /\ \A t \in Task :
              /\ Linear(mutex_list[t])
              /\ task_state[t] # "K_DELETED" =>
                   \A m \in ToSet(mutex_list[t]) : m \in live /\ mutex_task[m] = t
BY DEF KernelInv, OwnerInv

(* A mutex is created. *)
LEMMA MutexCreateInv ==
  ASSUME KernelInv, NEW m \in Mutex, krhino_mutex_create(m)
  PROVE  KernelInv'
<1>1. /\ TaskCall("krhino_mutex_create") /\ m \notin live
      /\ live' = live \cup {m}
      /\ blk_list' = [blk_list EXCEPT ![m] = <<>>]
      /\ mutex_task' = [mutex_task EXCEPT ![m] = None]
      /\ UNCHANGED <<schedVars, rq, tickVars, task_state, blk_obj, blk_state, prio,
                     b_prio, suspend_count, mutex_list, sliceVars, callVars,
                     owner_nested, count, chg, cs>>
  BY DEF krhino_mutex_create
<1>2. cs.op = "none" /\ chg.task = None /\ m \in Obj
  BY <1>1, TaskContext DEF Obj
<1>3. blk_list[m] = <<>> /\ blk_list' = blk_list
  <2>1. blk_list[m] = <<>>
    BY <1>1, <1>2 DEF KernelInv, DeadInv
  <2> QED BY <1>1, <1>2, <2>1 DEF KernelInv, TypeOK
<1>4. Lists'
  BY <1>1, <1>3, InvLists DEF Lists
<1>5. mutex_task' \in [Mutex -> Task \cup {None}]
      /\ mutex_task'[m] = None /\ \A x \in Mutex : x # m => mutex_task'[x] = mutex_task[x]
  BY <1>1 DEF KernelInv, TypeOK
<1>6. OwnerInv'
  <2>1. None \notin Task
    BY TaskAssumption DEF AllTask
  <2>2. ASSUME NEW x \in Mutex \cap live'
        PROVE  /\ blk_list'[x] # <<>> => mutex_task'[x] \in Task
               /\ mutex_task'[x] \in Task =>
                    /\ task_state'[mutex_task'[x]] # "K_DELETED"
                    /\ mutex_task'[x] \notin ToSet(blk_list'[x])
                    /\ x \in ToSet(mutex_list'[mutex_task'[x]])
                    /\ owner_nested'[x] > 0
    <3>1. CASE x = m
      BY <1>3, <1>5, <2>1, <3>1
    <3>2. CASE x # m
      BY <1>1, <1>2, <1>3, <1>5, <3>2, Settled
    <3> QED BY <3>1, <3>2
  <2>3. ASSUME NEW t \in Task
        PROVE  /\ Linear(mutex_list'[t])
               /\ task_state'[t] # "K_DELETED" =>
                    \A x \in ToSet(mutex_list'[t]) : x \in live' /\ mutex_task'[x] = t
    <3>1. ToSet(mutex_list[t]) \subseteq Mutex
      BY HeldMutexes
    <3> QED BY <1>1, <1>2, <1>5, <3>1, Settled
  <2> QED BY <2>2, <2>3 DEF OwnerInv
<1>7. DeadInv' /\ NoLostGive'
  BY <1>1, <1>3 DEF KernelInv, DeadInv, NoLostGive
<1>8. TypeOK'
  BY <1>1, <1>2, <1>3, <1>5 DEF KernelInv, TypeOK
<1>9. NotOverdue'
  BY <1>1 DEF KernelInv, NotOverdue
<1>10. CsInv'
  BY <1>1, <1>2 DEF CsInv
<1>11. ActiveInv'
  BY <1>1 DEF KernelInv, ActiveInv, Quiet
<1>12. CallInv' /\ SliceInRange'
  BY <1>1 DEF KernelInv, CallInv, SliceInRange
<1> QED BY <1>4, <1>6, <1>7, <1>8, <1>9, <1>10, <1>11, <1>12 DEF KernelInv, Lists

(* A mutex leaves the list of its owner. *)
LEMMA Unlinked ==
  ASSUME KernelInv, NEW t \in Task, NEW m \in ToSet(mutex_list[t]),
         mutex_list' = [mutex_list EXCEPT ![t] = klist_rm(mutex_list[t], m)]
  PROVE  /\ klist_rm(mutex_list[t], m) \in Seq(Mutex)
         /\ mutex_list' \in [AllTask -> Seq(Mutex)]
         /\ ToSet(mutex_list'[t]) = ToSet(mutex_list[t]) \ {m} /\ Linear(mutex_list'[t])
         /\ \A u \in Task : u # t => mutex_list'[u] = mutex_list[u]
<1>1. /\ mutex_list \in [AllTask -> Seq(Mutex)] /\ mutex_list[t] \in Seq(Mutex)
      /\ Task \subseteq AllTask /\ Linear(mutex_list[t])
  BY HeldMutexes DEF KernelInv, TypeOK, OwnerInv
<1>2. /\ klist_rm(mutex_list[t], m) \in Seq(Mutex)
      /\ ToSet(klist_rm(mutex_list[t], m)) = ToSet(mutex_list[t]) \ {m}
      /\ Linear(klist_rm(mutex_list[t], m))
  BY <1>1, KlistRm
<1> QED BY <1>1, <1>2

(* A mutex joins the list of its new owner. *)
LEMMA Linked ==
  ASSUME KernelInv, NEW t \in Task, NEW m \in Mutex, m \notin ToSet(mutex_list[t]),
         mutex_list' = [mutex_list EXCEPT ![t] = <<m>> \o @]
  PROVE  /\ mutex_list' \in [AllTask -> Seq(Mutex)]
         /\ ToSet(mutex_list'[t]) = ToSet(mutex_list[t]) \cup {m} /\ Linear(mutex_list'[t])
         /\ \A u \in Task : u # t => mutex_list'[u] = mutex_list[u]
<1>1. /\ mutex_list \in [AllTask -> Seq(Mutex)] /\ mutex_list[t] \in Seq(Mutex)
      /\ Task \subseteq AllTask /\ Linear(mutex_list[t])
  BY HeldMutexes DEF KernelInv, TypeOK, OwnerInv
<1>2. /\ <<m>> \o mutex_list[t] \in Seq(Mutex)
      /\ ToSet(<<m>> \o mutex_list[t]) = ToSet(mutex_list[t]) \cup {m}
      /\ Linear(<<m>> \o mutex_list[t])
  BY <1>1, PutInFront
<1> QED BY <1>1, <1>2

(* A mutex is deleted: its owner loses it and its waiters are to be woken. *)
LEMMA MutexDelInv ==
  ASSUME KernelInv, NEW m \in Mutex, krhino_mutex_del(m)
  PROVE  KernelInv'
<1> DEFINE owner == mutex_task[m]
           ml    == klist_rm(mutex_list[owner], m)
<1>1. /\ TaskCall("krhino_mutex_del") /\ m \in live /\ live' = live \ {m}
      /\ owner # None => /\ mutex_list' = [mutex_list EXCEPT ![owner] = ml]
                         /\ mutex_release(owner, ml, blk_list)
      /\ owner = None => UNCHANGED <<mutex_list, chg>>
      /\ cs' = [CsNone EXCEPT !.op = "wake", !.obj = m, !.why = "BLK_DEL"]
      /\ UNCHANGED <<schedVars, rq, tickVars, pendVars, prio, b_prio,
                     suspend_count, sliceVars, callVars, mutex_task, owner_nested, count>>
  BY DEF krhino_mutex_del
<1>2. /\ cs.op = "none" /\ chg.task = None /\ m \in Obj /\ intrpt = 0
      /\ active \in Task /\ task_state[active] = "K_RDY"
  BY <1>1, TaskContext DEF Obj
<1>3. cs' \in CsType /\ cs'.op = "wake" /\ cs'.obj = m
  BY <1>1, <1>2, WakeRecord
<1>4. Lists'
  BY <1>1, InvLists DEF Lists
<1>5. owner \in Task \cup {None} /\ None \notin Task
  BY TaskAssumption DEF KernelInv, TypeOK, AllTask
<1>6. /\ mutex_list' \in [AllTask -> Seq(Mutex)]
      /\ \A t \in Task : /\ Linear(mutex_list'[t])
                         /\ ToSet(mutex_list'[t]) = IF t = owner THEN ToSet(mutex_list[t]) \ {m}
                                                    ELSE ToSet(mutex_list[t])
      /\ chg' \in ChgType
      /\ chg'.task # None => task_state[chg'.task] # "K_DELETED"
  <2>1. CASE owner = None
    BY <1>1, <1>2, <1>5, <2>1 DEF KernelInv, TypeOK, OwnerInv
  <2>2. CASE owner \in Task
    <3>1. m \in ToSet(mutex_list[owner]) /\ task_state[owner] # "K_DELETED"
      BY <1>1, <1>2, <2>2, Settled
    <3>2. mutex_list' = [mutex_list EXCEPT ![owner] = ml] /\ mutex_release(owner, ml, blk_list)
      BY <1>1, <1>5, <2>2
    <3>3. /\ ml \in Seq(Mutex) /\ mutex_list' \in [AllTask -> Seq(Mutex)]
          /\ ToSet(mutex_list'[owner]) = ToSet(mutex_list[owner]) \ {m}
          /\ Linear(mutex_list'[owner])
          /\ \A u \in Task : u # owner => mutex_list'[u] = mutex_list[u]
      BY <2>2, <3>1, <3>2, Unlinked
    <3>4. chg' \in ChgType /\ chg'.task \in {owner, None}
      BY <2>2, <3>2, <3>3, ReleaseType DEF KernelInv, TypeOK
    <3>5. \A t \in Task : Linear(mutex_list[t])
      BY DEF KernelInv, OwnerInv
    <3> QED BY <3>1, <3>3, <3>4, <3>5
  <2> QED BY <1>5, <2>1, <2>2
<1>7. OwnerInv'
  <2>1. ASSUME NEW x \in Mutex \cap live'
        PROVE  /\ blk_list'[x] # <<>> => mutex_task'[x] \in Task
               /\ mutex_task'[x] \in Task =>
                    /\ task_state'[mutex_task'[x]] # "K_DELETED"
                    /\ mutex_task'[x] \notin ToSet(blk_list'[x])
                    /\ x \in ToSet(mutex_list'[mutex_task'[x]])
                    /\ owner_nested'[x] > 0
    <3>1. x \in Mutex \cap live /\ x # m
      BY <1>1
    <3> QED BY <1>1, <1>2, <1>6, <3>1, Settled
  <2>2. ASSUME NEW t \in Task, task_state'[t] # "K_DELETED", NEW x \in ToSet(mutex_list'[t])
        PROVE  x \in live' /\ mutex_task'[x] = t
    <3>1. x \in ToSet(mutex_list[t]) /\ (x = m => t # owner)
      BY <1>6, <2>2
    <3>2. x \in live /\ mutex_task[x] = t
      BY <1>1, <1>2, <2>2, <3>1, Settled
    <3> QED BY <1>1, <3>1, <3>2
  <2> QED BY <1>6, <2>1, <2>2 DEF OwnerInv
<1>8. DeadInv' /\ NoLostGive'
  BY <1>1, <1>2, <1>3 DEF KernelInv, DeadInv, NoLostGive
<1>9. TypeOK'
  BY <1>1, <1>3, <1>6 DEF KernelInv, TypeOK
<1>10. NotOverdue'
  BY <1>1, <1>2 DEF KernelInv, NotOverdue
<1>11. CsInv'
  BY <1>1, <1>2, <1>3, <1>6 DEF CsInv
<1>12. ActiveInv'
  BY <1>1, <1>2 DEF ActiveInv
<1>13. CallInv' /\ SliceInRange'
  BY <1>1 DEF KernelInv, CallInv, SliceInRange
<1> QED BY <1>4, <1>7, <1>8, <1>9, <1>10, <1>11, <1>12, <1>13 DEF KernelInv, Lists

(* The owner locks it again. *)
LEMMA LockNestedInv ==
  ASSUME KernelInv, NEW m \in Mutex, NEW ticks, krhino_mutex_lock(m, ticks), LockNested(m)
  PROVE  KernelInv'
<1>1. /\ TaskCall("krhino_mutex_lock") /\ m \in live
      /\ mutex_task[m] = active /\ owner_nested[m] < NestMax
      /\ owner_nested' = [owner_nested EXCEPT ![m] = @ + 1]
      /\ UNCHANGED <<schedVars, rq, tickVars, pendVars, prio, b_prio, suspend_count, sliceVars,
                     callVars, live, count, mutex_task, mutex_list, chg, cs>>
  BY DEF krhino_mutex_lock, LockNested
<1>2. cs.op = "none" /\ chg.task = None
  BY <1>1, TaskContext
<1>3. Lists'
  BY <1>1, InvLists DEF Lists
<1>4. owner_nested' \in [Mutex -> 0 .. NestMax] /\ \A x \in Mutex : owner_nested'[x] >= owner_nested[x]
  <2>1. owner_nested \in [Mutex -> 0 .. NestMax]
    BY DEF KernelInv, TypeOK
  <2> QED BY <1>1, <2>1, Bounds
<1>5. OwnerInv'
  <2>1. \A x \in Mutex : owner_nested[x] > 0 => owner_nested'[x] > 0
    <3>1. owner_nested \in [Mutex -> 0 .. NestMax]
      BY DEF KernelInv, TypeOK
    <3> QED BY <1>4, <3>1, Bounds
  <2> QED BY <1>1, <1>2, <2>1, Settled DEF OwnerInv
<1>6. DeadInv' /\ NoLostGive'
  BY <1>1, DeadKeep, CountKeep
<1>7. TypeOK'
  BY <1>1, <1>4 DEF KernelInv, TypeOK
<1>8. NotOverdue'
  BY <1>1 DEF KernelInv, NotOverdue
<1>9. CsInv'
  BY <1>1, <1>2 DEF CsInv
<1>10. ActiveInv'
  BY <1>1 DEF KernelInv, ActiveInv, Quiet
<1>11. CallInv' /\ SliceInRange'
  BY <1>1 DEF KernelInv, CallInv, SliceInRange
<1> QED BY <1>3, <1>5, <1>6, <1>7, <1>8, <1>9, <1>10, <1>11 DEF KernelInv, Lists

(* A free mutex is locked. *)
LEMMA LockFreeInv ==
  ASSUME KernelInv, NEW m \in Mutex, NEW ticks, krhino_mutex_lock(m, ticks), LockFree(m)
  PROVE  KernelInv'
<1>1. /\ TaskCall("krhino_mutex_lock") /\ m \in live /\ mutex_task[m] = None
      /\ mutex_task' = [mutex_task EXCEPT ![m] = active]
      /\ mutex_list' = [mutex_list EXCEPT ![active] = <<m>> \o @]
      /\ owner_nested' = [owner_nested EXCEPT ![m] = 1]
      /\ UNCHANGED <<schedVars, rq, tickVars, pendVars, prio, b_prio, suspend_count, sliceVars,
                     callVars, live, count, chg, cs>>
  BY DEF krhino_mutex_lock, LockFree
<1>2. /\ cs.op = "none" /\ chg.task = None
      /\ active \in Task /\ task_state[active] = "K_RDY" /\ None \notin Task
  BY <1>1, TaskContext, TaskAssumption DEF AllTask
<1>3. Lists'
  BY <1>1, InvLists DEF Lists
<1>4. /\ mutex_task' \in [Mutex -> Task \cup {None}]
      /\ mutex_task'[m] = active /\ \A x \in Mutex : x # m => mutex_task'[x] = mutex_task[x]
  BY <1>1, <1>2 DEF KernelInv, TypeOK
<1>5. /\ owner_nested' \in [Mutex -> 0 .. NestMax]
      /\ owner_nested'[m] = 1 /\ \A x \in Mutex : x # m => owner_nested'[x] = owner_nested[x]
  <2>1. owner_nested \in [Mutex -> 0 .. NestMax]
    BY DEF KernelInv, TypeOK
  <2> QED BY <1>1, <2>1, Bounds
<1>6. blk_list[m] = <<>> /\ ToSet(blk_list[m]) = {}
  <2>1. blk_list[m] = <<>>
    BY <1>1, <1>2, Settled
  <2>2. blk_list[m] \in Seq(Task)
    BY DEF KernelInv, TypeOK, Obj
  <2> QED BY <2>1, <2>2, EntrySet
<1>7. m \notin ToSet(mutex_list[active])
  BY <1>1, <1>2, Settled
<1>8. /\ mutex_list' \in [AllTask -> Seq(Mutex)]
      /\ ToSet(mutex_list'[active]) = ToSet(mutex_list[active]) \cup {m}
      /\ Linear(mutex_list'[active])
      /\ \A u \in Task : u # active => mutex_list'[u] = mutex_list[u]
  BY <1>1, <1>2, <1>7, Linked
<1>9. OwnerInv'
  <2>1. ASSUME NEW x \in Mutex \cap live'
        PROVE  /\ blk_list'[x] # <<>> => mutex_task'[x] \in Task
               /\ mutex_task'[x] \in Task =>
                    /\ task_state'[mutex_task'[x]] # "K_DELETED"
                    /\ mutex_task'[x] \notin ToSet(blk_list'[x])
                    /\ x \in ToSet(mutex_list'[mutex_task'[x]])
                    /\ owner_nested'[x] > 0
    <3>1. CASE x = m
      BY <1>1, <1>2, <1>4, <1>5, <1>6, <1>8, <3>1
    <3>2. CASE x # m
      BY <1>1, <1>2, <1>4, <1>5, <1>8, <3>2, Settled
    <3> QED BY <3>1, <3>2
  <2>2. ASSUME NEW t \in Task, task_state'[t] # "K_DELETED", NEW x \in ToSet(mutex_list'[t])
        PROVE  x \in live' /\ mutex_task'[x] = t
    <3>1. CASE x = m
      <4>1. t = active
        <5>1. SUFFICES ASSUME t # active PROVE FALSE
          OBVIOUS
        <5>2. mutex_task[m] = t
          BY <1>1, <1>2, <1>8, <2>2, <3>1, <5>1, Settled
        <5> QED BY <1>1, <1>2, <5>2
      <4> QED BY <1>1, <1>4, <3>1, <4>1
    <3>2. CASE x # m
      <4>1. x \in ToSet(mutex_list[t]) /\ x \in Mutex
        BY <1>8, <2>2, <3>2, HeldMutexes
      <4> QED BY <1>1, <1>2, <1>4, <2>2, <3>2, <4>1, Settled
    <3> QED BY <3>1, <3>2
  <2>3. \A t \in Task : Linear(mutex_list'[t])
    BY <1>2, <1>8, Settled
  <2> QED BY <2>1, <2>2, <2>3 DEF OwnerInv
<1>10. DeadInv' /\ NoLostGive'
  BY <1>1, DeadKeep, CountKeep
<1>11. TypeOK'
  BY <1>1, <1>4, <1>5, <1>8 DEF KernelInv, TypeOK
<1>12. NotOverdue'
  BY <1>1 DEF KernelInv, NotOverdue
<1>13. CsInv'
  BY <1>1, <1>2 DEF CsInv
<1>14. ActiveInv'
  BY <1>1 DEF KernelInv, ActiveInv, Quiet
<1>15. CallInv' /\ SliceInRange'
  BY <1>1 DEF KernelInv, CallInv, SliceInRange
<1> QED BY <1>3, <1>9, <1>10, <1>11, <1>12, <1>13, <1>14, <1>15 DEF KernelInv, Lists

(* The mutex has an owner, who may have to be raised before the caller waits. *)
LEMMA LockWaitInv ==
  ASSUME KernelInv, NEW m \in Mutex, NEW ticks \in Ticks, krhino_mutex_lock(m, ticks),
         LockWait(m, ticks)
  PROVE  KernelInv'
<1> DEFINE owner == mutex_task[m]
<1>1. /\ TaskCall("krhino_mutex_lock") /\ m \in live
      /\ owner # None /\ owner # active /\ ticks # 0 /\ sched_lock = 0
      /\ chg' = IF prio[active] < prio[owner]
                THEN [task |-> owner, pri |-> prio[active]] ELSE NoChg
      /\ cs' = [CsNone EXCEPT !.op = "pend", !.obj = m, !.ticks = ticks]
      /\ UNCHANGED <<schedVars, rq, tickVars, pendVars, prio, b_prio, suspend_count, sliceVars,
                     callVars, live, count, mutex_task, mutex_list, owner_nested>>
  BY DEF krhino_mutex_lock, LockWait
<1>2. /\ cs.op = "none" /\ chg.task = None /\ intrpt = 0
      /\ active \in Task /\ task_state[active] = "K_RDY" /\ m \in Obj
  BY <1>1, TaskContext DEF Obj
<1>3. owner \in Task \ {active} /\ task_state[owner] # "K_DELETED"
  <2>1. owner \in Task
    BY <1>1 DEF KernelInv, TypeOK
  <2> QED BY <1>1, <1>2, <2>1, Settled
<1>4. chg' \in ChgType /\ (chg'.task # None => task_state[chg'.task] # "K_DELETED")
  <2>1. prio[active] \in Prio
    BY DEF KernelInv, TypeOK
  <2> QED BY <1>1, <1>3, <2>1, Records DEF ChgType
<1>5. cs' \in CsType /\ cs'.op = "pend" /\ cs'.obj = m /\ cs'.ticks = ticks
  BY <1>1, <1>2, Records DEF CsType, CsOps
<1>6. Lists' /\ OwnerInv' /\ DeadInv' /\ NoLostGive'
  BY <1>1, <1>2, Steady
<1>7. TypeOK'
  BY <1>1, <1>4, <1>5 DEF KernelInv, TypeOK
<1>8. NotOverdue'
  BY <1>1, <1>2 DEF KernelInv, NotOverdue
<1>9. CsInv'
  BY <1>1, <1>2, <1>3, <1>4, <1>5 DEF CsInv
<1>10. ActiveInv'
  BY <1>1, <1>2 DEF ActiveInv
<1>11. CallInv' /\ SliceInRange'
  BY <1>1 DEF KernelInv, CallInv, SliceInRange
<1> QED BY <1>6, <1>7, <1>8, <1>9, <1>10, <1>11 DEF KernelInv, Lists

(* When the owner has been raised, the caller waits. *)
LEMMA LockPendInv ==
  ASSUME KernelInv, LockPend
  PROVE  KernelInv'
<1> DEFINE m == cs.obj
<1>1. /\ cs.op = "pend" /\ chg.task = None
      /\ pend_to_blk_obj(m, active, cs.ticks)
      /\ pc' = [pc EXCEPT ![active] = "sched_pend"]
      /\ arg' = [arg EXCEPT ![active] = m]
      /\ cs' = CsNone
      /\ UNCHANGED <<schedVars, prio, b_prio, suspend_count, mutex_list, sliceVars, objVars, chg>>
  BY DEF LockPend
<1>2. /\ intrpt = 0 /\ active \in Task /\ task_state[active] = "K_RDY" /\ sched_lock = 0
      /\ m \in Mutex \cap live /\ m \in Obj /\ mutex_task[m] \in Task \ {active}
      /\ cs.ticks \in Ticks \ {0}
  BY <1>1 DEF KernelInv, TypeOK, CsInv, CsType, Obj
<1> HIDE DEF m
<1>3. cs' \in CsType /\ cs'.op = "none"
  BY <1>1, Records
<1>4. /\ Lists'
      /\ \A o \in Obj : ToSet(blk_list'[o]) = IF o = m THEN ToSet(blk_list[o]) \cup {active}
                                              ELSE ToSet(blk_list[o])
      /\ \A u \in ToSet(tick_list') :
           tick_remain'[u] = cs.ticks \/ (u \in ToSet(tick_list) /\ tick_remain'[u] = tick_remain[u])
  <2>1. Lists /\ prio' = prio
    BY <1>1, InvLists
  <2> QED BY ONLY <1>1, <1>2, <2>1, JoinWait
<1>5. /\ blk_state' = blk_state /\ blk_list' \in [Obj -> Seq(Task)]
      /\ task_state' = [task_state EXCEPT ![active] = "K_PEND"]
      /\ \A o \in Obj : o # m => blk_list'[o] = blk_list[o]
  BY <1>1, <1>4 DEF pend_to_blk_obj, Lists, KernelInv, TypeOK
<1>6. \A u \in AllTask : task_state'[u] = IF u = active THEN "K_PEND" ELSE task_state[u]
  BY <1>5 DEF KernelInv, TypeOK
<1>7. OwnerInv'
  <2>1. ASSUME NEW x \in Mutex \cap live'
        PROVE  /\ blk_list'[x] # <<>> => mutex_task'[x] \in Task
               /\ mutex_task'[x] \in Task =>
                    /\ task_state'[mutex_task'[x]] # "K_DELETED"
                    /\ mutex_task'[x] \notin ToSet(blk_list'[x])
                    /\ x \in ToSet(mutex_list'[mutex_task'[x]])
                    /\ owner_nested'[x] > 0
    <3>1. x \in Mutex \cap live /\ x \in Obj /\ mutex_task'[x] = mutex_task[x] /\ Task \subseteq AllTask
      BY <1>1 DEF Obj, AllTask
    <3>2. mutex_task[x] \in Task => task_state'[mutex_task[x]] # "K_DELETED"
      BY <1>1, <1>6, <3>1, Settled
    <3>3. CASE x = m
      BY <1>1, <1>2, <1>4, <3>1, <3>2, <3>3, Settled
    <3>4. CASE x # m
      BY <1>1, <1>5, <3>1, <3>2, <3>4, Settled
    <3> QED BY <3>3, <3>4
  <2>2. ASSUME NEW t \in Task
        PROVE  /\ Linear(mutex_list'[t])
               /\ task_state'[t] # "K_DELETED" =>
                    \A x \in ToSet(mutex_list'[t]) : x \in live' /\ mutex_task'[x] = t
    <3>1. task_state'[t] # "K_DELETED" => task_state[t] # "K_DELETED"
      BY <1>2, <1>6 DEF AllTask
    <3> QED BY <1>1, <3>1, Settled
  <2> QED BY <2>1, <2>2 DEF OwnerInv
<1>8. DeadInv'
  BY <1>1, <1>2, <1>5 DEF KernelInv, DeadInv
<1>9. NoLostGive'
  BY <1>1, <1>2, <1>5, TaskAssumption DEF KernelInv, NoLostGive, Obj
<1>10. TypeOK'
  BY <1>1, <1>2, <1>3, <1>4, <1>5 DEF KernelInv, TypeOK, Lists, RqType
<1>11. NotOverdue'
  BY <1>1, <1>2, <1>4, InTime
<1>12. CsInv'
  BY <1>1, <1>3 DEF CsInv
<1>13. ActiveInv'
  BY <1>1, <1>2 DEF KernelInv, TypeOK, ActiveInv
<1>14. CallInv'
  BY <1>1, <1>6 DEF KernelInv, TypeOK, CallInv, SuspendStates
<1>15. SliceInRange'
  BY <1>1 DEF KernelInv, SliceInRange
<1> QED BY <1>4, <1>7, <1>8, <1>9, <1>10, <1>11, <1>12, <1>13, <1>14, <1>15 DEF KernelInv, Lists

(* One of several locks is undone. *)
LEMMA UnlockNestedInv ==
  ASSUME KernelInv, NEW m \in Mutex, krhino_mutex_unlock(m), UnlockNested(m)
  PROVE  KernelInv'
<1>1. /\ TaskCall("krhino_mutex_unlock") /\ m \in live /\ mutex_task[m] = active
      /\ owner_nested[m] > 1
      /\ owner_nested' = [owner_nested EXCEPT ![m] = @ - 1]
      /\ UNCHANGED <<schedVars, rq, tickVars, pendVars, prio, b_prio, suspend_count, sliceVars,
                     callVars, live, count, mutex_task, mutex_list, chg, cs>>
  BY DEF krhino_mutex_unlock, UnlockNested
<1>2. cs.op = "none" /\ chg.task = None
  BY <1>1, TaskContext
<1>3. Lists'
  BY <1>1, InvLists DEF Lists
<1>4. owner_nested \in [Mutex -> 0 .. NestMax]
  BY DEF KernelInv, TypeOK
<1>5. owner_nested[m] - 1 \in 0 .. NestMax /\ owner_nested[m] - 1 > 0
  BY <1>1, <1>4, Bounds
<1>6. /\ owner_nested' \in [Mutex -> 0 .. NestMax]
      /\ \A x \in Mutex : owner_nested[x] > 0 => owner_nested'[x] > 0
  BY <1>1, <1>4, <1>5
<1>7. OwnerInv'
  BY <1>1, <1>2, <1>6, Settled DEF OwnerInv
<1>8. DeadInv' /\ NoLostGive'
  BY <1>1, DeadKeep, CountKeep
<1>9. TypeOK'
  BY <1>1, <1>6 DEF KernelInv, TypeOK
<1>10. NotOverdue'
  BY <1>1 DEF KernelInv, NotOverdue
<1>11. CsInv'
  BY <1>1, <1>2 DEF CsInv
<1>12. ActiveInv'
  BY <1>1 DEF KernelInv, ActiveInv, Quiet
<1>13. CallInv' /\ SliceInRange'
  BY <1>1 DEF KernelInv, CallInv, SliceInRange
<1> QED BY <1>3, <1>7, <1>8, <1>9, <1>10, <1>11, <1>12, <1>13 DEF KernelInv, Lists

(* The last one is undone: the mutex leaves the list of its owner, who may have to be
   lowered. *)
LEMMA UnlockReleaseInv ==
  ASSUME KernelInv, NEW m \in Mutex, krhino_mutex_unlock(m), UnlockRelease(m)
  PROVE  KernelInv'
<1> DEFINE ml == klist_rm(mutex_list[active], m)
<1>1. /\ TaskCall("krhino_mutex_unlock") /\ m \in live /\ mutex_task[m] = active
      /\ owner_nested[m] = 1
      /\ owner_nested' = [owner_nested EXCEPT ![m] = @ - 1]
      /\ mutex_list' = [mutex_list EXCEPT ![active] = ml]
      /\ mutex_release(active, ml, blk_list)
      /\ cs' = [CsNone EXCEPT !.op = "handover", !.obj = m]
      /\ UNCHANGED <<schedVars, rq, tickVars, pendVars, prio, b_prio, suspend_count, sliceVars,
                     callVars, live, count, mutex_task>>
  BY DEF krhino_mutex_unlock, UnlockRelease
<1>2. /\ cs.op = "none" /\ chg.task = None /\ intrpt = 0
      /\ active \in Task /\ task_state[active] = "K_RDY" /\ m \in Obj
  BY <1>1, TaskContext DEF Obj
<1>3. Lists'
  BY <1>1, InvLists DEF Lists
<1>4. /\ owner_nested' \in [Mutex -> 0 .. NestMax]
      /\ \A x \in Mutex : x # m => owner_nested'[x] = owner_nested[x]
  <2>1. owner_nested \in [Mutex -> 0 .. NestMax]
    BY DEF KernelInv, TypeOK
  <2>2. owner_nested[m] - 1 \in 0 .. NestMax
    BY <1>1, <2>1, Bounds
  <2> QED BY <1>1, <2>1, <2>2
<1>5. m \in ToSet(mutex_list[active])
  BY <1>1, <1>2, Settled
<1>6. /\ ml \in Seq(Mutex) /\ mutex_list' \in [AllTask -> Seq(Mutex)]
      /\ ToSet(mutex_list'[active]) = ToSet(mutex_list[active]) \ {m}
      /\ Linear(mutex_list'[active])
      /\ \A u \in Task : u # active => mutex_list'[u] = mutex_list[u]
  BY <1>1, <1>2, <1>5, Unlinked
<1>7. chg' \in ChgType /\ chg'.task \in {active, None}
  <2>1. blk_list \in [Obj -> Seq(Task)]
    BY DEF KernelInv, TypeOK
  <2> QED BY <1>1, <1>2, <1>6, <2>1, ReleaseType
<1>8. cs' \in CsType /\ cs'.op = "handover" /\ cs'.obj = m
  BY <1>1, <1>2, Records DEF CsType, CsOps
<1>9. OwnerInv'
  <2>1. ASSUME NEW x \in Mutex \cap live'
        PROVE  /\ blk_list'[x] # <<>> => mutex_task'[x] \in Task
               /\ mutex_task'[x] \in Task =>
                    /\ task_state'[mutex_task'[x]] # "K_DELETED"
                    /\ mutex_task'[x] \notin ToSet(blk_list'[x])
                    /\ \/ /\ x \in ToSet(mutex_list'[mutex_task'[x]])
                          /\ owner_nested'[x] > 0
                       \/ x = m
    BY <1>1, <1>2, <1>4, <1>6, Settled
  <2>2. ASSUME NEW t \in Task
        PROVE  /\ Linear(mutex_list'[t])
               /\ task_state'[t] # "K_DELETED" =>
                    \A x \in ToSet(mutex_list'[t]) : x \in live' /\ mutex_task'[x] = t
    BY <1>1, <1>2, <1>6, Settled
  <2> QED BY <1>8, <2>1, <2>2 DEF OwnerInv
<1>10. DeadInv' /\ NoLostGive'
  BY <1>1, <1>2, DeadKeep, CountKeep
<1>11. TypeOK'
  BY <1>1, <1>4, <1>6, <1>7, <1>8 DEF KernelInv, TypeOK
<1>12. NotOverdue'
  BY <1>1, <1>2 DEF KernelInv, NotOverdue
<1>13. CsInv'
  BY <1>1, <1>2, <1>6, <1>7, <1>8 DEF CsInv
<1>14. ActiveInv'
  BY <1>1, <1>2 DEF ActiveInv
<1>15. CallInv' /\ SliceInRange'
  BY <1>1 DEF KernelInv, CallInv, SliceInRange
<1> QED BY <1>3, <1>9, <1>10, <1>11, <1>12, <1>13, <1>14, <1>15 DEF KernelInv, Lists

(* Nobody waits: the mutex is free. *)
LEMMA UnlockFreeInv ==
  ASSUME KernelInv, UnlockFree
  PROVE  KernelInv'
<1> DEFINE m == cs.obj
<1>1. /\ cs.op = "handover" /\ chg.task = None /\ blk_list[m] = <<>>
      /\ mutex_task' = [mutex_task EXCEPT ![m] = None]
      /\ cs' = CsNone
      /\ UNCHANGED <<schedVars, rq, tickVars, pendVars, prio, b_prio, suspend_count, mutex_list,
                     sliceVars, callVars, live, owner_nested, count, chg>>
  BY DEF UnlockFree
<1>2. /\ intrpt = 0 /\ active \in Task /\ task_state[active] = "K_RDY"
      /\ m \in Mutex \cap live /\ mutex_task[m] = active /\ m \notin ToSet(mutex_list[active])
  BY <1>1 DEF KernelInv, CsInv
<1>3. cs' \in CsType /\ cs'.op = "none"
  BY <1>1, Records
<1>4. Lists'
  BY <1>1, InvLists DEF Lists
<1>5. /\ mutex_task' \in [Mutex -> Task \cup {None}] /\ None \notin Task
      /\ mutex_task'[m] = None /\ \A x \in Mutex : x # m => mutex_task'[x] = mutex_task[x]
  BY <1>1, <1>2, TaskAssumption DEF KernelInv, TypeOK, AllTask
<1>6. OwnerInv'
  <2>1. ASSUME NEW x \in Mutex \cap live'
        PROVE  /\ blk_list'[x] # <<>> => mutex_task'[x] \in Task
               /\ mutex_task'[x] \in Task =>
                    /\ task_state'[mutex_task'[x]] # "K_DELETED"
                    /\ mutex_task'[x] \notin ToSet(blk_list'[x])
                    /\ x \in ToSet(mutex_list'[mutex_task'[x]])
                    /\ owner_nested'[x] > 0
    <3>1. CASE x = m
      BY <1>1, <1>5, <3>1
    <3>2. CASE x # m
      BY <1>1, <1>5, <3>2 DEF KernelInv, OwnerInv
    <3> QED BY <3>1, <3>2
  <2>2. ASSUME NEW t \in Task, task_state'[t] # "K_DELETED", NEW x \in ToSet(mutex_list'[t])
        PROVE  x \in live' /\ mutex_task'[x] = t
    <3>1. x \in live /\ mutex_task[x] = t /\ x \in Mutex
      BY <1>1, <2>2, HeldMutexes DEF KernelInv, OwnerInv
    <3>2. x # m
      BY <1>1, <1>2, <2>2, <3>1
    <3> QED BY <1>1, <1>5, <3>1, <3>2
  <2>3. \A t \in Task : Linear(mutex_list'[t])
    BY <1>1 DEF KernelInv, OwnerInv
  <2> QED BY <2>1, <2>2, <2>3 DEF OwnerInv
<1>7. DeadInv' /\ NoLostGive'
  BY <1>1, DeadKeep, CountKeep
<1>8. TypeOK'
  BY <1>1, <1>3, <1>5 DEF KernelInv, TypeOK
<1>9. NotOverdue'
  BY <1>1 DEF KernelInv, NotOverdue
<1>10. CsInv'
  BY <1>1, <1>3 DEF CsInv
<1>11. ActiveInv'
  BY <1>1, <1>2 DEF ActiveInv
<1>12. CallInv' /\ SliceInRange'
  BY <1>1 DEF KernelInv, CallInv, SliceInRange
<1> QED BY <1>4, <1>6, <1>7, <1>8, <1>9, <1>10, <1>11, <1>12 DEF KernelInv, Lists

(* The first waiter of m becomes its owner, in an unlock or when the owner is
   deleted.  Until then m is on nobody's list, except that of a task that is
   being deleted. *)
LEMMA Handed ==
  ASSUME KernelInv, NEW m \in Mutex \cap live, blk_list[m] # <<>>,
         NEW t, t = Head(blk_list[m]), pend_task_wakeup(t, "BLK_FINISH"),
         mutex_task' = [mutex_task EXCEPT ![m] = t],
         mutex_list' = [mutex_list EXCEPT ![t] = <<m>> \o @],
         \A x \in Mutex : x # m => owner_nested'[x] = owner_nested[x],
         owner_nested'[m] > 0,
         UNCHANGED <<prio, live, count>>,
         cs.op # "wake",
         ~(cs'.op = "free" /\ cs'.task = t),
         \A x \in Mutex \cap live : x # m /\ mutex_task[x] \in Task =>
            x \in ToSet(mutex_list[mutex_task[x]]) /\ owner_nested[x] > 0,
         \A u \in Task : task_state[u] # "K_DELETED" /\ ~(cs'.op = "free" /\ cs'.task = u) =>
            \A x \in ToSet(mutex_list[u]) : x \in live \ {m} /\ mutex_task[x] = u
  PROVE  /\ Lists' /\ Woken
         /\ t \in Task /\ task_state[t] \in PendStates
         /\ mutex_task' \in [Mutex -> Task \cup {None}]
         /\ mutex_list' \in [AllTask -> Seq(Mutex)]
         /\ blk_state' \in [AllTask -> {"BLK_FINISH", "BLK_ABORT", "BLK_TIMEOUT", "BLK_DEL"}]
         /\ OwnerInv' /\ DeadInv' /\ NoLostGive'
<1>1. m \in Obj /\ Task \subseteq AllTask
  BY DEF Obj, AllTask
<1>2. t \in Task /\ t \in ToSet(blk_list[m]) /\ task_state[t] \in PendStates
  BY <1>1, FirstWaiter, InvLists
<1>3. /\ Lists' /\ Woken
      /\ \A o \in Obj : /\ ToSet(blk_list'[o]) \subseteq ToSet(blk_list[o])
                        /\ blk_list[o] = <<>> => blk_list'[o] = <<>>
      /\ blk_state' \in [AllTask -> {"BLK_FINISH", "BLK_ABORT", "BLK_TIMEOUT", "BLK_DEL"}]
  <2>1. KernelInv /\ pend_task_wakeup(t, "BLK_FINISH") /\ prio' = prio
    OBVIOUS
  <2> QED BY ONLY <1>2, <2>1, Wakeup
<1>4. task_state'[t] \notin PendStates /\ task_state[t] # "K_DELETED"
  <2>1. Awake(task_state[t]) \notin PendStates /\ task_state[t] # "K_DELETED"
    BY <1>2 DEF Awake, PendStates
  <2>2. task_state'[t] = Awake(task_state[t])
    BY <1>1, <1>2 DEF pend_task_wakeup, KernelInv, TypeOK
  <2> QED BY <2>1, <2>2
<1>5. t \notin ToSet(blk_list'[m])
  BY <1>1, <1>3, <1>4 DEF Lists, Waiting
<1>6. m \notin ToSet(mutex_list[t])
  BY <1>2, <1>4
<1>7. /\ mutex_list' \in [AllTask -> Seq(Mutex)]
      /\ ToSet(mutex_list'[t]) = ToSet(mutex_list[t]) \cup {m} /\ Linear(mutex_list'[t])
      /\ \A u \in Task : u # t => mutex_list'[u] = mutex_list[u]
  BY <1>2, <1>6, Linked
<1>8. /\ mutex_task' \in [Mutex -> Task \cup {None}]
      /\ mutex_task'[m] = t /\ \A x \in Mutex : x # m => mutex_task'[x] = mutex_task[x]
  BY <1>2 DEF KernelInv, TypeOK
<1>9. OwnerInv'
  <2>1. ASSUME NEW x \in Mutex \cap live', x # m
        PROVE  /\ blk_list'[x] # <<>> => mutex_task[x] \in Task
               /\ mutex_task[x] \in Task =>
                    /\ task_state'[mutex_task[x]] # "K_DELETED"
                    /\ mutex_task[x] \notin ToSet(blk_list'[x])
                    /\ x \in ToSet(mutex_list'[mutex_task[x]])
                    /\ owner_nested'[x] > 0
    <3>1. x \in Mutex \cap live /\ x \in Obj
      BY DEF Obj
    <3>2. /\ blk_list[x] # <<>> => mutex_task[x] \in Task
          /\ mutex_task[x] \in Task => /\ task_state[mutex_task[x]] # "K_DELETED"
                                       /\ mutex_task[x] \notin ToSet(blk_list[x])
      BY <3>1 DEF KernelInv, OwnerInv
    <3>3. mutex_task[x] \in Task => x \in ToSet(mutex_list[mutex_task[x]]) /\ owner_nested[x] > 0
      BY <2>1, <3>1
    <3>4. mutex_task[x] \in Task => task_state'[mutex_task[x]] # "K_DELETED"
      BY <1>3, <3>2 DEF Woken
    <3> QED BY <1>3, <1>7, <2>1, <3>1, <3>2, <3>3, <3>4
  <2>2. /\ mutex_task'[m] \in Task /\ task_state'[t] # "K_DELETED"
        /\ mutex_task'[m] \notin ToSet(blk_list'[m])
        /\ m \in ToSet(mutex_list'[t]) /\ owner_nested'[m] > 0
    BY <1>2, <1>3, <1>4, <1>5, <1>7, <1>8 DEF Woken
  <2>3. ASSUME NEW u \in Task, task_state'[u] # "K_DELETED", ~(cs'.op = "free" /\ cs'.task = u),
               NEW x \in ToSet(mutex_list'[u])
        PROVE  x \in live' /\ mutex_task'[x] = u
    <3>1. task_state[u] # "K_DELETED"
      BY <1>3, <2>3 DEF Woken
    <3>2. CASE x = m
      <4>1. u = t
        BY <1>7, <2>3, <3>1, <3>2
      <4> QED BY <1>8, <3>2, <4>1
    <3>3. CASE x # m
      <4>1. x \in ToSet(mutex_list[u]) /\ x \in Mutex
        BY <1>7, <2>3, <3>3, HeldMutexes
      <4>2. x \in live /\ mutex_task[x] = u
        BY <2>3, <3>1, <4>1
      <4> QED BY <1>8, <3>3, <4>1, <4>2
    <3> QED BY <3>2, <3>3
  <2>4. \A u \in Task : Linear(mutex_list'[u])
    BY <1>7 DEF KernelInv, OwnerInv
  <2> QED BY <1>8, <2>1, <2>2, <2>3, <2>4 DEF OwnerInv
<1>10. DeadInv' /\ NoLostGive'
  BY <1>3, DeadKeep, CountKeep
<1> QED BY <1>2, <1>3, <1>7, <1>8, <1>9, <1>10

(* The first waiter gets it. *)
LEMMA UnlockHandoverInv ==
  ASSUME KernelInv, UnlockHandover
  PROVE  KernelInv'
<1> DEFINE m == cs.obj
           t == Head(blk_list[m])
<1>1. /\ cs.op = "handover" /\ chg.task = None /\ blk_list[m] # <<>>
      /\ pend_task_wakeup(t, "BLK_FINISH")
      /\ mutex_task' = [mutex_task EXCEPT ![m] = t]
      /\ mutex_list' = [mutex_list EXCEPT ![t] = <<m>> \o @]
      /\ owner_nested' = [owner_nested EXCEPT ![m] = 1]
      /\ cs' = CsExit
      /\ UNCHANGED <<schedVars, prio, b_prio, suspend_count, sliceVars, callVars,
                     live, count, chg>>
  BY DEF UnlockHandover
<1>2. /\ intrpt = 0 /\ active \in Task /\ task_state[active] = "K_RDY"
      /\ m \in Mutex \cap live /\ mutex_task[m] = active /\ m \notin ToSet(mutex_list[active])
  BY <1>1 DEF KernelInv, CsInv
<1>3. PICK w : w = t
  OBVIOUS
<1> HIDE DEF m, t
<1>4. cs' \in CsType /\ cs'.op = "exit"
  BY <1>1, Records
<1>5. /\ owner_nested' \in [Mutex -> 0 .. NestMax]
      /\ owner_nested'[m] > 0 /\ \A x \in Mutex : x # m => owner_nested'[x] = owner_nested[x]
  <2>1. owner_nested \in [Mutex -> 0 .. NestMax]
    BY DEF KernelInv, TypeOK
  <2>2. 1 \in 0 .. NestMax
    BY Bounds
  <2> QED BY <1>1, <1>2, <2>1, <2>2
<1>6. \A x \in Mutex \cap live : x # m /\ mutex_task[x] \in Task =>
            x \in ToSet(mutex_list[mutex_task[x]]) /\ owner_nested[x] > 0
  BY <1>1 DEF KernelInv, OwnerInv, m
<1>7. \A u \in Task : task_state[u] # "K_DELETED" =>
            \A x \in ToSet(mutex_list[u]) : x \in live \ {m} /\ mutex_task[x] = u
  BY <1>1, <1>2 DEF KernelInv, OwnerInv
<1>8. /\ Lists' /\ Woken
      /\ mutex_task' \in [Mutex -> Task \cup {None}]
      /\ mutex_list' \in [AllTask -> Seq(Mutex)]
      /\ blk_state' \in [AllTask -> {"BLK_FINISH", "BLK_ABORT", "BLK_TIMEOUT", "BLK_DEL"}]
      /\ OwnerInv' /\ DeadInv' /\ NoLostGive'
  <2>1. /\ KernelInv /\ w = Head(blk_list[m]) /\ pend_task_wakeup(w, "BLK_FINISH")
        /\ blk_list[m] # <<>> /\ mutex_task' = [mutex_task EXCEPT ![m] = w]
        /\ mutex_list' = [mutex_list EXCEPT ![w] = <<m>> \o @]
        /\ UNCHANGED <<prio, live, count>> /\ cs.op # "wake"
        /\ m \in Mutex \cap live
    BY <1>1, <1>2, <1>3 DEF t
  <2>2. \A u : ~(cs'.op = "free" /\ cs'.task = u)
    BY <1>4
  <2> QED BY ONLY <1>5, <1>6, <1>7, <2>1, <2>2, Handed
<1>9. TypeOK'
  BY <1>1, <1>4, <1>5, <1>8 DEF KernelInv, TypeOK, Lists, RqType
<1>10. NotOverdue'
  BY <1>1, <1>8 DEF KernelInv, NotOverdue, Woken
<1>11. CsInv' /\ ActiveInv'
  <2>1. active' = active /\ intrpt' = 0 /\ task_state'[active] = "K_RDY"
    BY <1>1, <1>2, <1>8 DEF Woken, AllTask
  <2>2. CsInv'
    BY <1>1, <1>2, <1>4, <2>1 DEF CsInv
  <2> QED BY <2>1, <2>2 DEF ActiveInv
<1>12. CallInv' /\ SliceInRange'
  BY <1>1, <1>8 DEF KernelInv, CallInv, SliceInRange, Woken
<1> QED BY <1>8, <1>9, <1>10, <1>11, <1>12 DEF KernelInv, Lists
------------------------------------------------------------------------------
(* task_pri_change, one iteration of its loop. *)

(* Where a task that waits for a mutex passes the change on to. *)
LEMMA PassedOn ==
  ASSUME KernelInv, chg.task \in Task, ChangePend
  PROVE  /\ chg' \in ChgType
         /\ chg'.task # None => task_state[chg'.task] # "K_DELETED"
<1> DEFINE t     == chg.task
           o     == blk_obj[t]
           new   == [prio EXCEPT ![t] = chg.pri]
           bl    == [blk_list EXCEPT ![o] = pend_list_add(klist_rm(@, t), t, new)]
           owner == mutex_task[o]
           look  == mutex_pri_limit(b_prio[owner], mutex_list[owner], bl, new)
<1>1. /\ task_state[t] \in PendStates
      /\ chg' = IF o \notin Mutex \cap live THEN NoChg
                ELSE IF new[owner] > chg.pri THEN [task |-> owner, pri |-> chg.pri]
                ELSE IF new[owner] = prio[t] /\ look # new[owner]
                     THEN [task |-> owner, pri |-> look]
                ELSE NoChg
  BY DEF ChangePend
<1>2. /\ prio \in [AllTask -> Prio] /\ blk_list \in [Obj -> Seq(Task)] /\ chg.pri \in Prio
      /\ Waiting(blk_list, task_state, blk_obj, prio)
  BY DEF KernelInv, TypeOK, ChgType
<1>3. /\ o \in Obj /\ t \in ToSet(blk_list[o]) /\ Linear(blk_list[o])
      /\ klist_rm(blk_list[o], t) \in Seq(Task)
  BY ONLY <1>1, <1>2, PendEntry, chg.task \in Task
<1>4. new \in [AllTask -> Prio] /\ bl \in [Obj -> Seq(Task)]
  <2>1. new \in [AllTask -> Prio]
    BY <1>2
  <2>2. pend_list_add(klist_rm(blk_list[o], t), t, new) \in Seq(Task)
    BY <1>3, <2>1, PendListType
  <2> QED BY <1>2, <1>3, <2>1, <2>2
<1>5. CASE o \notin Mutex \cap live
  BY <1>1, <1>5, Records
<1>6. CASE o \in Mutex \cap live
  <2>1. blk_list[o] # <<>>
    BY <1>2, <1>3, EntrySet
  <2>2. owner \in Task /\ task_state[owner] # "K_DELETED"
    BY <1>6, <2>1 DEF KernelInv, OwnerInv
  <2>3. b_prio[owner] \in Prio /\ mutex_list[owner] \in Seq(Mutex)
    BY <2>2 DEF KernelInv, TypeOK, AllTask
  <2>4. look \in Prio
    BY <1>4, <2>3, PriLimitType
  <2> HIDE DEF owner, look, new
  <2>5. \/ chg' = NoChg
        \/ chg' = [task |-> owner, pri |-> chg.pri]
        \/ chg' = [task |-> owner, pri |-> look]
    BY <1>1, <1>6
  <2> QED BY <1>2, <2>2, <2>4, <2>5, Records DEF ChgType
<1> QED BY <1>5, <1>6

(* A step of task_pri_change, along the chain of owners. *)
LEMMA PriStepInv ==
  ASSUME KernelInv, task_pri_change
  PROVE  KernelInv'
<1> DEFINE t == chg.task
<1>1. /\ UNCHANGED <<schedVars, tickVars, task_state, blk_obj, blk_state, b_prio,
                     suspend_count, mutex_list, sliceVars, objVars>>
      /\ chg.task # None
  BY DEF task_pri_change, ChangeSame, ChangeReady, ChangeUnqueued, ChangePend, ChangeDeleted
<1>2. /\ t \in Task /\ chg.pri \in Prio /\ Lists
  BY <1>1, InvLists DEF KernelInv, TypeOK, ChgType
<1>3. /\ cs.op \notin {"none", "free"}
      /\ task_state[t] = "K_DELETED" => cs.op = "exit"
      /\ intrpt = 0 => task_state[active] = "K_RDY"
  BY <1>1 DEF KernelInv, CsInv
<1>4. CASE /\ ChangeSame \/ ChangeReady \/ ChangeUnqueued \/ ChangePend
           /\ UNCHANGED <<callVars, cs>>
  <2>1. /\ Lists' /\ chg' \in ChgType
        /\ chg'.task # None => task_state[chg'.task] # "K_DELETED"
        /\ \A o \in Obj : ToSet(blk_list'[o]) = ToSet(blk_list[o])
    <3>1. CASE ChangeSame
      BY <1>1, <1>2, <3>1, Records DEF ChangeSame, Lists
    <3>2. CASE ChangeReady
      <4>1. /\ task_state[t] = "K_RDY" /\ prio' = [prio EXCEPT ![t] = chg.pri]
            /\ \/ rq' = ready_list_add_tail(ready_list_rm(rq, t), t, chg.pri)
               \/ rq' = ready_list_add_head(ready_list_rm(rq, t), t, chg.pri)
            /\ chg' = NoChg
            /\ UNCHANGED <<task_state, blk_obj, blk_list, tick_list, tick_remain>>
        BY <1>1, <3>2 DEF ChangeReady
      <4>2. Lists'
        BY ONLY <1>2, <4>1, ReprioReady
      <4> QED BY <4>1, <4>2, Records
    <3>3. CASE ChangeUnqueued
      <4>1. /\ task_state[t] \notin PendStates \cup {"K_RDY"} /\ prio' = [prio EXCEPT ![t] = chg.pri]
            /\ chg' = NoChg
            /\ UNCHANGED <<rq, task_state, blk_obj, blk_list, tick_list, tick_remain>>
        BY <1>1, <3>3 DEF ChangeUnqueued, PendStates, SleepStates
      <4>2. Lists'
        BY ONLY <1>2, <4>1, ReprioUnqueued
      <4> QED BY <4>1, <4>2, Records
    <3>4. CASE ChangePend
      <4>1. /\ task_state[t] \in PendStates /\ prio' = [prio EXCEPT ![t] = chg.pri]
            /\ blk_list' = [blk_list EXCEPT ![blk_obj[t]] = pend_list_add(klist_rm(@, t), t, prio')]
            /\ UNCHANGED <<rq, task_state, blk_obj, tick_list, tick_remain>>
        BY <1>1, <3>4 DEF ChangePend
      <4>2. Lists' /\ \A o \in Obj : ToSet(blk_list'[o]) = ToSet(blk_list[o])
        BY ONLY <1>2, <4>1, ReprioPend
      <4> QED BY <1>2, <3>4, <4>2, PassedOn
    <3> QED BY <1>4, <3>1, <3>2, <3>3, <3>4
  <2>2. blk_list' \in [Obj -> Seq(Task)] /\ Mutex \subseteq Obj
    BY <2>1 DEF Lists, Obj
  <2>3. \A o \in Obj : blk_list[o] = <<>> => blk_list'[o] = <<>>
    <3>1. blk_list \in [Obj -> Seq(Task)]
      BY <1>2 DEF Lists
    <3> QED BY <2>1, <2>2, <3>1, EntrySet
  <2>4. OwnerInv' /\ DeadInv' /\ NoLostGive'
    <3>1. OwnerInv'
      BY <1>1, <1>4, <2>1, <2>2, OwnerKeep
    <3>2. DeadInv' /\ NoLostGive'
      BY <1>1, <1>4, <2>3, DeadKeep, CountKeep
    <3> QED BY <3>1, <3>2
  <2>5. TypeOK'
    BY <1>1, <1>4, <2>1 DEF KernelInv, TypeOK, Lists, RqType
  <2>6. NotOverdue'
    BY <1>1, <1>4 DEF KernelInv, NotOverdue
  <2>7. CsInv'
    BY <1>1, <1>3, <1>4, <2>1 DEF KernelInv, CsInv
  <2>8. ActiveInv'
    BY <1>1, <1>3, <1>4 DEF KernelInv, ActiveInv, Quiet
  <2>9. CallInv' /\ SliceInRange'
    BY <1>1, <1>4 DEF KernelInv, CallInv, SliceInRange
  <2> QED BY <2>1, <2>4, <2>5, <2>6, <2>7, <2>8, <2>9 DEF KernelInv, Lists
<1>5. CASE ChangeDeleted
  <2>1. /\ task_state[t] = "K_DELETED" /\ chg' = NoChg /\ cs' = CsNone
        /\ pc' = [pc EXCEPT ![active] = "user"]
        /\ arg' = [arg EXCEPT ![active] = None]
        /\ UNCHANGED <<rq, prio, blk_list>>
    BY <1>5 DEF ChangeDeleted
  <2>2. cs.op = "exit" /\ intrpt = 0 /\ active \in Task /\ task_state[active] = "K_RDY"
    BY <1>3, <2>1 DEF KernelInv, CsInv
  <2>3. chg' \in ChgType /\ chg'.task = None /\ cs' \in CsType /\ cs'.op = "none"
    BY <2>1, Records
  <2>4. Lists' /\ OwnerInv' /\ DeadInv' /\ NoLostGive'
    BY <1>1, <2>1, <2>2, Steady
  <2>5. TypeOK'
    BY <1>1, <2>1, <2>3 DEF KernelInv, TypeOK
  <2>6. NotOverdue'
    BY <1>1, <2>2 DEF KernelInv, NotOverdue
  <2>7. CsInv'
    BY <1>1, <2>3 DEF CsInv
  <2>8. ActiveInv'
    BY <1>1, <2>2 DEF ActiveInv
  <2>9. CallInv' /\ SliceInRange'
    BY <1>1, <2>1 DEF KernelInv, TypeOK, CallInv, SliceInRange
  <2> QED BY <2>4, <2>5, <2>6, <2>7, <2>8, <2>9 DEF KernelInv, Lists
<1> QED BY <1>4, <1>5 DEF task_pri_change

------------------------------------------------------------------------------
(* The task management functions.                                          *)

(* krhino_task_sleep. *)
LEMMA SleepInv ==
  ASSUME KernelInv, NEW ticks \in Ticks, krhino_task_sleep(ticks)
  PROVE  KernelInv'
<1>1. /\ TaskCall("krhino_task_sleep") /\ ticks > 0 /\ sched_lock = 0
      /\ task_state' = [task_state EXCEPT ![active] = "K_SLEEP"]
      /\ tick_list_insert(active, ticks)
      /\ rq' = ready_list_rm(rq, active)
      /\ pc' = [pc EXCEPT ![active] = "sched_pend"]
      /\ UNCHANGED <<schedVars, blk_obj, blk_state, blk_list, prio, b_prio,
                     suspend_count, mutex_list, sliceVars, arg, objVars, chg, cs>>
  BY DEF krhino_task_sleep
<1>2. /\ cs.op = "none" /\ chg.task = None
      /\ active \in Task /\ task_state[active] = "K_RDY"
  BY <1>1, TaskContext
<1>3. ticks \in Ticks \ {0}
  BY <1>1, Bounds
<1>4. /\ Lists'
      /\ \A u \in ToSet(tick_list') :
           tick_remain'[u] = ticks \/ (u \in ToSet(tick_list) /\ tick_remain'[u] = tick_remain[u])
  <2>1. Lists /\ UNCHANGED <<prio, blk_obj, blk_list>>
    BY <1>1, InvLists
  <2> QED BY ONLY <1>1, <1>2, <1>3, <2>1, JoinSleep
<1>5. \A u \in AllTask : task_state'[u] = IF u = active THEN "K_SLEEP" ELSE task_state[u]
  BY <1>1 DEF KernelInv, TypeOK
<1>6. OwnerInv'
  <2>1. \A u \in Task : task_state'[u] = "K_DELETED" <=> task_state[u] = "K_DELETED"
    BY <1>2, <1>5 DEF AllTask
  <2> QED BY <1>1, <2>1, OwnerKeep DEF KernelInv, TypeOK
<1>7. DeadInv' /\ NoLostGive'
  BY <1>1, DeadKeep, CountKeep
<1>8. TypeOK'
  BY <1>1, <1>4 DEF KernelInv, TypeOK, Lists, RqType
<1>9. NotOverdue'
  BY <1>2, <1>3, <1>4, InTime
<1>10. CsInv'
  BY <1>1, <1>2 DEF CsInv
<1>11. ActiveInv'
  BY <1>1 DEF KernelInv, TypeOK, ActiveInv
<1>12. CallInv' /\ SliceInRange'
  BY <1>1, <1>5 DEF KernelInv, TypeOK, CallInv, SuspendStates, SliceInRange
<1> QED BY <1>4, <1>6, <1>7, <1>8, <1>9, <1>10, <1>11, <1>12 DEF KernelInv, Lists

(* What suspend and resume have in common: one task changes its state, and
   the call ends in a scheduling point. *)
LEMMA SwitchedInv ==
  ASSUME KernelInv, NEW f, AnyCall(f), NEW t \in Task, Lists',
         \A u \in AllTask : u # t => task_state'[u] = task_state[u],
         {task_state[t], task_state'[t]} \cap {"K_DELETED"} = {},
         task_state'[t] \in SuspendStates => suspend_count'[t] > 0,
         \A u \in AllTask : u # t => suspend_count'[u] = suspend_count[u],
         suspend_count' \in [AllTask -> 0 .. SuspendMax],
         t = active /\ task_state'[t] # "K_RDY" => sched_lock = 0 \/ task_state[t] # "K_RDY",
         CriticalExitSched,
         UNCHANGED <<schedVars, tickVars, blk_obj, blk_state, blk_list, prio,
                     b_prio, mutex_list, sliceVars, arg, objVars, chg, cs>>
  PROVE  KernelInv'
<1>1. cs.op = "none" /\ chg.task = None
  BY CallContext
<1>2. OwnerInv'
  <2>1. \A u \in Task : task_state'[u] = "K_DELETED" <=> task_state[u] = "K_DELETED"
    BY DEF AllTask
  <2> QED BY <2>1, OwnerKeep DEF KernelInv, TypeOK
<1>3. DeadInv' /\ NoLostGive'
  BY DeadKeep, CountKeep
<1>4. TypeOK'
  BY SchedPoint DEF KernelInv, TypeOK, Lists, RqType
<1>5. NotOverdue'
  BY DEF KernelInv, NotOverdue
<1>6. CsInv'
  BY <1>1 DEF CsInv
<1>7. ActiveInv'
  BY SchedPoint DEF KernelInv, TypeOK, ActiveInv
<1>8. CallInv' /\ SliceInRange'
  BY SchedPoint DEF KernelInv, CallInv, SliceInRange
<1> QED BY <1>2, <1>3, <1>4, <1>5, <1>6, <1>7, <1>8 DEF KernelInv, Lists

(* task_suspend, in every state of the task. *)
LEMMA SuspendInv ==
  ASSUME KernelInv, NEW t \in Task, task_suspend(t)
  PROVE  KernelInv'
<1>1. /\ AnyCall("krhino_task_suspend")
      /\ t = active => sched_lock = 0
      /\ CriticalExitSched
      /\ UNCHANGED <<schedVars, tickVars, blk_obj, blk_state, blk_list, prio,
                     b_prio, mutex_list, sliceVars, arg, objVars, chg, cs>>
  BY DEF task_suspend
<1>2. /\ Lists /\ t \in AllTask
      /\ task_state \in [AllTask -> TaskStates]
      /\ suspend_count \in [AllTask -> 0 .. SuspendMax]
      /\ suspend_count[t] \in 0 .. SuspendMax
  BY InvLists DEF AllTask, KernelInv, TypeOK
<1>3. CASE /\ task_state[t] \in {"K_RDY", "K_SLEEP", "K_PEND"}
           /\ suspend_count' = [suspend_count EXCEPT ![t] = 1]
           /\ task_state' = [task_state EXCEPT ![t] = SuspendedState(@)]
           /\ rq' = IF task_state[t] = "K_RDY" THEN ready_list_rm(rq, t) ELSE rq
  <2>1. PICK x : x = SuspendedState(task_state[t])
    OBVIOUS
  <2>2. /\ task_state[t] = "K_RDY" => x = "K_SUSPENDED"
        /\ task_state[t] = "K_SLEEP" => x = "K_SLEEP_SUSPENDED"
        /\ task_state[t] = "K_PEND" => x = "K_PEND_SUSPENDED"
        /\ x # "K_DELETED" /\ x # "K_RDY" /\ x \in TaskStates
    BY <1>3, <2>1 DEF SuspendedState, TaskStates, SuspendStates
  <2>3. /\ task_state' = [task_state EXCEPT ![t] = x]
        /\ task_state' \in [AllTask -> TaskStates]
        /\ task_state'[t] = x
        /\ \A u \in AllTask : u # t => task_state'[u] = task_state[u]
    BY <1>2, <1>3, <2>1, <2>2
  <2>4. Lists'
    <3>1. CASE task_state[t] = "K_RDY"
      BY <1>1, <1>2, <1>3, <2>2, <2>3, <3>1, LeaveReady
    <3>2. CASE task_state[t] # "K_RDY"
      <4>1. \/ task_state[t] \in PendStates /\ task_state'[t] \in PendStates
            \/ task_state[t] \in SleepStates /\ task_state'[t] \in SleepStates
        BY <1>3, <2>2, <2>3, <3>2 DEF PendStates, SleepStates
      <4>2. rq' = rq
        BY <1>3, <3>2
      <4> QED BY <1>1, <1>2, <2>3, <4>1, <4>2, KeepLists
    <3> QED BY <3>1, <3>2
  <2>5. /\ suspend_count' \in [AllTask -> 0 .. SuspendMax]
        /\ suspend_count'[t] > 0
        /\ \A u \in AllTask : u # t => suspend_count'[u] = suspend_count[u]
    <3>1. 1 \in 0 .. SuspendMax
      BY Bounds
    <3> QED BY <1>2, <1>3, <3>1
  <2> QED BY <1>1, <1>3, <2>2, <2>3, <2>4, <2>5, SwitchedInv
<1>4. CASE /\ task_state[t] \in SuspendStates
           /\ suspend_count[t] < SuspendMax
           /\ suspend_count' = [suspend_count EXCEPT ![t] = @ + 1]
           /\ UNCHANGED <<task_state, rq>>
  <2>1. /\ suspend_count[t] + 1 \in 0 .. SuspendMax
        /\ suspend_count[t] + 1 > 0
    BY <1>2, <1>4, Bounds
  <2>2. /\ suspend_count' \in [AllTask -> 0 .. SuspendMax]
        /\ suspend_count'[t] > 0
        /\ \A u \in AllTask : u # t => suspend_count'[u] = suspend_count[u]
    BY <1>2, <1>4, <2>1
  <2>3. Lists'
    BY <1>1, <1>2, <1>4 DEF Lists
  <2>4. task_state[t] # "K_DELETED" /\ task_state[t] # "K_RDY"
    BY <1>4 DEF SuspendStates
  <2> QED BY <1>1, <1>4, <2>2, <2>3, <2>4, SwitchedInv
<1> QED BY <1>3, <1>4 DEF task_suspend

(* task_resume, likewise. *)
LEMMA ResumeInv ==
  ASSUME KernelInv, NEW t \in Task, task_resume(t)
  PROVE  KernelInv'
<1>1. /\ AnyCall("krhino_task_resume")
      /\ task_state[t] \in SuspendStates
      /\ suspend_count' = [suspend_count EXCEPT ![t] = @ - 1]
      /\ CriticalExitSched
      /\ UNCHANGED <<schedVars, tickVars, blk_obj, blk_state, blk_list, prio,
                     b_prio, mutex_list, sliceVars, arg, objVars, chg, cs>>
  BY DEF task_resume
<1>2. /\ Lists /\ t \in AllTask
      /\ task_state \in [AllTask -> TaskStates]
      /\ suspend_count \in [AllTask -> 0 .. SuspendMax]
      /\ suspend_count[t] \in 0 .. SuspendMax
  BY InvLists DEF AllTask, KernelInv, TypeOK
<1>3. suspend_count[t] > 0
  BY <1>1, <1>2 DEF KernelInv, CallInv
<1>4. suspend_count[t] - 1 \in 0 .. SuspendMax
  BY <1>2, <1>3, Bounds
<1>5. /\ suspend_count' \in [AllTask -> 0 .. SuspendMax]
      /\ suspend_count'[t] = suspend_count[t] - 1
      /\ \A u \in AllTask : u # t => suspend_count'[u] = suspend_count[u]
  BY <1>1, <1>2, <1>4
<1>6. task_state[t] # "K_DELETED" /\ task_state[t] # "K_RDY"
  BY <1>1 DEF SuspendStates
<1>7. CASE suspend_count[t] = 1
  <2>1. PICK x : x = ResumedState(task_state[t])
    OBVIOUS
  <2>2. /\ task_state[t] = "K_SUSPENDED" => x = "K_RDY"
        /\ task_state[t] = "K_SLEEP_SUSPENDED" => x = "K_SLEEP"
        /\ task_state[t] = "K_PEND_SUSPENDED" => x = "K_PEND"
        /\ x # "K_DELETED" /\ x \in TaskStates /\ x \notin SuspendStates
    BY <1>1, <2>1 DEF ResumedState, TaskStates, SuspendStates, PendStates, SleepStates
  <2>3. /\ task_state' = [task_state EXCEPT ![t] = x]
        /\ rq' = IF task_state[t] = "K_SUSPENDED" THEN ready_list_add(rq, t) ELSE rq
    BY <1>7, <2>1 DEF task_resume
  <2>4. /\ task_state' \in [AllTask -> TaskStates]
        /\ task_state'[t] = x
        /\ \A u \in AllTask : u # t => task_state'[u] = task_state[u]
    BY <1>2, <2>2, <2>3
  <2>5. Lists'
    <3>1. CASE task_state[t] = "K_SUSPENDED"
      BY <1>1, <1>2, <2>2, <2>3, <3>1, BecomeReady
    <3>2. CASE task_state[t] # "K_SUSPENDED"
      <4>1. \/ task_state[t] \in PendStates /\ task_state'[t] \in PendStates
            \/ task_state[t] \in SleepStates /\ task_state'[t] \in SleepStates
        BY <1>1, <2>2, <2>4, <3>2 DEF PendStates, SleepStates, SuspendStates
      <4>2. rq' = rq
        BY <2>3, <3>2
      <4> QED BY <1>1, <1>2, <2>4, <4>1, <4>2, KeepLists
    <3> QED BY <3>1, <3>2
  <2> QED BY <1>1, <1>5, <1>6, <2>2, <2>4, <2>5, SwitchedInv
<1>8. CASE suspend_count[t] # 1
  <2>1. UNCHANGED <<task_state, rq>>
    BY <1>8 DEF task_resume
  <2>2. suspend_count'[t] > 0
    BY <1>2, <1>3, <1>5, <1>8, Bounds
  <2>3. Lists'
    BY <1>1, <1>2, <2>1 DEF Lists
  <2> QED BY <1>1, <1>5, <1>6, <2>1, <2>2, <2>3, SwitchedInv
<1> QED BY <1>7, <1>8

(* krhino_task_pri_change tests its arguments. *)
LEMMA PriCheckInv ==
  ASSUME KernelInv, NEW t \in Task, NEW pri \in Prio, PriChangeCheck(t, pri)
  PROVE  KernelInv'
<1>1. /\ TaskCall("krhino_task_pri_change")
      /\ pc' = [pc EXCEPT ![active] = "pri_change"]
      /\ arg' = [arg EXCEPT ![active] = [task |-> t, pri |-> pri]]
      /\ UNCHANGED <<schedVars, rq, tickVars, pendVars, prio, b_prio,
                     suspend_count, mutex_list, sliceVars, objVars, chg, cs>>
  BY DEF PriChangeCheck
<1>2. /\ cs.op = "none" /\ chg.task = None
      /\ active \in Task /\ task_state[active] = "K_RDY"
  BY <1>1, TaskContext
<1>3. Lists' /\ OwnerInv' /\ DeadInv' /\ NoLostGive'
  BY <1>1, Steady
<1>4. [task |-> t, pri |-> pri] \in [task : Task, pri : Prio]
  OBVIOUS
<1>5. TypeOK'
  BY <1>1, <1>4 DEF KernelInv, TypeOK
<1>6. NotOverdue'
  BY <1>1 DEF KernelInv, NotOverdue
<1>7. CsInv'
  BY <1>1, <1>2 DEF CsInv
<1>8. ActiveInv'
  BY <1>1, <1>2 DEF ActiveInv
<1>9. CallInv' /\ SliceInRange'
  BY <1>1, <1>4 DEF KernelInv, TypeOK, CallInv, SliceInRange
<1> QED BY <1>3, <1>5, <1>6, <1>7, <1>8, <1>9 DEF KernelInv, Lists

(* krhino_task_pri_change begins its critical section, whatever has happened to the
   task since. *)
LEMMA PriChangeInv ==
  ASSUME KernelInv, krhino_task_pri_change
  PROVE  KernelInv'
<1> DEFINE t == arg[active].task
           p == arg[active].pri
<1>1. /\ InTask /\ pc[active] = "pri_change"
      /\ b_prio' = [b_prio EXCEPT ![t] = p]
      /\ chg' = [task |-> t, pri |-> mutex_pri_limit(p, mutex_list[t], blk_list, prio)]
      /\ cs' = CsExit
      /\ UNCHANGED <<schedVars, rq, tickVars, pendVars, prio, suspend_count,
                     mutex_list, sliceVars, callVars, objVars>>
  BY DEF krhino_task_pri_change
<1>2. /\ cs.op = "none" /\ chg.task = None /\ intrpt = 0
      /\ active \in Task /\ task_state[active] = "K_RDY"
  BY <1>1 DEF KernelInv, TypeOK, ActiveInv, InTask, Quiet, AllTask
<1>3. t \in Task /\ p \in Prio
  BY <1>1, <1>2 DEF KernelInv, CallInv, AllTask
<1> HIDE DEF t, p
<1>4. chg' \in ChgType
  <2>1. mutex_list[t] \in Seq(Mutex) /\ blk_list \in [Obj -> Seq(Task)] /\ prio \in [AllTask -> Prio]
    BY <1>3 DEF KernelInv, TypeOK, AllTask
  <2>2. mutex_pri_limit(p, mutex_list[t], blk_list, prio) \in Prio
    BY <1>3, <2>1, PriLimitType
  <2> QED BY <1>1, <1>3, <2>2 DEF ChgType
<1>5. cs' \in CsType /\ cs'.op = "exit"
  BY <1>1, Records
<1>6. Lists' /\ OwnerInv' /\ DeadInv' /\ NoLostGive'
  BY <1>1, <1>2, Steady
<1>7. TypeOK'
  <2>1. b_prio' \in [AllTask -> Prio]
    BY <1>1, <1>3 DEF KernelInv, TypeOK
  <2> QED BY <1>1, <1>4, <1>5, <2>1 DEF KernelInv, TypeOK
<1>8. NotOverdue'
  BY <1>1, <1>2 DEF KernelInv, NotOverdue
<1>9. CsInv'
  BY <1>1, <1>2, <1>5 DEF CsInv
<1>10. ActiveInv'
  BY <1>1, <1>2 DEF ActiveInv
<1>11. CallInv' /\ SliceInRange'
  BY <1>1 DEF KernelInv, CallInv, SliceInRange
<1> QED BY <1>6, <1>7, <1>8, <1>9, <1>10, <1>11 DEF KernelInv, Lists

(* krhino_task_wait_abort. *)
LEMMA AbortInv ==
  ASSUME KernelInv, NEW t \in Task, krhino_task_wait_abort(t)
  PROVE  KernelInv'
<1>1. /\ TaskCall("krhino_task_wait_abort")
      /\ AbortReady(t) \/ AbortSleep(t) \/ AbortPend(t)
      /\ cs' = CsExit
      /\ UNCHANGED <<schedVars, prio, b_prio, suspend_count, mutex_list,
                     sliceVars, callVars, objVars>>
  BY DEF krhino_task_wait_abort
<1>2. /\ cs.op = "none" /\ chg.task = None /\ intrpt = 0
      /\ active \in Task /\ task_state[active] = "K_RDY"
  BY <1>1, TaskContext
<1>3. cs' \in CsType /\ cs'.op = "exit"
  BY <1>1, Records
<1>4. Lists /\ t \in AllTask
  BY InvLists DEF AllTask
<1>5. /\ Lists' /\ Woken
      /\ \A o \in Obj : /\ ToSet(blk_list'[o]) \subseteq ToSet(blk_list[o])
                        /\ blk_list[o] = <<>> => blk_list'[o] = <<>>
      /\ chg' \in ChgType
      /\ blk_state' \in [AllTask -> {"BLK_FINISH", "BLK_ABORT", "BLK_TIMEOUT", "BLK_DEL"}]
  <2>1. CASE AbortReady(t)
    <3>1. /\ task_state[t] \in {"K_RDY", "K_SUSPENDED"}
          /\ rq' = IF task_state[t] = "K_SUSPENDED" THEN ready_list_add(rq, t) ELSE rq
          /\ task_state' = [task_state EXCEPT ![t] = "K_RDY"]
          /\ UNCHANGED <<tickVars, blk_obj, blk_state, blk_list, chg, prio>>
      BY <1>1, <2>1 DEF AbortReady
    <3>2. \A u \in AllTask : task_state'[u] = IF u = t THEN "K_RDY" ELSE task_state[u]
      BY <3>1 DEF KernelInv, TypeOK
    <3>3. Lists'
      <4>1. CASE task_state[t] = "K_SUSPENDED"
        BY <1>4, <3>1, <4>1, BecomeReady
      <4>2. CASE task_state[t] = "K_RDY"
        <5>1. task_state' = task_state /\ rq' = rq
          BY <3>1, <4>2 DEF KernelInv, TypeOK
        <5> QED BY <1>4, <3>1, <5>1 DEF Lists
      <4> QED BY <3>1, <4>1, <4>2
    <3>4. Woken
      BY <3>1, <3>2 DEF Woken, KernelInv, CallInv, SuspendStates, AllTask
    <3> QED BY <3>1, <3>3, <3>4 DEF KernelInv, TypeOK
  <2>2. CASE AbortSleep(t)
    <3>1. /\ KernelInv /\ task_state[t] \in SleepStates /\ tick_list_rm(t)
          /\ task_state' = [task_state EXCEPT ![t] = "K_RDY"]
          /\ rq' = ready_list_add(rq, t)
          /\ blk_state' = [blk_state EXCEPT ![t] = "BLK_ABORT"]
          /\ UNCHANGED <<prio, blk_obj, blk_list, chg>>
      BY <1>1, <2>2 DEF AbortSleep
    <3>2. Lists' /\ Woken
      BY ONLY <3>1, SleepOver
    <3> QED BY <3>1, <3>2 DEF KernelInv, TypeOK
  <2>3. CASE AbortPend(t)
    <3>1. /\ KernelInv /\ task_state[t] \in PendStates /\ tick_list_rm(t)
          /\ blk_list' = [blk_list EXCEPT ![blk_obj[t]] = klist_rm(@, t)]
          /\ task_state' = [task_state EXCEPT ![t] = "K_RDY"]
          /\ rq' = ready_list_add(rq, t)
          /\ prio' = prio /\ blk_obj' = [blk_obj EXCEPT ![t] = None]
          /\ blk_state' = [blk_state EXCEPT ![t] = "BLK_ABORT"]
          /\ mutex_task_pri_reset(t, blk_list')
      BY <1>1, <2>3 DEF AbortPend
    <3>2. /\ Lists' /\ Woken
          /\ \A o \in Obj : /\ ToSet(blk_list'[o]) \subseteq ToSet(blk_list[o])
                            /\ blk_list[o] = <<>> => blk_list'[o] = <<>>
      BY ONLY <3>1, WaitOver
    <3>3. blk_list' \in [Obj -> Seq(Task)]
      BY <3>2 DEF Lists
    <3>4. chg' \in ChgType
      BY ONLY <3>1, <3>3, ResetType
    <3> QED BY <3>1, <3>2, <3>4 DEF KernelInv, TypeOK
  <2> QED BY <1>1, <2>1, <2>2, <2>3
<1>6. OwnerInv' /\ DeadInv' /\ NoLostGive'
  BY <1>1, <1>2, <1>5, WokenObjects
<1>7. TypeOK'
  BY <1>1, <1>3, <1>5 DEF KernelInv, TypeOK, Lists, RqType
<1>8. NotOverdue'
  BY <1>2, <1>5 DEF KernelInv, NotOverdue, Woken
<1>9. CsInv' /\ ActiveInv'
  <2>1. active' = active /\ intrpt' = 0 /\ task_state'[active] = "K_RDY"
    BY <1>1, <1>2, <1>5 DEF Woken, AllTask
  <2>2. CsInv'
    BY <1>2, <1>3, <2>1 DEF CsInv
  <2> QED BY <2>1, <2>2 DEF ActiveInv
<1>10. CallInv' /\ SliceInRange'
  BY <1>1, <1>5 DEF KernelInv, CallInv, SliceInRange, Woken
<1> QED BY <1>5, <1>6, <1>7, <1>8, <1>9, <1>10 DEF KernelInv, Lists
------------------------------------------------------------------------------
(* Deletion and creation. *)

(* krhino_task_del begins with the mutexes of the task. *)
LEMMA TaskDelInv ==
  ASSUME KernelInv, NoDelAgain, NEW t \in Task, krhino_task_del(t)
  PROVE  KernelInv'
<1>1. /\ TaskCall("krhino_task_del")
      /\ t = active => sched_lock = 0
      /\ task_state[t] = "K_DELETED" => TaskCall("krhino_task_del again")
      /\ cs' = [CsNone EXCEPT !.op = "free", !.task = t, !.list = mutex_list[t]]
      /\ UNCHANGED <<schedVars, rq, tickVars, pendVars, prio, b_prio,
                     suspend_count, mutex_list, sliceVars, callVars, objVars, chg>>
  BY DEF krhino_task_del
<1>2. /\ cs.op = "none" /\ chg.task = None /\ intrpt = 0
      /\ active \in Task /\ task_state[active] = "K_RDY"
  BY <1>1, TaskContext
<1>3. task_state[t] # "K_DELETED"
  BY <1>1, <1>2 DEF TaskCall, NoDelAgain
<1>4. mutex_list[t] \in Seq(Mutex) /\ ToSet(mutex_list[t]) \subseteq Mutex
  BY HeldMutexes
<1>5. cs' \in CsType /\ cs'.op = "free" /\ cs'.task = t /\ cs'.list = mutex_list[t]
  BY <1>1, <1>4, Records DEF CsType, CsOps
<1>6. /\ Linear(mutex_list[t])
      /\ \A m \in Mutex : (m \in live /\ mutex_task[m] = t) <=> m \in ToSet(mutex_list[t])
  BY <1>2, <1>3, Settled
<1>7. Lists' /\ OwnerInv' /\ DeadInv' /\ NoLostGive'
  BY <1>1, <1>2, Steady
<1>8. TypeOK'
  BY <1>1, <1>5 DEF KernelInv, TypeOK
<1>9. NotOverdue'
  BY <1>1, <1>2 DEF KernelInv, NotOverdue
<1>10. CsInv'
  BY <1>1, <1>2, <1>3, <1>5, <1>6 DEF CsInv
<1>11. ActiveInv'
  BY <1>1, <1>2 DEF ActiveInv
<1>12. CallInv' /\ SliceInRange'
  BY <1>1 DEF KernelInv, CallInv, SliceInRange
<1> QED BY <1>7, <1>8, <1>9, <1>10, <1>11, <1>12 DEF KernelInv, Lists

(* In the middle of a deletion. *)
LEMMA FreeContext ==
  ASSUME KernelInv, cs.op = "free"
  PROVE  /\ chg.task = None /\ intrpt = 0
         /\ active \in Task /\ task_state[active] = "K_RDY"
         /\ cs.task \in Task /\ task_state[cs.task] # "K_DELETED"
         /\ cs.task = active => sched_lock = 0
         /\ cs.list \in Seq(Mutex) /\ Linear(cs.list)
         /\ \A m \in Mutex : (m \in live /\ mutex_task[m] = cs.task) <=> m \in ToSet(cs.list)
BY DEF KernelInv, CsInv, TypeOK, CsType

(* task_mutex_free hands a mutex to its first waiter. *)
LEMMA FreeToWaiterInv ==
  ASSUME KernelInv, FreeToWaiter
  PROVE  KernelInv'
<1> DEFINE m == Head(cs.list)
           t == Head(blk_list[m])
<1>1. /\ cs.op = "free" /\ cs.list # <<>> /\ blk_list[m] # <<>>
      /\ pend_task_wakeup(t, "BLK_FINISH")
      /\ mutex_task' = [mutex_task EXCEPT ![m] = t]
      /\ mutex_list' = [mutex_list EXCEPT ![t] = <<m>> \o @]
      /\ cs' = [cs EXCEPT !.list = Tail(@)]
      /\ UNCHANGED <<schedVars, prio, b_prio, suspend_count, sliceVars, callVars,
                     live, owner_nested, count, chg>>
  BY DEF FreeToWaiter
<1>2. /\ m \in Mutex /\ m \in ToSet(cs.list) /\ Tail(cs.list) \in Seq(Mutex)
      /\ ToSet(Tail(cs.list)) = ToSet(cs.list) \ {m} /\ Linear(Tail(cs.list))
  BY <1>1, FreeContext, FirstEntry
<1>3. m \in Mutex \cap live /\ mutex_task[m] = cs.task /\ cs.task \in Task
  BY <1>1, <1>2, FreeContext
<1>4. PICK w : w = t
  OBVIOUS
<1> HIDE DEF m, t
<1>5. /\ cs' \in CsType /\ cs'.op = "free" /\ cs'.task = cs.task
      /\ cs'.list = Tail(cs.list)
  BY <1>1, <1>2 DEF KernelInv, TypeOK, CsType
<1>6. \A x \in Mutex \cap live : x # m /\ mutex_task[x] \in Task =>
            x \in ToSet(mutex_list[mutex_task[x]]) /\ owner_nested[x] > 0
  BY <1>1 DEF KernelInv, OwnerInv
<1>7. owner_nested[m] > 0
  BY <1>1, <1>3 DEF KernelInv, OwnerInv
<1>8. \A u \in Task : task_state[u] # "K_DELETED" /\ ~(cs'.op = "free" /\ cs'.task = u) =>
            \A x \in ToSet(mutex_list[u]) : x \in live \ {m} /\ mutex_task[x] = u
  BY <1>1, <1>3, <1>5 DEF KernelInv, OwnerInv
<1>9. w # cs.task
  <2>1. m \in Obj /\ Lists
    BY <1>3, InvLists DEF Obj
  <2>2. w \in ToSet(blk_list[m])
    BY <1>1, <1>4, <2>1, FirstWaiter DEF t
  <2> QED BY <1>3, <2>2 DEF KernelInv, OwnerInv
<1>10. /\ Lists' /\ Woken /\ w \in Task
       /\ mutex_task' \in [Mutex -> Task \cup {None}]
       /\ mutex_list' \in [AllTask -> Seq(Mutex)]
       /\ blk_state' \in [AllTask -> {"BLK_FINISH", "BLK_ABORT", "BLK_TIMEOUT", "BLK_DEL"}]
       /\ OwnerInv' /\ DeadInv' /\ NoLostGive'
  <2>1. /\ KernelInv /\ w = Head(blk_list[m]) /\ pend_task_wakeup(w, "BLK_FINISH")
        /\ blk_list[m] # <<>> /\ mutex_task' = [mutex_task EXCEPT ![m] = w]
        /\ mutex_list' = [mutex_list EXCEPT ![w] = <<m>> \o @]
        /\ UNCHANGED <<prio, live, count>> /\ cs.op # "wake"
        /\ owner_nested' = owner_nested
        /\ ~(cs'.op = "free" /\ cs'.task = w)
    BY <1>1, <1>4, <1>5, <1>9 DEF t
  <2>2. \A x \in Mutex : x # m => owner_nested'[x] = owner_nested[x]
    BY <2>1
  <2>3. owner_nested'[m] > 0
    BY <1>7, <2>1
  <2> QED BY ONLY <1>3, <1>6, <1>8, <2>1, <2>2, <2>3, Handed
<1>11. TypeOK'
  BY <1>1, <1>5, <1>10 DEF KernelInv, TypeOK, Lists, RqType
<1>12. NotOverdue'
  BY <1>1, <1>10 DEF KernelInv, NotOverdue, Woken
<1>13. CsInv' /\ ActiveInv'
  <2>1. /\ active' = active /\ intrpt' = 0 /\ task_state'[active] = "K_RDY"
        /\ chg'.task = None /\ active \in Task
        /\ task_state'[cs.task] # "K_DELETED"
        /\ cs.task = active => sched_lock' = 0
    BY <1>1, <1>10, FreeContext DEF Woken, AllTask
  <2>2. ASSUME NEW x \in Mutex
        PROVE  (x \in live' /\ mutex_task'[x] = cs.task) <=> x \in ToSet(cs'.list)
    <3>1. CASE x = m
      BY <1>1, <1>2, <1>4, <1>5, <1>9, <3>1 DEF KernelInv, TypeOK
    <3>2. CASE x # m
      BY <1>1, <1>2, <1>5, <3>2, FreeContext DEF KernelInv, TypeOK
    <3> QED BY <3>1, <3>2
  <2>3. CsInv'
    BY <1>2, <1>3, <1>5, <2>1, <2>2 DEF CsInv
  <2> QED BY <2>1, <2>3 DEF ActiveInv
<1>14. CallInv' /\ SliceInRange'
  BY <1>1, <1>10 DEF KernelInv, CallInv, SliceInRange, Woken
<1> QED BY <1>10, <1>11, <1>12, <1>13, <1>14 DEF KernelInv, Lists

(* task_mutex_free frees a mutex without waiters. *)
LEMMA FreeUnownedInv ==
  ASSUME KernelInv, FreeUnowned
  PROVE  KernelInv'
<1> DEFINE m == Head(cs.list)
<1>1. /\ cs.op = "free" /\ cs.list # <<>> /\ blk_list[m] = <<>>
      /\ mutex_task' = [mutex_task EXCEPT ![m] = None]
      /\ cs' = [cs EXCEPT !.list = Tail(@)]
      /\ UNCHANGED <<schedVars, rq, tickVars, pendVars, prio, b_prio,
                     suspend_count, mutex_list, sliceVars, callVars, live,
                     owner_nested, count, chg>>
  BY DEF FreeUnowned
<1>2. /\ m \in Mutex /\ m \in ToSet(cs.list) /\ Tail(cs.list) \in Seq(Mutex)
      /\ ToSet(Tail(cs.list)) = ToSet(cs.list) \ {m} /\ Linear(Tail(cs.list))
  BY <1>1, FreeContext, FirstEntry
<1>3. m \in Mutex \cap live /\ mutex_task[m] = cs.task /\ cs.task \in Task /\ None \notin Task
  BY <1>1, <1>2, FreeContext, TaskAssumption DEF AllTask
<1> HIDE DEF m
<1>4. /\ cs' \in CsType /\ cs'.op = "free" /\ cs'.task = cs.task
      /\ cs'.list = Tail(cs.list)
  BY <1>1, <1>2 DEF KernelInv, TypeOK, CsType
<1>5. /\ mutex_task' \in [Mutex -> Task \cup {None}]
      /\ mutex_task'[m] = None /\ \A x \in Mutex : x # m => mutex_task'[x] = mutex_task[x]
  BY <1>1, <1>3 DEF KernelInv, TypeOK
<1>6. Lists'
  BY <1>1, InvLists DEF Lists
<1>7. OwnerInv'
  <2>1. ASSUME NEW x \in Mutex \cap live'
        PROVE  /\ blk_list'[x] # <<>> => mutex_task'[x] \in Task
               /\ mutex_task'[x] \in Task =>
                    /\ task_state'[mutex_task'[x]] # "K_DELETED"
                    /\ mutex_task'[x] \notin ToSet(blk_list'[x])
                    /\ x \in ToSet(mutex_list'[mutex_task'[x]])
                    /\ owner_nested'[x] > 0
    <3>1. CASE x = m
      BY <1>1, <1>3, <1>5, <3>1
    <3>2. CASE x # m
      BY <1>1, <1>5, <3>2 DEF KernelInv, OwnerInv
    <3> QED BY <3>1, <3>2
  <2>2. ASSUME NEW u \in Task, task_state'[u] # "K_DELETED", ~(cs'.op = "free" /\ cs'.task = u),
               NEW x \in ToSet(mutex_list'[u])
        PROVE  x \in live' /\ mutex_task'[x] = u
    <3>1. x \in live /\ mutex_task[x] = u /\ x \in Mutex
      BY <1>1, <1>4, <2>2, HeldMutexes DEF KernelInv, OwnerInv
    <3>2. x # m
      BY <1>3, <1>4, <2>2, <3>1
    <3> QED BY <1>1, <1>5, <3>1, <3>2
  <2>3. \A u \in Task : Linear(mutex_list'[u])
    BY <1>1 DEF KernelInv, OwnerInv
  <2> QED BY <2>1, <2>2, <2>3 DEF OwnerInv
<1>8. DeadInv' /\ NoLostGive'
  BY <1>1, DeadKeep, CountKeep
<1>9. TypeOK'
  BY <1>1, <1>4, <1>5 DEF KernelInv, TypeOK
<1>10. NotOverdue'
  BY <1>1, <1>4 DEF KernelInv, NotOverdue
<1>11. CsInv' /\ ActiveInv'
  <2>1. ASSUME NEW x \in Mutex
        PROVE  (x \in live' /\ mutex_task'[x] = cs.task) <=> x \in ToSet(cs'.list)
    <3>1. CASE x = m
      BY <1>2, <1>3, <1>4, <1>5, <3>1
    <3>2. CASE x # m
      BY <1>1, <1>2, <1>4, <1>5, <3>2, FreeContext
    <3> QED BY <3>1, <3>2
  <2>2. CsInv'
    BY <1>1, <1>2, <1>4, <2>1, FreeContext DEF CsInv
  <2> QED BY <1>1, <2>2, FreeContext DEF ActiveInv
<1>12. CallInv' /\ SliceInRange'
  BY <1>1 DEF KernelInv, CallInv, SliceInRange
<1> QED BY <1>6, <1>7, <1>8, <1>9, <1>10, <1>11, <1>12 DEF KernelInv, Lists

(* The task leaves the list its state says. *)
LEMMA DelTaskInv ==
  ASSUME KernelInv, DelTask
  PROVE  KernelInv'
<1> DEFINE t == cs.task
<1>1. /\ cs.op = "free" /\ cs.list = <<>>
      /\ UNCHANGED <<schedVars, prio, b_prio, suspend_count, mutex_list,
                     sliceVars, callVars, objVars>>
  BY DEF DelTask
<1>2. /\ chg.task = None /\ intrpt = 0 /\ active \in Task /\ task_state[active] = "K_RDY"
      /\ t \in Task /\ t \in AllTask /\ task_state[t] # "K_DELETED"
      /\ t = active => sched_lock = 0
  BY <1>1, FreeContext DEF AllTask
<1>3. /\ DelUnpended(t) \/ DelPended(t)
      /\ task_state' = [task_state EXCEPT ![t] = "K_DELETED"]
      /\ cs' = CsExit
      /\ UNCHANGED <<blk_obj, blk_state>>
  BY <1>2 DEF DelTask
<1>4. \A m \in Mutex \cap live : mutex_task[m] # t
  <2>1. ToSet(cs.list) = {}
    BY <1>1, FreeContext, EntrySet
  <2> QED BY <1>1, <2>1, FreeContext
<1> HIDE DEF t
<1>5. cs' \in CsType /\ cs'.op = "exit"
  BY <1>3, Records
<1>6. \A u \in AllTask : task_state'[u] = IF u = t THEN "K_DELETED" ELSE task_state[u]
  BY <1>3 DEF KernelInv, TypeOK
<1>7. /\ Lists'
      /\ \A o \in Obj : /\ ToSet(blk_list'[o]) \subseteq ToSet(blk_list[o])
                        /\ blk_list[o] = <<>> => blk_list'[o] = <<>>
      /\ \A u \in ToSet(tick_list') : u \in ToSet(tick_list) /\ tick_remain'[u] = tick_remain[u]
      /\ chg' \in ChgType
      /\ chg'.task # None => t # active
  <2>1. Lists /\ UNCHANGED <<prio, blk_obj>>
    BY <1>1, <1>3, InvLists
  <2>2. CASE DelUnpended(t)
    <3>1. /\ task_state[t] \notin PendStates
          /\ rq' = IF task_state[t] = "K_RDY" THEN ready_list_rm(rq, t) ELSE rq
          /\ tick_list_rm(t)
          /\ UNCHANGED <<blk_list, chg>>
      BY <2>2 DEF DelUnpended
    <3>2. CASE task_state[t] \in SleepStates
      <4>1. task_state[t] # "K_RDY"
        BY <3>2 DEF SleepStates
      <4>2. rq' = rq
        BY <3>1, <4>1
      <4>3. /\ Lists'
            /\ \A u \in ToSet(tick_list') : u \in ToSet(tick_list) /\ tick_remain'[u] = tick_remain[u]
        BY ONLY <1>2, <1>3, <2>1, <3>1, <3>2, <4>2, LeaveSleep
      <4> QED BY <1>2, <3>1, <4>3 DEF KernelInv, TypeOK
    <3>3. CASE task_state[t] \notin SleepStates
      <4>1. tick_list \in Seq(Task) /\ Timed(tick_list, tick_remain, task_state)
        BY <2>1 DEF Lists
      <4>2. ~Contains(tick_list, t)
        BY <3>1, <3>3, <4>1, EntrySet DEF Timed
      <4>3. UNCHANGED <<tick_list, tick_remain>>
        BY <3>1, <4>2 DEF tick_list_rm
      <4>4. task_state[t] \in {"K_RDY", "K_SUSPENDED"}
        BY <1>2, <3>1, <3>3
           DEF KernelInv, TypeOK, TaskStates, SuspendStates, PendStates, SleepStates
      <4>5. CASE task_state[t] = "K_RDY"
        <5>1. rq' = ready_list_rm(rq, t)
          BY <3>1, <4>5
        <5>2. Lists'
          BY ONLY <1>2, <1>3, <2>1, <3>1, <4>3, <4>5, <5>1, LeaveReady
        <5> QED BY <1>2, <3>1, <4>3, <5>2 DEF KernelInv, TypeOK
      <4>6. CASE task_state[t] = "K_SUSPENDED"
        <5>1. rq' = rq
          BY <3>1, <4>6
        <5>2. task_state' \in [AllTask -> TaskStates]
          BY <1>3 DEF KernelInv, TypeOK, TaskStates
        <5>3. \A u \in AllTask :
                \/ task_state'[u] = task_state[u]
                \/ {task_state[u], task_state'[u]} \subseteq {"K_SUSPENDED", "K_DELETED"}
          BY <1>6, <4>6
        <5>4. Lists'
          BY <2>1, <3>1, <4>3, <5>1, <5>2, <5>3, KeepLists
        <5> QED BY <1>2, <3>1, <4>3, <5>4 DEF KernelInv, TypeOK
      <4> QED BY <4>4, <4>5, <4>6
    <3> QED BY <3>2, <3>3
  <2>3. CASE DelPended(t)
    <3>1. /\ KernelInv /\ task_state[t] \in PendStates /\ tick_list_rm(t)
          /\ blk_list' = [blk_list EXCEPT ![blk_obj[t]] = klist_rm(@, t)]
          /\ mutex_task_pri_reset(t, blk_list')
          /\ rq' = rq
      BY <2>3 DEF DelPended
    <3>2. /\ Lists'
          /\ \A o \in Obj : /\ ToSet(blk_list'[o]) \subseteq ToSet(blk_list[o])
                            /\ blk_list[o] = <<>> => blk_list'[o] = <<>>
          /\ \A u \in ToSet(tick_list') : u \in ToSet(tick_list) /\ tick_remain'[u] = tick_remain[u]
      <4>1. blk_obj' \in {blk_obj, [blk_obj EXCEPT ![t] = None]}
        BY <2>1
      <4> QED BY ONLY <1>2, <1>3, <2>1, <3>1, <4>1, LeaveWait
    <3>3. blk_list' \in [Obj -> Seq(Task)]
      BY <3>2 DEF Lists
    <3>4. chg' \in ChgType
      BY ONLY <1>2, <3>1, <3>3, ResetType
    <3>5. t # active
      BY <1>2, <3>1 DEF PendStates
    <3> QED BY <3>2, <3>4, <3>5
  <2> QED BY <1>3, <2>2, <2>3
<1>8. OwnerInv'
  <2>1. ASSUME NEW x \in Mutex \cap live'
        PROVE  /\ blk_list'[x] # <<>> => mutex_task'[x] \in Task
               /\ mutex_task'[x] \in Task =>
                    /\ task_state'[mutex_task'[x]] # "K_DELETED"
                    /\ mutex_task'[x] \notin ToSet(blk_list'[x])
                    /\ x \in ToSet(mutex_list'[mutex_task'[x]])
                    /\ owner_nested'[x] > 0
    <3>1. x \in Mutex \cap live /\ x \in Obj /\ Task \subseteq AllTask
      BY <1>1 DEF Obj, AllTask
    <3>2. /\ blk_list[x] # <<>> => mutex_task[x] \in Task
          /\ mutex_task[x] \in Task =>
               /\ task_state[mutex_task[x]] # "K_DELETED"
               /\ mutex_task[x] \notin ToSet(blk_list[x])
               /\ x \in ToSet(mutex_list[mutex_task[x]])
               /\ owner_nested[x] > 0
      BY <1>1, <3>1 DEF KernelInv, OwnerInv
    <3>3. mutex_task[x] \in Task => task_state'[mutex_task[x]] # "K_DELETED"
      BY <1>4, <1>6, <3>1, <3>2
    <3> QED BY <1>1, <1>7, <3>1, <3>2, <3>3
  <2>2. ASSUME NEW u \in Task
        PROVE  /\ Linear(mutex_list'[u])
               /\ task_state'[u] # "K_DELETED" =>
                    \A x \in ToSet(mutex_list'[u]) : x \in live' /\ mutex_task'[x] = u
    <3>1. task_state'[u] # "K_DELETED" => task_state[u] # "K_DELETED" /\ u # t
      BY <1>6 DEF AllTask
    <3> QED BY <1>1, <3>1 DEF KernelInv, OwnerInv, t
  <2> QED BY <2>1, <2>2 DEF OwnerInv
<1>9. DeadInv' /\ NoLostGive'
  BY <1>1, <1>7, DeadKeep, CountKeep
<1>10. TypeOK'
  BY <1>1, <1>3, <1>5, <1>7 DEF KernelInv, TypeOK, Lists, RqType
<1>11. NotOverdue'
  BY <1>1, <1>7 DEF KernelInv, NotOverdue
<1>12. CsInv' /\ ActiveInv'
  <2>1. /\ active' = active /\ intrpt' = 0 /\ sched_lock' = sched_lock
        /\ task_state'[active] = IF t = active THEN "K_DELETED" ELSE "K_RDY"
    BY <1>1, <1>2, <1>6 DEF AllTask
  <2>2. CsInv'
    BY <1>2, <1>5, <1>7, <2>1 DEF CsInv
  <2>3. ActiveInv'
    BY <1>2, <1>5, <2>1 DEF ActiveInv, Quiet
  <2> QED BY <2>2, <2>3
<1>13. CallInv' /\ SliceInRange'
  BY <1>1, <1>6 DEF KernelInv, CallInv, SliceInRange, SuspendStates
<1> QED BY <1>7, <1>8, <1>9, <1>10, <1>11, <1>12, <1>13 DEF KernelInv, Lists
(* A deleted task is on no list, so it may come back with another priority. *)
LEMMA CreateLists ==
  ASSUME Lists, NEW t \in Task, task_state[t] = "K_DELETED", NEW p \in Prio,
         NEW x \in {"K_RDY", "K_SUSPENDED"},
         prio' = [prio EXCEPT ![t] = p], blk_obj' = [blk_obj EXCEPT ![t] = None],
         task_state' = [task_state EXCEPT ![t] = x],
         rq' = IF x = "K_RDY" THEN ready_list_add_tail(rq, t, p) ELSE rq,
         UNCHANGED <<blk_list, tick_list, tick_remain>>
  PROVE  Lists'
<1>1. t \in AllTask
  BY DEF AllTask
<1>2. /\ rq \in RqType /\ task_state \in [AllTask -> TaskStates] /\ prio \in [AllTask -> Prio]
      /\ blk_list \in [Obj -> Seq(Task)] /\ tick_list \in Seq(Task)
      /\ Queued(rq, task_state, prio) /\ Waiting(blk_list, task_state, blk_obj, prio)
      /\ Timed(tick_list, tick_remain, task_state)
      /\ blk_obj \in [AllTask -> Obj \cup {None}]
  BY DEF Lists
<1>3. /\ prio' \in [AllTask -> Prio] /\ prio'[t] = p
      /\ blk_obj' \in [AllTask -> Obj \cup {None}]
      /\ task_state' \in [AllTask -> TaskStates] /\ task_state'[t] = x
      /\ \A u \in AllTask : u # t => /\ prio'[u] = prio[u] /\ blk_obj'[u] = blk_obj[u]
                                     /\ task_state'[u] = task_state[u]
  BY <1>1, <1>2 DEF TaskStates, SuspendStates
<1>4. /\ {"K_RDY", "K_SUSPENDED", "K_DELETED"} \cap (PendStates \cup SleepStates) = {}
  BY DEF PendStates, SleepStates
<1>5. Waiting(blk_list, task_state', blk_obj', prio')
  <2>1. \A u \in AllTask : task_state'[u] \in PendStates <=> task_state[u] \in PendStates
    BY <1>3, <1>4
  <2>2. \A u \in AllTask : task_state[u] \in PendStates => blk_obj'[u] = blk_obj[u] /\ prio'[u] = prio[u]
    BY <1>3, <1>4
  <2>3. ASSUME NEW o \in Obj
        PROVE  /\ ToSet(blk_list[o]) = {u \in Task : task_state'[u] \in PendStates /\ blk_obj'[u] = o}
               /\ Linear(blk_list[o]) /\ Sorted(blk_list[o], prio')
    <3>1. /\ ToSet(blk_list[o]) = {u \in Task : task_state[u] \in PendStates /\ blk_obj[u] = o}
          /\ Linear(blk_list[o]) /\ Sorted(blk_list[o], prio) /\ blk_list[o] \in Seq(Task)
      BY <1>2 DEF Waiting
    <3>2. \A e \in ToSet(blk_list[o]) : prio'[e] = prio[e]
      BY <2>2, <3>1 DEF AllTask
    <3>3. Sorted(blk_list[o], prio')
      BY <3>1, <3>2, SortedSame
    <3> QED BY <2>1, <2>2, <3>1, <3>3 DEF AllTask
  <2>4. \A u \in AllTask : task_state'[u] \in PendStates => blk_obj'[u] \in Obj
    BY <1>2, <2>1, <2>2 DEF Waiting
  <2> QED BY <2>3, <2>4 DEF Waiting
<1>6. Timed(tick_list, tick_remain, task_state')
  <2>1. \A u \in AllTask : task_state[u] \in PendStates \cup SleepStates
                              => task_state'[u] \in PendStates \cup SleepStates
    BY <1>3, <1>4
  <2>2. \A u \in AllTask : task_state'[u] \in SleepStates => task_state[u] \in SleepStates
    BY <1>3, <1>4
  <2> QED BY ONLY <1>2, <2>1, <2>2, TimedSame
<1>7. Queued(rq, task_state, prio')
  <2>1. \A u \in AllTask : task_state[u] = "K_RDY" => prio'[u] = prio[u]
    BY <1>3
  <2> QED BY ONLY <1>2, <2>1, QueueSame
<1>8. rq' \in RqType /\ Queued(rq', task_state', prio')
  <2>1. CASE x = "K_RDY"
    <3>1. /\ rq' = ready_list_add_tail(rq, t, prio'[t])
          /\ task_state[t] # "K_RDY" /\ task_state'[t] = "K_RDY"
          /\ \A u \in AllTask : u # t => task_state'[u] = task_state[u]
      BY <1>3, <2>1
    <3>2. PICK st2, pr2, r : st2 = task_state' /\ pr2 = prio' /\ r = rq'
      OBVIOUS
    <3>3. /\ r = ready_list_add_tail(rq, t, pr2[t]) /\ pr2 \in [AllTask -> Prio]
          /\ task_state[t] # "K_RDY" /\ st2[t] = "K_RDY"
          /\ \A u \in AllTask : u # t => st2[u] = task_state[u]
          /\ Queued(rq, task_state, pr2)
      BY <1>3, <1>7, <3>1, <3>2
    <3>4. r \in RqType /\ Queued(r, st2, pr2)
      BY ONLY <1>1, <1>2, <3>3, QueueAdd
    <3> QED BY <3>2, <3>4
  <2>2. CASE x = "K_SUSPENDED"
    <3>1. rq' = rq /\ \A u \in AllTask : task_state'[u] = "K_RDY" <=> task_state[u] = "K_RDY"
      BY <1>3, <2>2
    <3>2. Queued(rq, task_state', prio')
      BY ONLY <1>2, <1>7, <3>1, QueueSame
    <3> QED BY <1>2, <3>1, <3>2
  <2> QED BY <2>1, <2>2
<1> QED BY <1>2, <1>3, <1>5, <1>6, <1>8 DEF Lists

(* krhino_task_create. *)
LEMMA TaskCreateInv ==
  ASSUME KernelInv, NEW t \in Task, NEW autorun \in BOOLEAN, krhino_task_create(t, autorun)
  PROVE  KernelInv'
<1>1. /\ TaskCall("krhino_task_create") /\ task_state[t] = "K_DELETED"
      /\ prio' = [prio EXCEPT ![t] = BasePrio[t]]
      /\ b_prio' = [b_prio EXCEPT ![t] = BasePrio[t]]
      /\ blk_obj' = [blk_obj EXCEPT ![t] = None]
      /\ blk_state' = [blk_state EXCEPT ![t] = "BLK_FINISH"]
      /\ mutex_list' = [mutex_list EXCEPT ![t] = <<>>]
      /\ time_total' = [time_total EXCEPT ![t] = SliceTotal[t]]
      /\ time_slice' = [time_slice EXCEPT ![t] = SliceTotal[t]]
      /\ sched_policy' = [sched_policy EXCEPT ![t] = "KSCHED_RR"]
      /\ arg' = [arg EXCEPT ![t] = None]
      /\ UNCHANGED <<schedVars, tickVars, blk_list, slice_due, objVars, chg, cs>>
  BY DEF krhino_task_create
<1>2. PICK x \in {"K_RDY", "K_SUSPENDED"} :
      /\ task_state' = [task_state EXCEPT ![t] = x]
      /\ suspend_count' = [suspend_count EXCEPT ![t] = IF x = "K_RDY" THEN 0 ELSE 1]
      /\ rq' = IF x = "K_RDY" THEN ready_list_add_tail(rq, t, BasePrio[t]) ELSE rq
      /\ pc' = IF x = "K_RDY" THEN [pc EXCEPT ![t] = "user", ![active] = "sched"]
               ELSE [pc EXCEPT ![t] = "user"]
  BY DEF krhino_task_create
<1>3. /\ cs.op = "none" /\ chg.task = None
      /\ active \in Task /\ task_state[active] = "K_RDY" /\ pc[active] = "user"
      /\ t \in AllTask /\ active # t
  BY <1>1, TaskContext DEF AllTask
<1>4. /\ BasePrio[t] \in Prio /\ SliceTotal[t] \in Nat /\ SliceTotal[t] > 0
      /\ SliceTotal[t] \in 1 .. SliceTotal[t]
  BY <1>3, NumberAssumption
<1>5. Lists'
  <2>1. /\ Lists /\ task_state[t] = "K_DELETED" /\ BasePrio[t] \in Prio
        /\ UNCHANGED <<blk_list, tick_list, tick_remain>>
    BY <1>1, <1>4, InvLists
  <2> QED BY ONLY <1>1, <1>2, <2>1, CreateLists
<1>6. /\ \A u \in AllTask : task_state'[u] = IF u = t THEN x ELSE task_state[u]
      /\ suspend_count' \in [AllTask -> 0 .. SuspendMax]
      /\ \A u \in AllTask : suspend_count'[u] = IF u # t THEN suspend_count[u]
                                                ELSE IF x = "K_RDY" THEN 0 ELSE 1
  <2>1. 0 \in 0 .. SuspendMax /\ 1 \in 0 .. SuspendMax
    BY Bounds
  <2> QED BY <1>2, <2>1 DEF KernelInv, TypeOK
<1>7. /\ mutex_list' \in [AllTask -> Seq(Mutex)] /\ mutex_list'[t] = <<>>
      /\ \A u \in Task : u # t => mutex_list'[u] = mutex_list[u]
      /\ ToSet(mutex_list'[t]) = {} /\ Linear(mutex_list'[t])
  <2>1. <<>> \in Seq(Mutex) /\ Task \subseteq AllTask
    BY DEF AllTask
  <2>2. /\ mutex_list' \in [AllTask -> Seq(Mutex)] /\ mutex_list'[t] = <<>>
        /\ \A u \in Task : u # t => mutex_list'[u] = mutex_list[u]
    BY <1>1, <1>3, <2>1 DEF KernelInv, TypeOK
  <2>3. ToSet(mutex_list'[t]) = {}
    BY <2>1, <2>2, EntrySet
  <2>4. Linear(mutex_list'[t])
    BY <2>2 DEF Linear
  <2> QED BY <2>2, <2>3, <2>4
<1>8. /\ pc' \in [AllTask -> {"user", "sched", "sched_pend", "pend", "pri_change"}]
      /\ \A u \in AllTask : pc'[u] = "pri_change" => pc[u] = "pri_change" /\ u # t
  BY <1>2, <1>3 DEF KernelInv, TypeOK
<1>9. /\ arg' \in [AllTask -> Obj \cup {None} \cup [task : Task, pri : Prio]]
      /\ \A u \in AllTask : u # t => arg'[u] = arg[u]
  BY <1>1 DEF KernelInv, TypeOK
<1>10. OwnerInv'
  <2>1. ASSUME NEW m \in Mutex \cap live'
        PROVE  /\ blk_list'[m] # <<>> => mutex_task'[m] \in Task
               /\ mutex_task'[m] \in Task =>
                    /\ task_state'[mutex_task'[m]] # "K_DELETED"
                    /\ mutex_task'[m] \notin ToSet(blk_list'[m])
                    /\ m \in ToSet(mutex_list'[mutex_task'[m]])
                    /\ owner_nested'[m] > 0
    <3>1. mutex_task[m] \in Task => task_state[mutex_task[m]] # "K_DELETED"
      BY <1>1, <1>3, Settled
    <3>2. mutex_task[m] \in Task => mutex_task[m] # t /\ mutex_task[m] \in AllTask
      BY <1>1, <3>1 DEF AllTask
    <3> QED BY <1>1, <1>3, <1>6, <1>7, <3>1, <3>2, Settled
  <2>2. ASSUME NEW u \in Task
        PROVE  /\ Linear(mutex_list'[u])
               /\ task_state'[u] # "K_DELETED" =>
                    \A m \in ToSet(mutex_list'[u]) : m \in live' /\ mutex_task'[m] = u
    <3>1. CASE u = t
      BY <1>7, <3>1
    <3>2. CASE u # t
      <4>1. task_state'[u] = task_state[u]
        BY <1>6, <3>2 DEF AllTask
      <4> QED BY <1>1, <1>3, <1>7, <3>2, <4>1, Settled
    <3> QED BY <3>1, <3>2
  <2> QED BY <2>1, <2>2 DEF OwnerInv
<1>11. DeadInv' /\ NoLostGive'
  BY <1>1, DeadKeep, CountKeep
<1>12. TypeOK'
  <2>1. /\ b_prio' \in [AllTask -> Prio]
        /\ blk_state' \in [AllTask -> {"BLK_FINISH", "BLK_ABORT", "BLK_TIMEOUT", "BLK_DEL"}]
        /\ time_slice' \in [AllTask -> Nat] /\ time_total' \in [AllTask -> Nat]
        /\ sched_policy' \in [AllTask -> {"KSCHED_FIFO", "KSCHED_RR"}]
    BY <1>1, <1>4 DEF KernelInv, TypeOK
  <2> QED BY <1>1, <1>5, <1>6, <1>7, <1>8, <1>9, <2>1 DEF KernelInv, TypeOK, Lists, RqType
<1>13. NotOverdue'
  BY <1>1 DEF KernelInv, NotOverdue
<1>14. CsInv'
  BY <1>1, <1>3 DEF CsInv
<1>15. ActiveInv'
  BY <1>1, <1>3, <1>6 DEF ActiveInv, AllTask
<1>16. CallInv'
  <2>1. ASSUME NEW u \in AllTask
        PROVE  task_state'[u] \in SuspendStates => suspend_count'[u] > 0
    <3>1. CASE u = t
      BY <1>6, <3>1 DEF SuspendStates
    <3>2. CASE u # t
      BY <1>6, <3>2 DEF KernelInv, CallInv
    <3> QED BY <3>1, <3>2
  <2> QED BY <1>8, <1>9, <2>1 DEF KernelInv, CallInv
<1>17. SliceInRange'
  BY <1>1, <1>4 DEF KernelInv, TypeOK, SliceInRange
<1> QED BY <1>5, <1>10, <1>11, <1>12, <1>13, <1>14, <1>15, <1>16, <1>17 DEF KernelInv, Lists

(* krhino_task_time_slice_set. *)
LEMMA SliceSetInv ==
  ASSUME KernelInv, NEW t \in Task, NEW slice \in Nat \ {0}, krhino_task_time_slice_set(t, slice)
  PROVE  KernelInv'
<1>1. /\ TaskCall("krhino_task_time_slice_set")
      /\ time_total' = [time_total EXCEPT ![t] = slice]
      /\ time_slice' = [time_slice EXCEPT ![t] = slice]
      /\ UNCHANGED <<schedVars, rq, tickVars, pendVars, prio, b_prio, suspend_count, mutex_list,
                     sched_policy, slice_due, callVars, objVars, chg, cs>>
  BY DEF krhino_task_time_slice_set
<1>2. cs.op = "none" /\ chg.task = None /\ task_state[active] = "K_RDY"
  BY <1>1, TaskContext
<1>3. Lists' /\ OwnerInv' /\ DeadInv' /\ NoLostGive'
  BY <1>1, Steady
<1>4. TypeOK'
  BY <1>1 DEF KernelInv, TypeOK
<1>5. NotOverdue'
  BY <1>1 DEF KernelInv, NotOverdue
<1>6. CsInv' /\ ActiveInv'
  BY <1>1, <1>2 DEF CsInv, ActiveInv
<1>7. CallInv'
  BY <1>1 DEF KernelInv, CallInv
<1>8. SliceInRange'
  <2>1. slice \in 1 .. slice
    OBVIOUS
  <2> QED BY <1>1, <2>1 DEF KernelInv, TypeOK, SliceInRange
<1> QED BY <1>3, <1>4, <1>5, <1>6, <1>7, <1>8 DEF KernelInv, Lists

(* krhino_sched_policy_set. *)
LEMMA PolicySetInv ==
  ASSUME KernelInv, NEW t \in Task, NEW policy \in {"KSCHED_FIFO", "KSCHED_RR"},
         krhino_sched_policy_set(t, policy)
  PROVE  KernelInv'
<1>1. /\ TaskCall("krhino_sched_policy_set")
      /\ sched_policy' = [sched_policy EXCEPT ![t] = policy]
      /\ UNCHANGED <<schedVars, rq, tickVars, pendVars, prio, b_prio, suspend_count, mutex_list,
                     time_slice, time_total, slice_due, callVars, objVars, chg, cs>>
  BY DEF krhino_sched_policy_set
<1>2. cs.op = "none" /\ chg.task = None /\ task_state[active] = "K_RDY"
  BY <1>1, TaskContext
<1>3. Lists' /\ OwnerInv' /\ DeadInv' /\ NoLostGive'
  BY <1>1, Steady
<1>4. TypeOK'
  BY <1>1 DEF KernelInv, TypeOK
<1>5. NotOverdue'
  BY <1>1 DEF KernelInv, NotOverdue
<1>6. CsInv' /\ ActiveInv'
  BY <1>1, <1>2 DEF CsInv, ActiveInv
<1>7. CallInv' /\ SliceInRange'
  BY <1>1 DEF KernelInv, CallInv, SliceInRange
<1> QED BY <1>3, <1>4, <1>5, <1>6, <1>7 DEF KernelInv, Lists

------------------------------------------------------------------------------
(* The kernel as a whole.                                                  *)

(* The empty list. *)
LEMMA EmptyList ==
  ASSUME NEW S, NEW key
  PROVE  <<>> \in Seq(S) /\ ToSet(<<>>) = {} /\ Linear(<<>>) /\ Sorted(<<>>, key)
<1>1. <<>> \in Seq(S) /\ Len(<<>>) = 0
  OBVIOUS
<1>2. ToSet(<<>>) = {}
  BY <1>1, EntrySet
<1>3. Linear(<<>>) /\ Sorted(<<>>, key)
  BY <1>1 DEF Linear, Sorted
<1> QED BY <1>1, <1>2, <1>3

(* The kernel starts with KernelInv. *)
LEMMA InitInv ==
  ASSUME Init
  PROVE  KernelInv
<1>1. /\ rq = [list |-> BootReady, highest_pri |-> find_first_bit(BootReady)]
      /\ active = preferred_cpu_ready_task_get(rq)
      /\ sched_lock = 0 /\ intrpt = 0
      /\ tick_list = <<>> /\ tick_remain = [t \in AllTask |-> 0]
      /\ task_state = [t \in AllTask |-> "K_RDY"]
      /\ prio = BasePrio /\ b_prio = BasePrio
      /\ blk_list = [o \in Obj |-> <<>>] /\ blk_obj = [t \in AllTask |-> None]
      /\ cs = CsNone /\ chg = NoChg /\ live = Obj
  BY DEF Init
<1>2. /\ BootReady \in [Prio -> Seq(AllTask)] /\ Idle \in AllTask
      /\ IdlePri \in Prio /\ BasePrio[Idle] = IdlePri /\ 0 \in Ticks
      /\ BasePrio \in [AllTask -> Prio]
  BY BootAssumption, NumberAssumption DEF AllTask, Prio, Ticks
<1>3. BootReady[IdlePri] # <<>>
  <2>1. Idle \in ToSet(BootReady[IdlePri])
    BY <1>2, BootAssumption
  <2>2. BootReady[IdlePri] \in Seq(AllTask)
    BY <1>2
  <2> QED BY <2>1, <2>2, EntrySet
<1>4. /\ rq.highest_pri \in Prio /\ BootReady[rq.highest_pri] # <<>>
      /\ \A p \in Prio : BootReady[p] # <<>> => rq.highest_pri <= p
  BY <1>1, <1>2, <1>3, FirstBit
<1>5. rq \in RqType /\ rq.list = BootReady
  BY <1>1, <1>2, <1>4 DEF RqType
<1>6. Queued(rq, task_state, prio)
  BY <1>1, <1>2, <1>4, <1>5, BootAssumption DEF Queued
<1>7. Waiting(blk_list, task_state, blk_obj, prio)
  <2>1. "K_RDY" \notin PendStates
    BY DEF PendStates
  <2>2. \A t \in Task : task_state[t] = "K_RDY"
    BY <1>1 DEF AllTask
  <2>3. ASSUME NEW o \in Obj
        PROVE  /\ ToSet(blk_list[o]) = {t \in Task : task_state[t] \in PendStates /\ blk_obj[t] = o}
               /\ Linear(blk_list[o]) /\ Sorted(blk_list[o], prio)
    BY <1>1, <2>1, <2>2, EmptyList
  <2> QED BY <1>1, <2>1, <2>3 DEF Waiting
<1>8. Timed(tick_list, tick_remain, task_state) /\ tick_list \in Seq(Task) /\ ToSet(tick_list) = {}
  <2>1. "K_RDY" \notin SleepStates
    BY DEF SleepStates
  <2>2. Linear(tick_list) /\ Sorted(tick_list, tick_remain) /\ ToSet(tick_list) = {}
        /\ tick_list \in Seq(Task)
    BY <1>1, EmptyList
  <2> QED BY <1>1, <2>1, <2>2 DEF Timed
<1>9. active \in AllTask
  <2>1. BootReady[rq.highest_pri] \in Seq(AllTask)
    BY <1>2, <1>4
  <2> QED BY <1>1, <1>4, <1>5, <2>1, FirstEntry DEF preferred_cpu_ready_task_get
<1>10. TypeOK
  <2>1. /\ 0 \in 0 .. SchedLockMax /\ 0 \in 0 .. IntrptMax /\ 0 \in 0 .. SuspendMax
        /\ 0 \in 0 .. NestMax /\ 0 \in 0 .. SemMax /\ "K_RDY" \in TaskStates
    BY Bounds DEF TaskStates
  <2>2. /\ <<>> \in Seq(Task) /\ <<>> \in Seq(Mutex)
    OBVIOUS
  <2>3. SliceTotal \in [AllTask -> Nat]
    BY NumberAssumption
  <2>4. rq \in [list : [Prio -> Seq(AllTask)], highest_pri : Prio]
    BY <1>5 DEF RqType
  <2>5. cs \in CsType /\ chg \in ChgType
    BY <1>1, Records
  <2> QED BY <1>1, <1>2, <1>9, <2>1, <2>2, <2>3, <2>4, <2>5 DEF Init, TypeOK
<1>11. NotOverdue
  BY <1>8 DEF NotOverdue
<1>12. DeadInv
  BY <1>1 DEF DeadInv
<1>13. OwnerInv
  <2>1. None \notin Task /\ \A m \in Mutex : mutex_task[m] = None
    BY TaskAssumption DEF Init, AllTask
  <2>2. \A m \in Mutex : blk_list[m] = <<>>
    BY <1>1 DEF Obj
  <2>3. \A t \in Task : mutex_list[t] = <<>>
    BY DEF Init, AllTask
  <2>4. \A t \in Task : Linear(mutex_list[t]) /\ ToSet(mutex_list[t]) = {}
    BY <2>3, EmptyList
  <2> QED BY <2>1, <2>2, <2>4 DEF OwnerInv
<1>14. CsInv
  BY <1>1, Records DEF CsInv
<1>15. ActiveInv
  BY <1>1, <1>9 DEF ActiveInv
<1>16. CallInv
  BY <1>1 DEF Init, CallInv, SuspendStates
<1>17. SliceInRange
  <2>1. ASSUME NEW t \in AllTask PROVE SliceTotal[t] \in 1 .. SliceTotal[t]
    BY NumberAssumption
  <2> QED BY <2>1 DEF Init, SliceInRange
<1>18. NoLostGive
  BY <1>1 DEF NoLostGive, Obj
<1> QED BY <1>6, <1>7, <1>8, <1>10, <1>11, <1>12, <1>13, <1>14, <1>15, <1>16, <1>17, <1>18
        DEF KernelInv

(* Every step keeps KernelInv. *)
LEMMA NextInv ==
  ASSUME KernelInv, NoDelAgain, Next
  PROVE  KernelInv'
<1>1. CASE SchedNext
  BY <1>1, SchedDisableInv, SchedEnableInv, CoreSchedInv, PendEndInv, IntrptEnterInv,
     IntrptExitInv, YieldInv, TickIntrptInv, TickSliceInv DEF SchedNext
<1>2. CASE TaskNext
  <2>1. /\ Targets \subseteq Task /\ Timeouts \subseteq Ticks /\ PriChoices \subseteq Prio
        /\ \A u \in Task : SliceTotal[u] \in Nat \ {0}
    BY TaskAssumption, NumberAssumption DEF Prio, AllTask
  <2>2. ASSUME NEW ticks \in Timeouts, krhino_task_sleep(ticks) PROVE KernelInv'
    BY <2>1, <2>2, SleepInv
  <2>3. ASSUME NEW t \in Targets,
               \/ task_suspend(t) \/ task_resume(t) \/ krhino_task_wait_abort(t)
               \/ krhino_task_del(t)
        PROVE  KernelInv'
    BY <2>1, <2>3, SuspendInv, ResumeInv, AbortInv, TaskDelInv
  <2>4. ASSUME NEW t \in Targets, NEW pri \in PriChoices, PriChangeCheck(t, pri) PROVE KernelInv'
    BY <2>1, <2>4, PriCheckInv
  <2>5. ASSUME NEW t \in Targets, NEW autorun \in BOOLEAN, krhino_task_create(t, autorun)
        PROVE  KernelInv'
    BY <2>1, <2>5, TaskCreateInv
  <2>6. ASSUME NEW t \in Targets, NEW u \in Task, krhino_task_time_slice_set(t, SliceTotal[u])
        PROVE  KernelInv'
    BY <2>1, <2>6, SliceSetInv
  <2>7. ASSUME NEW t \in Targets, NEW policy \in {"KSCHED_FIFO", "KSCHED_RR"},
               krhino_sched_policy_set(t, policy)
        PROVE  KernelInv'
    BY <2>1, <2>7, PolicySetInv
  <2> QED BY <1>2, <2>2, <2>3, <2>4, <2>5, <2>6, <2>7, PriChangeInv DEF TaskNext
<1>3. CASE MutexNext
  <2>1. Timeouts \subseteq Ticks
    BY NumberAssumption
  <2>2. ASSUME NEW m \in Mutex, NEW ticks \in Timeouts, krhino_mutex_lock(m, ticks)
        PROVE  KernelInv'
    <3>1. LockNested(m) \/ LockFree(m) \/ LockWait(m, ticks)
      BY <2>2 DEF krhino_mutex_lock
    <3> QED BY <2>1, <2>2, <3>1, LockNestedInv, LockFreeInv, LockWaitInv
  <2>3. ASSUME NEW m \in Mutex, krhino_mutex_unlock(m) PROVE KernelInv'
    <3>1. UnlockNested(m) \/ UnlockRelease(m)
      BY <2>3 DEF krhino_mutex_unlock
    <3> QED BY <2>3, <3>1, UnlockNestedInv, UnlockReleaseInv
  <2> QED BY <1>3, <2>2, <2>3, MutexCreateInv, MutexDelInv DEF MutexNext
<1>4. CASE SemNext
  <2>1. Timeouts \subseteq Ticks
    BY NumberAssumption
  <2>2. ASSUME NEW s \in Sem, NEW ticks \in Timeouts, krhino_sem_take(s, ticks) PROVE KernelInv'
    <3>1. TakeCount(s) \/ TakeWait(s, ticks)
      BY <2>2 DEF krhino_sem_take
    <3> QED BY <2>1, <2>2, <3>1, TakeCountInv, TakeWaitInv
  <2>3. ASSUME NEW s \in Sem, sem_give(s) PROVE KernelInv'
    BY <2>3, GiveCountInv, GiveOneInv, GiveAllInv DEF sem_give
  <2> QED BY <1>4, <2>2, <2>3, SemCreateInv, SemDelInv, CountSetInv DEF SemNext
<1>5. CASE CriticalNext
  BY <1>5, PriStepInv, TickSleepInv, TickTimeoutInv, TickEndInv, LockPendInv, UnlockFreeInv,
     UnlockHandoverInv, WakeNextInv, WakeEndInv, FreeToWaiterInv, FreeUnownedInv, DelTaskInv,
     ExitSchedInv DEF CriticalNext, tick_list_update
<1> QED BY <1>1, <1>2, <1>3, <1>4, <1>5 DEF Next

(* So does no step. *)
LEMMA StutterInv ==
  ASSUME KernelInv, UNCHANGED vars
  PROVE  KernelInv'
BY DEF vars, KernelInv, TypeOK, NotOverdue, DeadInv, OwnerInv, CsInv, ActiveInv, Quiet, CallInv,
       SliceInRange, NoLostGive

(* KernelInv is an invariant of the kernel: at every step of every kernel
   function, also inside its critical section, the lists, the owners and the
   active task are as KernelInv says. *)
THEOREM KernelSafe ==
  ASSUME NoDelAgain
  PROVE  Spec => []KernelInv
<1>1. Init => KernelInv
  BY InitInv
<1>2. KernelInv /\ [Next]_vars => KernelInv'
  BY NextInv, StutterInv
<1> QED BY <1>1, <1>2, PTL DEF Spec

(* The kernel's data keep their types: no counter (owner_nested,
   suspend_count, the semaphore count, g_sched_lock, the interrupt level)
   leaves its range. *)
THEOREM TypeCorrect ==
  ASSUME NoDelAgain
  PROVE  Spec => []TypeOK
<1>1. KernelInv => TypeOK
  BY DEF KernelInv
<1> QED BY <1>1, KernelSafe, PTL

(* Every task is linked exactly where its state says, and once. *)
THEOREM ListsIntact ==
  ASSUME NoDelAgain
  PROVE  Spec => []ListIntegrity
<1>1. ASSUME KernelInv PROVE ListIntegrity
  <2>1. Lists /\ None \notin Obj
    BY <1>1, InvLists, TaskAssumption
  <2>2. /\ Queued(rq, task_state, prio) /\ Waiting(blk_list, task_state, blk_obj, prio)
        /\ Timed(tick_list, tick_remain, task_state) /\ tick_list \in Seq(Task)
    BY <2>1 DEF Lists
  <2>3. \A t \in AllTask : Contains(tick_list, t) <=> t \in ToSet(tick_list)
    BY <2>2, EntrySet
  <2>4. \A t \in AllTask : task_state[t] \in PendStates => blk_obj[t] # None
    BY <2>1, <2>2 DEF Waiting
  <2>5. \A t \in AllTask :
          /\ Contains(tick_list, t) => task_state[t] \in PendStates \cup SleepStates
          /\ task_state[t] \in SleepStates => Contains(tick_list, t)
    BY <2>2, <2>3 DEF Timed
  <2>6. \A p \in Prio :
          /\ ToSet(rq.list[p]) = {t \in AllTask : task_state[t] = "K_RDY" /\ prio[t] = p}
          /\ Linear(rq.list[p])
    BY <2>2 DEF Queued
  <2>7. \A o \in Obj :
          /\ ToSet(blk_list[o]) = {t \in Task : task_state[t] \in PendStates /\ blk_obj[t] = o}
          /\ Linear(blk_list[o])
    BY <2>2 DEF Waiting
  <2> QED BY <2>2, <2>4, <2>5, <2>6, <2>7 DEF ListIntegrity, Timed
<1>2. KernelInv => ListIntegrity
  BY <1>1
<1> QED BY <1>2, KernelSafe, PTL

(* The cached highest_pri is the highest priority with a ready task. *)
THEOREM HighestPriCorrect ==
  ASSUME NoDelAgain
  PROVE  Spec => []HighestPri
<1>1. KernelInv => HighestPri
  BY DEF KernelInv, Queued, HighestPri
<1> QED BY <1>1, KernelSafe, PTL

(* Every wait list is in priority order. *)
THEOREM WaitersInOrder ==
  ASSUME NoDelAgain
  PROVE  Spec => []WaitOrder
<1>1. KernelInv => WaitOrder
  BY DEF KernelInv, Waiting, WaitOrder
<1> QED BY <1>1, KernelSafe, PTL

(* No wait outlives its timeout. *)
THEOREM TimeoutsKept ==
  ASSUME NoDelAgain
  PROVE  Spec => []TimeoutsServed
<1>1. KernelInv => TimeoutsServed
  BY DEF KernelInv, Timed, NotOverdue, TimeoutsServed
<1> QED BY <1>1, KernelSafe, PTL

(* mutex_task and the owners' lists agree whenever no critical section is
   under way; a mutex with waiters has an owner that exists. *)
THEOREM OwnersAgree ==
  ASSUME NoDelAgain
  PROVE  Spec => []Ownership
<1>1. ASSUME KernelInv, Quiet, NEW m \in Mutex \cap live
      PROVE  /\ mutex_task[m] = None => blk_list[m] = <<>>
             /\ mutex_task[m] # None => /\ task_state[mutex_task[m]] # "K_DELETED"
                                        /\ owner_nested[m] > 0
             /\ \A t \in Task : task_state[t] # "K_DELETED" =>
                  (Contains(mutex_list[t], m) <=> mutex_task[m] = t)
  <2>1. cs.op \notin {"handover", "free"}
    BY <1>1 DEF Quiet
  <2>2. mutex_task[m] \in Task \cup {None} /\ None \notin Task
    BY <1>1, TaskAssumption DEF KernelInv, TypeOK, AllTask
  <2>3. ASSUME NEW t \in Task, task_state[t] # "K_DELETED"
        PROVE  Contains(mutex_list[t], m) <=> mutex_task[m] = t
    <3>1. Contains(mutex_list[t], m) <=> m \in ToSet(mutex_list[t])
      BY <1>1, HeldMutexes, EntrySet
    <3> QED BY <1>1, <2>1, <2>3, <3>1, Settled
  <2> QED BY <1>1, <2>1, <2>2, <2>3, Settled
<1>2. KernelInv => Ownership
  BY <1>1 DEF Ownership
<1> QED BY <1>2, KernelSafe, PTL

(* A semaphore with units left has no waiter. *)
THEOREM NoGiveLost ==
  ASSUME NoDelAgain
  PROVE  Spec => []NoLostGive
<1>1. KernelInv => NoLostGive
  BY DEF KernelInv
<1> QED BY <1>1, KernelSafe, PTL

(* The time slice of every task stays between 1 and its total. *)
THEOREM SlicesInRange ==
  ASSUME NoDelAgain
  PROVE  Spec => []SliceInRange
<1>1. KernelInv => SliceInRange
  BY DEF KernelInv
<1> QED BY <1>1, KernelSafe, PTL

------------------------------------------------------------------------------
(* A mutex changes hands only in these steps. *)
LEMMA HandsChange ==
  ASSUME KernelInv, Next, NEW m \in Mutex, mutex_task[m] \in Task,
         mutex_task'[m] # mutex_task[m]
  PROVE  \/ cs.op = "handover" /\ cs.obj = m /\ mutex_task[m] = active
         \/ cs.op = "free" /\ cs.task = mutex_task[m]
         \/ m \notin live
<1>1. /\ mutex_task \in [Mutex -> Task \cup {None}] /\ None \notin Task
  BY TaskAssumption DEF KernelInv, TypeOK, AllTask
<1>2. ~SchedNext
  BY DEF SchedNext, krhino_sched_disable, krhino_sched_enable, core_sched, pend_state_end_proc,
         krhino_intrpt_enter, krhino_intrpt_exit, krhino_task_yield, TickIntrpt, TickSlice
<1>3. ~TaskNext
  BY DEF TaskNext, krhino_task_sleep, task_suspend, task_resume, PriChangeCheck,
         krhino_task_wait_abort, krhino_task_del, krhino_task_create,
         krhino_task_time_slice_set, krhino_sched_policy_set, krhino_task_pri_change
<1>4. ~SemNext
  BY DEF SemNext, krhino_sem_create, krhino_sem_del, sem_give, GiveCount, GiveOne, GiveAll,
         krhino_sem_take, krhino_sem_count_set
<1>5. CASE MutexNext
  <2>1. ASSUME NEW n \in Mutex, krhino_mutex_create(n) PROVE m \notin live
    BY <1>1, <2>1 DEF krhino_mutex_create
  <2>2. ASSUME NEW n \in Mutex, krhino_mutex_del(n) \/ krhino_mutex_unlock(n) PROVE FALSE
    BY <2>2 DEF krhino_mutex_del, krhino_mutex_unlock
  <2>3. ASSUME NEW n \in Mutex, NEW ticks \in Timeouts, krhino_mutex_lock(n, ticks) PROVE FALSE
    BY <1>1, <2>3 DEF krhino_mutex_lock, LockNested, LockFree, LockWait
  <2> QED BY <1>5, <2>1, <2>2, <2>3 DEF MutexNext
<1>6. CASE CriticalNext
  <2>1. CASE task_pri_change
    BY <2>1 DEF task_pri_change
  <2>2. CASE tick_list_update
    BY <2>2 DEF tick_list_update, TickSleep, TickTimeout, TickEnd
  <2>3. CASE LockPend \/ WakeNext \/ WakeEnd \/ ExitSched \/ DelTask
    BY <2>3 DEF LockPend, WakeNext, WakeEnd, ExitSched, DelTask
  <2>4. CASE UnlockFree \/ UnlockHandover
    <3>1. cs.op = "handover" /\ cs.obj \in Mutex /\ mutex_task[cs.obj] = active
      BY <2>4 DEF UnlockFree, UnlockHandover, KernelInv, CsInv
    <3>2. m = cs.obj
      BY <1>1, <2>4, <3>1 DEF UnlockFree, UnlockHandover
    <3> QED BY <3>1, <3>2
  <2>5. CASE FreeToWaiter \/ FreeUnowned
    <3>1. cs.op = "free" /\ cs.list # <<>>
      BY <2>5 DEF FreeToWaiter, FreeUnowned
    <3>2. Head(cs.list) \in Mutex /\ mutex_task[Head(cs.list)] = cs.task
      BY <3>1, FreeContext, FirstEntry
    <3>3. m = Head(cs.list)
      BY <1>1, <2>5, <3>2 DEF FreeToWaiter, FreeUnowned
    <3> QED BY <3>1, <3>2, <3>3
  <2> QED BY <1>6, <2>1, <2>2, <2>3, <2>4, <2>5 DEF CriticalNext
<1> QED BY <1>2, <1>3, <1>4, <1>5, <1>6 DEF Next

(* mutex must be released by itself: a mutex leaves its owner only by the
   owner's unlock, or when the owner or the mutex is deleted. *)
THEOREM OwnerReleases ==
  ASSUME NoDelAgain
  PROVE  Spec => ReleasedByOwner
<1> DEFINE Step == \A m \in Mutex :
             mutex_task[m] \in Task /\ mutex_task'[m] # mutex_task[m] =>
               \/ cs.op = "handover" /\ cs.obj = m /\ mutex_task[m] = active
               \/ cs.op = "free" /\ cs.task = mutex_task[m]
               \/ m \notin live
<1>1. KernelInv /\ [Next]_vars => [Step]_vars
  BY HandsChange
<1>2. ReleasedByOwner <=> [][Step]_vars
  BY DEF ReleasedByOwner
<1> QED BY <1>1, <1>2, KernelSafe, PTL DEF Spec

==============================================================================
