----------------------------- MODULE RhinoKernel -----------------------------
(***************************************************************************)
(* The kernel: scheduler, tasks, mutexes and semaphores together, called   *)
(* by the tasks and interrupt handlers of an arbitrary application.        *)
(***************************************************************************)
EXTENDS RhinoSched, RhinoTask, RhinoMutex, RhinoSem

(* krhino_start has run: every task is created and the first one is active.
   The objects are created, the semaphores with a count of zero. *)
Init ==
  /\ rq = [list |-> BootReady, highest_pri |-> find_first_bit(BootReady)]
  /\ active = preferred_cpu_ready_task_get(rq)
  /\ sched_lock = 0
  /\ intrpt = 0
  /\ tick_list = <<>>
  /\ tick_remain = [t \in AllTask |-> 0]
  /\ task_state = [t \in AllTask |-> "K_RDY"]
  /\ prio = BasePrio
  /\ b_prio = BasePrio
  /\ suspend_count = [t \in AllTask |-> 0]
  /\ blk_obj = [t \in AllTask |-> None]
  /\ blk_state = [t \in AllTask |-> "BLK_FINISH"]
  /\ mutex_list = [t \in AllTask |-> <<>>]
  /\ time_slice = SliceTotal
  /\ time_total = SliceTotal
  /\ sched_policy = [t \in AllTask |-> IF t \in RRTasks THEN "KSCHED_RR"
                                       ELSE "KSCHED_FIFO"]
  /\ slice_due = {}
  /\ pc = [t \in AllTask |-> "user"]
  /\ arg = [t \in AllTask |-> None]
  /\ live = Obj
  /\ blk_list = [o \in Obj |-> <<>>]
  /\ mutex_task = [m \in Mutex |-> None]
  /\ owner_nested = [m \in Mutex |-> 0]
  /\ count = [s \in Sem |-> 0]
  /\ chg = NoChg
  /\ cs = CsNone

SchedNext ==
  \/ krhino_sched_disable \/ krhino_sched_enable
  \/ core_sched \/ pend_state_end_proc
  \/ krhino_intrpt_enter \/ krhino_intrpt_exit
  \/ krhino_task_yield \/ TickIntrpt \/ TickSlice

TaskNext ==
  \/ \E ticks \in Timeouts \ {WaitForever} : krhino_task_sleep(ticks)
  \/ \E t \in Targets :
       \/ task_suspend(t) \/ task_resume(t)
       \/ \E pri \in PriChoices : PriChangeCheck(t, pri)
       \/ krhino_task_wait_abort(t)
       \/ krhino_task_del(t)
       \/ \E autorun \in BOOLEAN : krhino_task_create(t, autorun)
       \/ \E u \in Task : krhino_task_time_slice_set(t, SliceTotal[u])
       \/ \E policy \in {"KSCHED_FIFO", "KSCHED_RR"} :
            krhino_sched_policy_set(t, policy)
  \/ krhino_task_pri_change

MutexNext ==
  \E m \in Mutex : \/ krhino_mutex_create(m) \/ krhino_mutex_del(m)
                   \/ \E ticks \in Timeouts : krhino_mutex_lock(m, ticks)
                   \/ krhino_mutex_unlock(m)

SemNext ==
  \E s \in Sem : \/ \E n \in SemChoices : krhino_sem_create(s, n)
                 \/ krhino_sem_del(s)
                 \/ sem_give(s)
                 \/ \E ticks \in Timeouts : krhino_sem_take(s, ticks)
                 \/ \E n \in SemChoices : krhino_sem_count_set(s, n)

(* The steps of a critical section that has been entered. *)
CriticalNext ==
  \/ task_pri_change
  \/ tick_list_update
  \/ LockPend \/ UnlockFree \/ UnlockHandover
  \/ WakeNext \/ WakeEnd
  \/ FreeToWaiter \/ FreeUnowned \/ DelTask
  \/ ExitSched

Next == SchedNext \/ TaskNext \/ MutexNext \/ SemNext \/ CriticalNext

Spec == Init /\ [][Next]_vars

(* A critical section runs to its end (interrupts are off), handlers return,
   core_sched is reached, and the tick interrupt comes again and again. *)
Fairness ==
  /\ WF_vars(CriticalNext)
  /\ SF_vars(TickSlice)
  /\ SF_vars(krhino_intrpt_exit)
  /\ SF_vars(TickIntrpt)
  /\ WF_vars(core_sched)

FairSpec == Spec /\ Fairness

------------------------------------------------------------------------------
(* Correctness. *)

ChgType == [task : Task \cup {None}, pri : Prio]
CsType  == [op : CsOps, obj : Obj \cup {None}, task : Task \cup {None},
            ticks : Ticks, why : {"BLK_FINISH", "BLK_DEL"}, list : Seq(Mutex)]

(* Type correctness of the kernel's data (ktask_t, kmutex_t, ksem_t, the run
   queue and the tick list). *)
TypeOK ==
  /\ active \in AllTask
  /\ sched_lock \in 0 .. SchedLockMax
  /\ intrpt \in 0 .. IntrptMax
  /\ rq \in [list : [Prio -> Seq(AllTask)], highest_pri : Prio]
  /\ tick_list \in Seq(Task)
  /\ tick_remain \in [AllTask -> Ticks]
  /\ task_state \in [AllTask -> TaskStates]
  /\ prio \in [AllTask -> Prio]
  /\ b_prio \in [AllTask -> Prio]
  /\ suspend_count \in [AllTask -> 0 .. SuspendMax]
  /\ blk_obj \in [AllTask -> Obj \cup {None}]
  /\ blk_state \in [AllTask -> {"BLK_FINISH", "BLK_ABORT", "BLK_TIMEOUT", "BLK_DEL"}]
  /\ mutex_list \in [AllTask -> Seq(Mutex)]
  /\ time_slice \in [AllTask -> Nat]
  /\ time_total \in [AllTask -> Nat]
  /\ sched_policy \in [AllTask -> {"KSCHED_FIFO", "KSCHED_RR"}]
  /\ slice_due \subseteq 1 .. IntrptMax
  /\ pc \in [AllTask -> {"user", "sched", "sched_pend", "pend", "pri_change"}]
  /\ arg \in [AllTask -> Obj \cup {None} \cup [task : Task, pri : Prio]]
  /\ live \subseteq Obj
  /\ blk_list \in [Obj -> Seq(Task)]
  /\ mutex_task \in [Mutex -> Task \cup {None}]
  /\ owner_nested \in [Mutex -> 0 .. NestMax]
  /\ count \in [Sem -> 0 .. SemMax]
  /\ chg \in ChgType
  /\ cs \in CsType

(* A task is linked exactly where its state says, and once: on the run queue
   list of its priority when K_RDY, on the wait list of the object it is
   blocked on when it is pending, on the tick list only while it waits or
   sleeps.  This is what makes every klist_rm of the kernel (and the default
   cases of pend_task_wakeup and tick_list_update) sound. *)
ListIntegrity ==
  /\ \A p \in Prio :
       /\ ToSet(rq.list[p]) = {t \in AllTask : task_state[t] = "K_RDY" /\ prio[t] = p}
       /\ Linear(rq.list[p])
  /\ \A o \in Obj :
       /\ ToSet(blk_list[o]) =
            {t \in Task : task_state[t] \in PendStates /\ blk_obj[t] = o}
       /\ Linear(blk_list[o])
  /\ \A t \in AllTask : task_state[t] \in PendStates => blk_obj[t] # None
  /\ Linear(tick_list)
  /\ \A t \in AllTask :
       /\ Contains(tick_list, t) => task_state[t] \in PendStates \cup SleepStates
       /\ task_state[t] \in SleepStates => Contains(tick_list, t)

(* The cached highest_pri of the run queue is the highest priority with a
   ready task, although ready_list_add and ready_list_rm look at the bitmap
   only in some of their cases. *)
HighestPri ==
  /\ rq.list[rq.highest_pri] # <<>>
  /\ \A p \in Prio : rq.list[p] # <<>> => rq.highest_pri <= p

(* Every wait list is in priority order, also after inherited priorities have
   changed the priority of waiters along a chain of mutexes. *)
WaitOrder == \A o \in Obj : Sorted(blk_list[o], prio)

(* No wait outlives its timeout: outside the tick handler every task on the
   tick list has ticks left, and the list is in the order of the deadlines, on
   which tick_list_update relies when it stops at the first that is not due. *)
TimeoutsServed ==
  /\ Sorted(tick_list, tick_remain)
  /\ cs.op # "tick" => \A t \in ToSet(tick_list) : tick_remain[t] > 0

(* Whenever task code runs with scheduling enabled, the first ready task of
   the highest priority is the one that runs: no kernel function returns
   without the scheduling point it needs. *)
PreferredRuns ==
  Quiet /\ intrpt = 0 /\ sched_lock = 0 /\ pc[active] \notin {"sched", "sched_pend"}
     => active = preferred_cpu_ready_task_get(rq)

(* Priority inheritance: a task runs at the higher of its own base priority
   and the priorities of the tasks waiting for the mutexes it holds, no lower
   (no inversion) and no higher (the boost ends with its cause). *)
Inheritance ==
  Quiet => \A t \in AllTask : task_state[t] # "K_DELETED" =>
             prio[t] = mutex_pri_limit(b_prio[t], mutex_list[t], blk_list, prio)

(* mutex_task and the owners' mutex_list agree; a mutex with waiters has an
   owner, and the owner exists. *)
Ownership ==
  Quiet => \A m \in Mutex \cap live :
    /\ mutex_task[m] = None => blk_list[m] = <<>>
    /\ mutex_task[m] # None => /\ task_state[mutex_task[m]] # "K_DELETED"
                               /\ owner_nested[m] > 0
    /\ \A t \in Task : task_state[t] # "K_DELETED" =>
         (Contains(mutex_list[t], m) <=> mutex_task[m] = t)

(* A semaphore with units left has no waiter: no give is lost. *)
NoLostGive == \A s \in Sem : count[s] > 0 => blk_list[s] = <<>>

(* What a blocking call is about to report is what happened: a task whose
   krhino_mutex_lock will return RHINO_SUCCESS owns the mutex, and one that
   will report a timeout, an abort or a deletion does not. *)
LockOutcome ==
  Quiet => \A t \in Task :
    pc[t] \in {"sched_pend", "pend"} /\ arg[t] \in Mutex \cap live
      /\ task_state[t] \notin PendStates \cup {"K_DELETED"}
    => (blk_state[t] = "BLK_FINISH" <=> mutex_task[arg[t]] = t)

(* mutex must be released by itself (krhino_mutex_unlock): a mutex leaves its
   owner only by the owner's unlock, or when the owner or the mutex is
   deleted. *)
ReleasedByOwner ==
  [][\A m \in Mutex :
       mutex_task[m] \in Task /\ mutex_task'[m] # mutex_task[m] =>
         \/ cs.op = "handover" /\ cs.obj = m /\ mutex_task[m] = active
         \/ cs.op = "free" /\ cs.task = mutex_task[m]
         \/ m \notin live]_vars

(* "if the same task get the same mutex again, it causes mutex owner nested"
   (krhino_mutex_lock): owner_nested counts the locks of the present owner.  A task
   that was handed the mutex while it waited has locked it once, so that its first
   unlock releases it, whether the mutex came from an unlock or from the deletion
   of the owner before it. *)
HandedOverOnce ==
  Quiet => \A t \in Task :
    pc[t] \in {"sched_pend", "pend"} /\ arg[t] \in Mutex \cap live
      /\ task_state[t] # "K_DELETED" /\ mutex_task[arg[t]] = t
    => owner_nested[arg[t]] = 1

(* The time slice a task has left is positive and no more than its total:
   it is restored in the step that uses it up. *)
SliceInRange == \A t \in AllTask : time_slice[t] \in 1 .. time_total[t]

(* Every timed wait and every sleep ends: no task stays on the tick list. *)
TimedWaitEnds ==
  \A t \in Task : []<>(~Contains(tick_list, t))

(* Every critical section ends: in particular task_pri_change terminates on
   every chain of owners, also when waits that time out have closed a cycle. *)
CriticalSectionEnds == []<>Quiet

(* Round robin: a task that stays ready while no task of higher priority is
   ready runs again and again, whatever its peers do, once their policies are
   KSCHED_RR for good. *)
RoundRobin ==
  \A t \in Task :
    <>[](/\ task_state[t] = "K_RDY" /\ prio[t] = rq.highest_pri
         /\ \A u \in Task : sched_policy[u] = "KSCHED_RR")
      => []<>(active = t)

------------------------------------------------------------------------------
(* The inductive invariant behind the safety properties above, for programs
   that delete no task twice. *)

NoDelAgain == \A t \in Task : "krhino_task_del again" \notin TaskCalls[t]

(* The run queue q holds the tasks that are ready in st, by their priority pr,
   and knows the highest priority among them. *)
Queued(q, st, pr) ==
  /\ \A p \in Prio :
       /\ ToSet(q.list[p]) = {t \in AllTask : st[t] = "K_RDY" /\ pr[t] = p}
       /\ Linear(q.list[p])
  /\ q.list[q.highest_pri] # <<>>
  /\ \A p \in Prio : q.list[p] # <<>> => q.highest_pri <= p
  /\ st[Idle] = "K_RDY"

(* The wait lists bl hold the tasks that are pending in st on the object bo
   says, in the order of their priorities pr. *)
Waiting(bl, st, bo, pr) ==
  /\ \A o \in Obj :
       /\ ToSet(bl[o]) = {t \in Task : st[t] \in PendStates /\ bo[t] = o}
       /\ Linear(bl[o])
       /\ Sorted(bl[o], pr)
  /\ \A t \in AllTask : st[t] \in PendStates => bo[t] \in Obj

(* The tick list tl holds the sleeping tasks and some of the pending ones, in
   the order of the ticks tr they have left. *)
Timed(tl, tr, st) ==
  /\ Linear(tl)
  /\ Sorted(tl, tr)
  /\ \A t \in ToSet(tl) : st[t] \in PendStates \cup SleepStates
  /\ \A t \in AllTask : st[t] \in SleepStates => t \in ToSet(tl)

(* Outside the tick handler nobody on the tick list is overdue. *)
NotOverdue == cs.op # "tick" => \A t \in ToSet(tick_list) : tick_remain[t] > 0

(* The waiters of a deleted object are woken before anything else happens. *)
DeadInv ==
  \A o \in Obj \ live : blk_list[o] = <<>> \/ (cs.op = "wake" /\ cs.obj = o)

(* Who holds what, also in the middle of an unlock or a deletion. *)
OwnerInv ==
  /\ \A m \in Mutex \cap live :
       /\ blk_list[m] # <<>> => mutex_task[m] \in Task
       /\ mutex_task[m] \in Task =>
            /\ task_state[mutex_task[m]] # "K_DELETED"
            /\ mutex_task[m] \notin ToSet(blk_list[m])
            /\ \/ /\ m \in ToSet(mutex_list[mutex_task[m]])
                  /\ owner_nested[m] > 0
               \/ cs.op = "handover" /\ cs.obj = m
  /\ \A t \in Task :
       /\ Linear(mutex_list[t])
       /\ task_state[t] # "K_DELETED" /\ ~(cs.op = "free" /\ cs.task = t) =>
            \A m \in ToSet(mutex_list[t]) : m \in live /\ mutex_task[m] = t

(* What the rest of a critical section relies on. *)
CsInv ==
  /\ chg.task # None => /\ cs.op \notin {"none", "free"}
                        /\ task_state[chg.task] = "K_DELETED" => cs.op = "exit"
  /\ cs.op = "tick" => intrpt > 0
  /\ cs.op \in {"pend", "handover", "free", "exit"} => intrpt = 0 /\ active \in Task
  /\ cs.op \in {"pend", "handover", "free"} \/ (chg.task # None /\ intrpt = 0)
       => task_state[active] = "K_RDY"
  /\ cs.op = "pend" => /\ cs.ticks # 0
                       /\ sched_lock = 0
                       /\ cs.obj \in Mutex \cap live
                       /\ mutex_task[cs.obj] \in Task \ {active}
  /\ cs.op = "handover" => /\ cs.obj \in Mutex \cap live
                           /\ mutex_task[cs.obj] = active
                           /\ cs.obj \notin ToSet(mutex_list[active])
  /\ cs.op = "wake" => cs.obj \in Obj
  /\ cs.op = "free" =>
       /\ cs.task \in Task
       /\ task_state[cs.task] # "K_DELETED"
       /\ cs.task = active => sched_lock = 0
       /\ Linear(cs.list)
       /\ \A m \in Mutex : (m \in live /\ mutex_task[m] = cs.task) <=> m \in ToSet(cs.list)

(* The task that runs is ready, unless it is on its way to core_sched or an
   interrupt handler has just blocked it; and then the scheduler is not locked. *)
ActiveInv ==
  /\ Quiet /\ intrpt = 0 /\ pc[active] \notin {"sched", "sched_pend"}
       => task_state[active] = "K_RDY"
  /\ task_state[active] # "K_RDY" => sched_lock = 0

CallInv ==
  /\ \A t \in AllTask : pc[t] = "pri_change" => arg[t] \in [task : Task, pri : Prio]
  /\ \A t \in AllTask : task_state[t] \in SuspendStates => suspend_count[t] > 0

KernelInv ==
  /\ TypeOK
  /\ Queued(rq, task_state, prio)
  /\ Waiting(blk_list, task_state, blk_obj, prio)
  /\ Timed(tick_list, tick_remain, task_state)
  /\ NotOverdue
  /\ DeadInv
  /\ OwnerInv
  /\ CsInv
  /\ ActiveInv
  /\ CallInv
  /\ SliceInRange
  /\ NoLostGive

(* p is the higher of base and the priorities pr of the tasks in L. *)
IsLimit(p, base, L, pr) ==
  /\ p <= base
  /\ \A u \in L : p <= pr[u]
  /\ p = base \/ \E u \in L : p = pr[u]

(* The tasks that lend their priority to t: those that wait for a mutex on its
   list, and the caller of krhino_mutex_lock that is about to wait for one. *)
Lenders(t) ==
  {u \in Task : \/ \E m \in ToSet(mutex_list[t]) : u \in ToSet(blk_list[m])
                \/ cs.op = "pend" /\ u = active /\ mutex_task[cs.obj] = t}

(* The priority of t, once the change under way has been made. *)
NextPrio(t) == IF chg.task = t THEN chg.pri ELSE prio[t]

(* A task whose mutexes are being passed on, or that is gone, is left as it is. *)
Bound(t) == task_state[t] # "K_DELETED" /\ ~(cs.op = "free" /\ cs.task = t)

(* Inheritance, also while task_pri_change walks along the owners: everybody but
   the task it has come to has the right priority, and that one is about to. *)
InheritInv ==
  /\ \A t \in AllTask : Bound(t) => IsLimit(NextPrio(t), b_prio[t], Lenders(t), prio)
  /\ mutex_list[Idle] = <<>>
  /\ cs.op = "pend" /\ chg.task # None
       => chg.pri = prio[active] /\ chg.pri < prio[chg.task]
  /\ cs.op = "handover" /\ chg.task # None
       => chg.task = active /\ blk_list[cs.obj] # <<>>
  /\ cs.op = "wake" => cs.obj \notin Mutex \cap live

(* The first ready task runs also in those critical sections that end without a
   scheduling point. *)
ChangesDeleted == chg.task # None /\ task_state[chg.task] = "K_DELETED"

SchedInv ==
  /\ ChangesDeleted => pc[active] = "pri_change"
  /\ ( /\ intrpt = 0 /\ sched_lock = 0 /\ pc[active] \notin {"sched", "sched_pend"}
       /\ Quiet \/ ChangesDeleted \/ (cs.op = "handover" /\ blk_list[cs.obj] = <<>>) )
     => active = preferred_cpu_ready_task_get(rq)

(* What a call on a mutex has come to: the caller waits for that mutex, or its
   blk_state says whether it got it. *)
InLock(t) == pc[t] \in {"sched_pend", "pend"} /\ arg[t] \in Mutex

OutcomeInv ==
  /\ \A t \in Task : pc[t] \in {"user", "sched"} => arg[t] = None
  /\ \A t \in Task : InLock(t) /\ task_state[t] # "K_DELETED" =>
       /\ task_state[t] \notin SleepStates
       /\ task_state[t] \in PendStates => blk_obj[t] = arg[t]
       /\ task_state[t] \notin PendStates /\ arg[t] \in live /\ Bound(t)
            => (blk_state[t] = "BLK_FINISH" <=> mutex_task[arg[t]] = t)
  /\ cs.op \in {"pend", "handover", "wake"} /\ intrpt = 0 => pc[active] = "user"

==============================================================================
