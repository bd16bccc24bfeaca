-------------------------- MODULE RhinoInheritProofs -------------------------
(***************************************************************************)
(* Priority inheritance is exact, the first ready task runs, and a lock    *)
(* ends as it says: InheritInv, SchedInv and OutcomeInv, each together     *)
(* with KernelInv.                                                         *)
(***************************************************************************)
EXTENDS RhinoKernelProofs

USE DEF schedVars, tickVars, pendVars, sliceVars, callVars, objVars

(* The first waiter has the highest priority of a wait list. *)
LEMMA HeadLeads ==
  ASSUME NEW s \in Seq(Task), NEW pr, Sorted(s, pr), s # <<>>
  PROVE  Head(s) \in ToSet(s) /\ \A u \in ToSet(s) : pr[Head(s)] <= pr[u]
<1>1. Len(s) \in Nat /\ DOMAIN s = 1 .. Len(s) /\ Len(s) >= 1
  BY LenProperties, EmptySeq
<1>2. Head(s) = s[1] /\ 1 \in 1 .. Len(s)
  BY <1>1, HeadTailProperties
<1>3. ASSUME NEW i \in 1 .. Len(s) PROVE pr[s[1]] <= pr[s[i]]
  BY <1>1, <1>2 DEF Sorted
<1>4. Head(s) \in ToSet(s)
  BY FirstEntry
<1> QED BY <1>1, <1>2, <1>3, <1>4 DEF ToSet

(* mutex_pri_limit looks at the first waiters only; as the wait lists are in
   order, it finds the limit set by all of them. *)
LEMMA LimitIs ==
  ASSUME NEW pri \in Prio, NEW ml \in Seq(Mutex), NEW bl \in [Obj -> Seq(Task)],
         NEW pr \in [AllTask -> Prio], \A m \in ToSet(ml) : Sorted(bl[m], pr),
         NEW L, L = {u \in Task : \E m \in ToSet(ml) : u \in ToSet(bl[m])}
  PROVE  IsLimit(mutex_pri_limit(pri, ml, bl, pr), pri, L, pr)
<1> DEFINE S == {pri} \cup {pr[Head(bl[m])] : m \in {x \in ToSet(ml) : bl[x] # <<>>}}
           p == mutex_pri_limit(pri, ml, bl, pr)
<1>1. ASSUME NEW m \in ToSet(ml)
      PROVE  /\ bl[m] \in Seq(Task)
             /\ bl[m] # <<>> => /\ Head(bl[m]) \in Task /\ Head(bl[m]) \in L
                                /\ \A u \in ToSet(bl[m]) : pr[Head(bl[m])] <= pr[u]
             /\ bl[m] = <<>> => ToSet(bl[m]) = {}
  <2>1. m \in Mutex /\ Sorted(bl[m], pr)
    BY EntrySet
  <2>2. bl[m] \in Seq(Task)
    BY <2>1 DEF Obj
  <2>3. ASSUME bl[m] # <<>>
        PROVE  Head(bl[m]) \in Task /\ Head(bl[m]) \in ToSet(bl[m])
               /\ \A u \in ToSet(bl[m]) : pr[Head(bl[m])] <= pr[u]
    BY <2>1, <2>2, <2>3, FirstEntry, HeadLeads
  <2> QED BY <2>2, <2>3, EntrySet
<1>2. S \in SUBSET Prio /\ S # {} /\ pri \in S
  BY <1>1 DEF AllTask
<1>3. S \in SUBSET Nat
  BY <1>2, Bounds
<1>4. p \in S /\ \A r \in S : p <= r
  <2>1. \E q \in S : \A r \in S : q <= r
    BY <1>2, <1>3, LeastNat
  <2> QED BY <2>1 DEF mutex_pri_limit
<1> HIDE DEF p
<1>5. p <= pri
  BY <1>2, <1>4
<1>6. ASSUME NEW u \in L PROVE p <= pr[u]
  <2>1. PICK m \in ToSet(ml) : u \in ToSet(bl[m]) /\ u \in Task
    OBVIOUS
  <2>2. bl[m] # <<>>
    BY <1>1, <2>1
  <2>3. pr[Head(bl[m])] \in S /\ pr[Head(bl[m])] <= pr[u]
    BY <1>1, <2>1, <2>2
  <2>4. pr[u] \in Nat /\ pr[Head(bl[m])] \in Nat /\ p \in Nat
    BY <1>3, <1>4, <2>1, <2>3, Bounds DEF AllTask
  <2> QED BY <1>4, <2>3, <2>4
<1>7. p = pri \/ \E u \in L : p = pr[u]
  BY <1>1, <1>4
<1> QED BY <1>5, <1>6, <1>7 DEF IsLimit, p

(* There is one limit. *)
LEMMA LimitUnique ==
  ASSUME NEW p, NEW q, NEW base \in Prio, NEW L, NEW pr, \A u \in L : pr[u] \in Prio,
         IsLimit(p, base, L, pr), IsLimit(q, base, L, pr)
  PROVE  p = q
<1>1. p \in Nat /\ q \in Nat
  BY Bounds DEF IsLimit
<1> QED BY <1>1 DEF IsLimit

(* What the mutexes of a task that is not being deleted are. *)
LEMMA HeldLive ==
  ASSUME KernelInv, mutex_list[Idle] = <<>>, NEW t \in AllTask, Bound(t)
  PROVE  /\ mutex_list[t] \in Seq(Mutex) /\ b_prio[t] \in Prio
         /\ \A m \in ToSet(mutex_list[t]) :
              /\ t \in Task /\ m \in Mutex \cap live /\ mutex_task[m] = t
              /\ blk_list[m] \in Seq(Task) /\ Sorted(blk_list[m], prio)
              /\ t \notin ToSet(blk_list[m])
<1>1. mutex_list[t] \in Seq(Mutex) /\ b_prio[t] \in Prio
  BY DEF KernelInv, TypeOK
<1>2. ToSet(mutex_list[t]) \subseteq Mutex
  BY <1>1, EntrySet
<1>3. CASE t = Idle
  BY <1>1, <1>3, EntrySet
<1>4. CASE t \in Task
  <2>1. \A m \in ToSet(mutex_list[t]) : m \in live /\ mutex_task[m] = t
    BY <1>4 DEF KernelInv, OwnerInv, Bound
  <2>2. \A m \in Mutex : blk_list[m] \in Seq(Task) /\ Sorted(blk_list[m], prio)
    BY DEF KernelInv, TypeOK, Waiting, Obj
  <2>3. \A m \in ToSet(mutex_list[t]) : t \notin ToSet(blk_list[m])
    BY <1>2, <1>4, <2>1 DEF KernelInv, OwnerInv
  <2> QED BY <1>1, <1>2, <1>4, <2>1, <2>2, <2>3
<1> QED BY <1>1, <1>3, <1>4 DEF AllTask

------------------------------------------------------------------------------
(* Steps that lend nothing and give nothing back. *)

(* The waiters for the mutexes of t. *)
Waiters(t) == {u \in Task : \E m \in ToSet(mutex_list[t]) : u \in ToSet(blk_list[m])}

(* Except while a task is about to wait, those who lend their priority are those who
   wait. *)
LEMMA LendersWait ==
  ASSUME cs.op # "pend", NEW t
  PROVE  Lenders(t) = Waiters(t)
BY DEF Lenders, Waiters

(* No priority changes, and the waiters for the mutexes of every task stay. *)
LEMMA InheritKeep ==
  ASSUME InheritInv, cs.op # "pend", cs'.op # "pend",
         cs'.op = "wake" => cs'.obj \notin Mutex \cap live',
         chg.task = None, chg'.task = None, prio' = prio, b_prio' = b_prio,
         mutex_list'[Idle] = <<>>,
         \A t \in AllTask : Bound(t)' => Bound(t) /\ Waiters(t)' = Waiters(t)
  PROVE  InheritInv'
<1>1. ASSUME NEW t \in AllTask, Bound(t)'
      PROVE  IsLimit(NextPrio(t)', b_prio'[t], Lenders(t)', prio')
  <2>1. Bound(t) /\ Waiters(t)' = Waiters(t) /\ Lenders(t) = Waiters(t) /\ Lenders(t)' = Waiters(t)'
    BY <1>1, LendersWait DEF Lenders, Waiters
  <2>2. t # None
    BY TaskAssumption
  <2>3. NextPrio(t) = prio[t] /\ NextPrio(t)' = prio[t]
    BY <2>2 DEF NextPrio
  <2>4. IsLimit(NextPrio(t), b_prio[t], Lenders(t), prio)
    BY <2>1 DEF InheritInv
  <2> QED BY <2>1, <2>3, <2>4
<1> QED BY <1>1 DEF InheritInv

(* The mutex lists stay, and so do the waiters of the mutexes on them. *)
LEMMA InheritSteady ==
  ASSUME KernelInv, InheritInv, cs.op # "pend", cs'.op # "pend",
         cs'.op = "wake" => cs'.obj \notin Mutex \cap live',
         chg.task = None, chg'.task = None, prio' = prio, b_prio' = b_prio,
         mutex_list' = mutex_list, \A m \in Mutex \cap live : blk_list'[m] = blk_list[m],
         \A t \in AllTask : Bound(t)' => Bound(t)
  PROVE  InheritInv'
<1>1. mutex_list[Idle] = <<>>
  BY DEF InheritInv
<1>2. ASSUME NEW t \in AllTask, Bound(t)' PROVE Waiters(t)' = Waiters(t)
  <2>1. \A m \in ToSet(mutex_list[t]) : blk_list'[m] = blk_list[m]
    BY <1>1, <1>2, HeldLive
  <2> QED BY <2>1 DEF Waiters
<1> QED BY <1>1, <1>2, InheritKeep

(* The steps that change no mutex, no wait list and no priority. *)
LEMMA InheritPlain ==
  ASSUME KernelInv, InheritInv, chg.task = None, cs.op # "pend", cs' = cs \/ cs' = CsNone \/ cs' = CsTick,
         UNCHANGED <<chg, prio, b_prio, mutex_list, blk_list, live>>,
         cs.op = "free" => cs' = cs,
         \A t \in AllTask : task_state[t] = "K_DELETED" => task_state'[t] = "K_DELETED"
  PROVE  InheritInv'
<1>1. /\ cs'.op # "pend" /\ (cs'.op = "wake" => cs'.obj \notin Mutex \cap live')
  BY Records DEF InheritInv
<1>2. \A t \in AllTask : Bound(t)' => Bound(t)
  BY DEF Bound
<1> QED BY <1>1, <1>2, InheritSteady

(* The scheduler keeps InheritInv. *)
LEMMA InheritSched ==
  ASSUME KernelInv, InheritInv, SchedNext
  PROVE  InheritInv'
<1>1. /\ Quiet
      /\ UNCHANGED <<chg, prio, b_prio, mutex_list, blk_list, live, task_state>>
      /\ cs' = cs \/ cs' = CsTick
  BY DEF SchedNext, krhino_sched_disable, krhino_sched_enable, core_sched, pend_state_end_proc,
         krhino_intrpt_enter, krhino_intrpt_exit, krhino_task_yield, TickIntrpt, TickSlice,
         TaskCall, InTask, InIsr
<1> QED BY <1>1, InheritPlain DEF Quiet

(* The steps of critical sections that leave the mutexes and their waiters. *)
LEMMA InheritEnds ==
  ASSUME KernelInv, InheritInv, TickSleep \/ TickEnd \/ WakeEnd \/ ExitSched
  PROVE  InheritInv'
<1>1. /\ chg.task = None /\ cs.op \in {"tick", "wake", "exit"}
      /\ UNCHANGED <<chg, prio, b_prio, mutex_list, blk_list, live>>
      /\ cs' = cs \/ cs' = CsNone
  BY DEF TickSleep, TickEnd, WakeEnd, ExitSched
<1>2. \A t \in AllTask : task_state[t] = "K_DELETED" => task_state'[t] = "K_DELETED"
  <2>1. CASE TickSleep
    BY <2>1 DEF TickSleep, SleepStates, KernelInv, TypeOK
  <2>2. CASE TickEnd \/ WakeEnd \/ ExitSched
    BY <2>2 DEF TickEnd, WakeEnd, ExitSched
  <2> QED BY <2>1, <2>2
<1> QED BY <1>1, <1>2, InheritPlain

(* The wait for a semaphore, and the end of a wait for one or for a deleted
   mutex, lend nothing. *)
LEMMA InheritSem ==
  ASSUME KernelInv, InheritInv, SemNext
  PROVE  InheritInv'
<1>0. /\ Sem \cap Mutex = {} /\ Sem \subseteq Obj /\ Mutex \subseteq Obj
      /\ blk_list \in [Obj -> Seq(Task)] /\ Lists /\ task_state \in [AllTask -> TaskStates]
  BY TaskAssumption, InvLists DEF Obj, KernelInv, TypeOK
<1>1. PICK s \in Sem : \/ \E n \in SemChoices : krhino_sem_create(s, n)
                       \/ krhino_sem_del(s) \/ sem_give(s)
                       \/ \E ticks \in Timeouts : krhino_sem_take(s, ticks)
                       \/ \E n \in SemChoices : krhino_sem_count_set(s, n)
  BY DEF SemNext
<1>2. /\ chg.task = None /\ cs.op = "none"
      /\ UNCHANGED <<chg, prio, b_prio, mutex_list>>
      /\ cs' = cs \/ (cs'.op = "wake" /\ cs'.obj = s)
  <2>1. /\ \E f : AnyCall(f)
        /\ UNCHANGED <<chg, prio, b_prio, mutex_list>>
        /\ cs' = cs \/ cs' = [CsNone EXCEPT !.op = "wake", !.obj = s, !.why = "BLK_DEL"]
                    \/ cs' = [CsNone EXCEPT !.op = "wake", !.obj = s]
    BY <1>1 DEF krhino_sem_create, krhino_sem_del, sem_give, GiveCount, GiveOne, GiveAll,
         krhino_sem_take, krhino_sem_count_set, AnyCall
  <2> QED BY <2>1, CallContext DEF CsNone
<1>3. \A m \in Mutex \cap live : blk_list'[m] = blk_list[m]
  <2>1. CASE GiveOne(s)
    <3>1. blk_list' = [blk_list EXCEPT ![s] = klist_rm(@, Head(blk_list[s]))]
      BY <1>0, <2>1, FirstWaiter DEF GiveOne, pend_task_wakeup
    <3> QED BY <1>0, <3>1
  <2>2. CASE \E ticks \in Timeouts : krhino_sem_take(s, ticks) /\ TakeWait(s, ticks)
    BY <1>0, <2>2 DEF TakeWait, pend_to_blk_obj
  <2>3. CASE \E n \in SemChoices : krhino_sem_create(s, n)
    BY <1>0, <2>3 DEF krhino_sem_create
  <2>4. CASE \/ krhino_sem_del(s) \/ GiveCount(s) \/ GiveAll(s)
             \/ \E ticks \in Timeouts : krhino_sem_take(s, ticks) /\ TakeCount(s)
             \/ \E n \in SemChoices : krhino_sem_count_set(s, n)
    BY <2>4 DEF krhino_sem_del, GiveCount, GiveAll, TakeCount, krhino_sem_count_set
  <2> QED BY <1>1, <2>1, <2>2, <2>3, <2>4 DEF sem_give, krhino_sem_take
<1>4. \A t \in AllTask : task_state[t] = "K_DELETED" => task_state'[t] = "K_DELETED"
  <2>1. CASE GiveOne(s)
    <3>1. /\ task_state' = [task_state EXCEPT ![Head(blk_list[s])] = Awake(@)]
          /\ task_state[Head(blk_list[s])] \in PendStates
      BY <1>0, <2>1, FirstWaiter DEF GiveOne, pend_task_wakeup
    <3> QED BY <1>0, <3>1 DEF PendStates
  <2>2. CASE \E ticks \in Timeouts : krhino_sem_take(s, ticks) /\ TakeWait(s, ticks)
    <3>1. task_state[active] = "K_RDY" /\ active \in AllTask
      BY <2>2, TaskContext DEF krhino_sem_take, AllTask
    <3> QED BY <1>0, <2>2, <3>1 DEF TakeWait, pend_to_blk_obj
  <2>3. CASE \/ \E n \in SemChoices : krhino_sem_create(s, n)
             \/ krhino_sem_del(s) \/ GiveCount(s) \/ GiveAll(s)
             \/ \E ticks \in Timeouts : krhino_sem_take(s, ticks) /\ TakeCount(s)
             \/ \E n \in SemChoices : krhino_sem_count_set(s, n)
    BY <2>3 DEF krhino_sem_create, krhino_sem_del, GiveCount, GiveAll, TakeCount, krhino_sem_count_set
  <2> QED BY <1>1, <2>1, <2>2, <2>3 DEF sem_give, krhino_sem_take
<1>5. \A t \in AllTask : Bound(t)' => Bound(t)
  BY <1>2, <1>4 DEF Bound
<1> QED BY <1>0, <1>2, <1>3, <1>5, InheritSteady

(* The waiters of a deleted mutex, or of a semaphore, are woken. *)
LEMMA InheritWake ==
  ASSUME KernelInv, InheritInv, WakeNext
  PROVE  InheritInv'
<1> DEFINE t == Head(blk_list[cs.obj])
<1>0. /\ Mutex \subseteq Obj /\ blk_list \in [Obj -> Seq(Task)] /\ Lists
      /\ task_state \in [AllTask -> TaskStates]
  BY InvLists DEF Obj, KernelInv, TypeOK
<1>1. /\ chg.task = None /\ cs.op = "wake" /\ blk_list[cs.obj] # <<>>
      /\ pend_task_wakeup(t, cs.why)
      /\ UNCHANGED <<chg, prio, b_prio, mutex_list, live, cs>>
  BY DEF WakeNext
<1>2. cs.obj \in Obj /\ cs.obj \notin Mutex \cap live
  BY <1>1 DEF KernelInv, CsInv, InheritInv
<1>3. t \in Task /\ task_state[t] \in PendStates /\ blk_obj[t] = cs.obj
  BY <1>0, <1>1, <1>2, FirstWaiter
<1>4. \A m \in Mutex \cap live : blk_list'[m] = blk_list[m]
  BY <1>0, <1>1, <1>2, <1>3 DEF pend_task_wakeup
<1>5. \A u \in AllTask : Bound(u)' => Bound(u)
  <2>1. task_state' = [task_state EXCEPT ![t] = Awake(@)]
    BY <1>1 DEF pend_task_wakeup
  <2>2. \A u \in AllTask : task_state[u] = "K_DELETED" => task_state'[u] = "K_DELETED"
    BY <1>0, <1>3, <2>1 DEF PendStates
  <2> QED BY <1>1, <2>2 DEF Bound
<1> QED BY <1>1, <1>2, <1>4, <1>5, InheritSteady

------------------------------------------------------------------------------
(* A waiter gives up: mutex_task_pri_reset. *)

(* Without t, the limit of the others is the same unless t had set it. *)
LEMMA LimitLess ==
  ASSUME NEW p \in Prio, NEW base \in Prio, NEW L, NEW pr, NEW t, IsLimit(p, base, L, pr),
         p # pr[t]
  PROVE  IsLimit(p, base, L \ {t}, pr)
BY DEF IsLimit

(* mutex_release asks for the limit set by the waiters for the mutexes in ml. *)
LEMMA ReleaseLimit ==
  ASSUME KernelInv, NEW t \in Task, NEW ml \in Seq(Mutex), NEW bl \in [Obj -> Seq(Task)],
         \A m \in ToSet(ml) : Sorted(bl[m], prio), mutex_release(t, ml, bl), prio' = prio
  PROVE  /\ chg'.task \in {t, None}
         /\ IsLimit(NextPrio(t)', b_prio[t],
                    {u \in Task : \E m \in ToSet(ml) : u \in ToSet(bl[m])}, prio)
         /\ \A u \in AllTask : u # t => NextPrio(u)' = prio[u]
<1> DEFINE q == mutex_pri_limit(b_prio[t], ml, bl, prio)
<1>1. b_prio[t] \in Prio /\ prio \in [AllTask -> Prio]
  BY DEF KernelInv, TypeOK, AllTask
<1>2. IsLimit(q, b_prio[t], {u \in Task : \E m \in ToSet(ml) : u \in ToSet(bl[m])}, prio)
  BY <1>1, LimitIs
<1>3. chg' = IF q # prio[t] THEN [task |-> t, pri |-> q] ELSE NoChg
  BY DEF mutex_release
<1> HIDE DEF q
<1>4. None \notin AllTask /\ t \in AllTask
  BY TaskAssumption DEF AllTask
<1>5. NextPrio(t)' = q
  BY <1>3, <1>4, Records DEF NextPrio
<1>6. \A u \in AllTask : u # t => NextPrio(u)' = prio[u]
  BY <1>3, <1>4, Records DEF NextPrio
<1> QED BY <1>2, <1>3, <1>5, <1>6, Records

(* So does the end of a wait: mutex_task_pri_reset begins to lower the owner when it
   was raised for the waiter. *)
LEMMA InheritReset ==
  ASSUME KernelInv, InheritInv, chg.task = None, cs.op \notin {"pend", "handover"},
         cs'.op \notin {"pend", "handover", "wake"},
         NEW t \in Task, task_state[t] \in PendStates,
         NEW bl, bl = [blk_list EXCEPT ![blk_obj[t]] = klist_rm(@, t)],
         mutex_task_pri_reset(t, bl), blk_list' = bl,
         UNCHANGED <<mutex_list, prio, b_prio>>,
         \A u \in AllTask : Bound(u)' => Bound(u),
         cs.op = "free" => cs.task = t
  PROVE  InheritInv'
<1> DEFINE o == blk_obj[t]
           owner == mutex_task[o]
<1>0. /\ Task \subseteq AllTask /\ Mutex \subseteq Obj
      /\ blk_list \in [Obj -> Seq(Task)] /\ Waiting(blk_list, task_state, blk_obj, prio)
      /\ prio \in [AllTask -> Prio] /\ mutex_list[Idle] = <<>> /\ None \notin AllTask
  BY TaskAssumption DEF AllTask, Obj, KernelInv, TypeOK, InheritInv
<1>1. /\ o \in Obj /\ t \in ToSet(blk_list[o]) /\ Linear(blk_list[o])
      /\ klist_rm(blk_list[o], t) \in Seq(Task) /\ Sorted(blk_list[o], prio)
  <2>1. task_state[t] \in PendStates
    OBVIOUS
  <2>2. /\ o \in Obj /\ t \in ToSet(blk_list[o]) /\ Linear(blk_list[o])
        /\ klist_rm(blk_list[o], t) \in Seq(Task)
    BY ONLY <1>0, <2>1, PendEntry
  <2> QED BY <1>0, <2>2 DEF Waiting
<1>2. \A x \in Obj : t \in ToSet(blk_list[x]) => x = o
  BY <1>0 DEF Waiting
<1>3. /\ bl \in [Obj -> Seq(Task)] /\ bl[o] = klist_rm(blk_list[o], t)
      /\ \A x \in Obj : x # o => bl[x] = blk_list[x]
  BY <1>0, <1>1
<1>4. ToSet(bl[o]) = ToSet(blk_list[o]) \ {t} /\ Sorted(bl[o], prio)
  BY <1>0, <1>1, <1>3, KlistRm, KlistRmSorted
<1> HIDE DEF o
<1>5. ASSUME NEW u \in AllTask, Bound(u)'
      PROVE  /\ mutex_list[u] \in Seq(Mutex) /\ b_prio[u] \in Prio
             /\ \A m \in ToSet(mutex_list[u]) : /\ m \in Mutex \cap live /\ mutex_task[m] = u
                                                /\ Sorted(bl[m], prio)
             /\ IsLimit(prio[u], b_prio[u], Waiters(u), prio)
             /\ Waiters(u)' = Waiters(u) \ {t}
             /\ Lenders(u)' = Waiters(u)'
             /\ o \notin ToSet(mutex_list[u]) => Waiters(u)' = Waiters(u)
  <2>1. /\ Bound(u) /\ mutex_list[u] \in Seq(Mutex) /\ b_prio[u] \in Prio
        /\ \A m \in ToSet(mutex_list[u]) : /\ m \in Mutex \cap live /\ mutex_task[m] = u
                                           /\ Sorted(blk_list[m], prio)
    BY <1>0, <1>5, HeldLive
  <2>2. \A m \in ToSet(mutex_list[u]) : ToSet(bl[m]) = ToSet(blk_list[m]) \ {t} /\ Sorted(bl[m], prio)
    BY <1>0, <1>2, <1>3, <1>4, <2>1
  <2>3. IsLimit(prio[u], b_prio[u], Waiters(u), prio)
    BY <1>0, <1>5, <2>1, LendersWait DEF InheritInv, NextPrio
  <2>4. o \notin ToSet(mutex_list[u]) => t \notin Waiters(u)
    BY <1>0, <1>2, <2>1 DEF Waiters
  <2>5. Waiters(u)' = Waiters(u) \ {t}
    BY <2>2 DEF Waiters
  <2>6. Lenders(u)' = Waiters(u)'
    BY DEF Lenders, Waiters
  <2> QED BY <2>1, <2>2, <2>3, <2>4, <2>5, <2>6
<1>6. CASE o \in Mutex \cap live /\ prio[owner] = prio[t]
  <2>1. owner \in Task \ {t} /\ Bound(owner)
    <3>1. blk_list[o] # <<>>
      BY <1>0, <1>1, EntrySet
    <3>2. owner \in Task /\ task_state[owner] # "K_DELETED" /\ owner \notin ToSet(blk_list[o])
      BY <1>6, <3>1 DEF KernelInv, OwnerInv
    <3> QED BY <1>1, <3>2 DEF Bound
  <2>0. PICK w \in Task : w = owner
    BY <2>1
  <2>2. mutex_release(w, mutex_list[w], bl)
    BY <1>6, <2>0 DEF mutex_task_pri_reset, o
  <2>3. /\ mutex_list[w] \in Seq(Mutex)
        /\ \A m \in ToSet(mutex_list[w]) : m \in Mutex /\ Sorted(blk_list[m], prio)
    BY <1>0, <2>1, <2>0, HeldLive
  <2>4. \A m \in ToSet(mutex_list[w]) : Sorted(bl[m], prio)
    BY <1>0, <1>3, <1>4, <2>3
  <2>5. /\ IsLimit(NextPrio(w)', b_prio[w],
                   {u \in Task : \E m \in ToSet(mutex_list[w]) : u \in ToSet(bl[m])}, prio)
        /\ \A u \in AllTask : u # w => NextPrio(u)' = prio[u]
    <3>1. KernelInv /\ prio' = prio /\ w \in Task
      OBVIOUS
    <3> QED BY ONLY <1>3, <2>2, <2>3, <2>4, <3>1, ReleaseLimit
  <2>6. ASSUME NEW u \in AllTask, Bound(u)'
        PROVE  IsLimit(NextPrio(u)', b_prio'[u], Lenders(u)', prio')
    <3>1. CASE u = w
      <4>1. Lenders(u)' = {x \in Task : \E m \in ToSet(mutex_list[w]) : x \in ToSet(bl[m])}
        <5>1. Lenders(u)' = Waiters(u)'
          BY <1>5, <2>6
        <5>2. mutex_list' = mutex_list /\ blk_list' = bl
          OBVIOUS
        <5> QED BY ONLY <3>1, <5>1, <5>2 DEF Waiters
      <4> QED BY <3>1, <4>1, <2>5
    <3>2. CASE u # w
      <4>1. o \notin ToSet(mutex_list[u])
        BY <1>5, <2>0, <2>6, <3>2
      <4> QED BY <1>5, <2>5, <2>6, <3>2, <4>1
    <3> QED BY <3>1, <3>2
  <2> QED BY <1>0, <2>6 DEF InheritInv
<1>7. CASE ~(o \in Mutex \cap live /\ prio[owner] = prio[t])
  <2>1. chg' = NoChg
    BY <1>7 DEF mutex_task_pri_reset, o
  <2>2. ASSUME NEW u \in AllTask, Bound(u)'
        PROVE  IsLimit(NextPrio(u)', b_prio'[u], Lenders(u)', prio')
    <3>1. NextPrio(u)' = prio[u]
      BY <1>0, <2>1, Records DEF NextPrio
    <3>2. CASE o \in ToSet(mutex_list[u])
      <4>1. prio[u] # prio[t] /\ prio[u] \in Prio
        BY <1>0, <1>5, <1>7, <2>2, <3>2
      <4>2. IsLimit(prio[u], b_prio[u], Waiters(u) \ {t}, prio)
        BY <1>5, <2>2, <4>1, LimitLess
      <4> QED BY <1>5, <2>2, <3>1, <4>2
    <3>3. CASE o \notin ToSet(mutex_list[u])
      BY <1>5, <2>2, <3>1, <3>3
    <3> QED BY <3>2, <3>3
  <2> QED BY <1>0, <2>1, <2>2, Records DEF InheritInv
<1> QED BY <1>6, <1>7

------------------------------------------------------------------------------
(* The walk of task_pri_change along the owners. *)

(* A step that leaves the wait lists' members, the mutexes and the rest of the
   critical section alone: who lends to whom stays the same. *)
LEMMA LendersSame ==
  ASSUME KernelInv, InheritInv, UNCHANGED <<cs, active, mutex_task, mutex_list, task_state>>,
         \A o \in Obj : ToSet(blk_list'[o]) = ToSet(blk_list[o]),
         NEW t \in AllTask, Bound(t)
  PROVE  Lenders(t)' = Lenders(t) /\ Bound(t)'
<1>1. \A m \in ToSet(mutex_list[t]) : m \in Obj
  BY HeldLive DEF InheritInv, Obj
<1>2. \A m \in ToSet(mutex_list[t]) : ToSet(blk_list'[m]) = ToSet(blk_list[m])
  BY <1>1
<1>3. Lenders(t)' = Lenders(t)
  BY <1>2 DEF Lenders
<1> QED BY <1>3 DEF Bound

(* The change reaches a task that waits for nothing, or has been made. *)
LEMMA InheritReached ==
  ASSUME KernelInv, InheritInv, chg.task # None, chg' = NoChg,
         UNCHANGED <<cs, active, mutex_task, mutex_list, task_state, b_prio, blk_list, live>>,
         prio' = [prio EXCEPT ![chg.task] = chg.pri],
         prio' = prio \/ task_state[chg.task] \notin PendStates
  PROVE  InheritInv'
<1>0. /\ chg.task \in Task /\ prio \in [AllTask -> Prio] /\ None \notin AllTask
      /\ Task \subseteq AllTask /\ blk_list \in [Obj -> Seq(Task)]
  BY TaskAssumption DEF KernelInv, TypeOK, ChgType, AllTask
<1>1. \A t \in AllTask : prio'[t] = NextPrio(t) /\ NextPrio(t)' = prio'[t]
  BY <1>0, Records DEF NextPrio
<1>2. ASSUME NEW t \in AllTask, Bound(t), NEW u \in Lenders(t) PROVE prio'[u] = prio[u]
  <2>1. u \in Task /\ (u # chg.task => prio'[u] = prio[u])
    BY <1>0 DEF Lenders
  <2>2. ASSUME u = chg.task, prio' # prio PROVE FALSE
    <3>1. CASE cs.op = "pend" /\ u = active
      <4>1. chg.pri = prio[u] /\ chg.pri < prio[u] /\ prio[u] \in Nat
        BY <3>1, <2>2, <1>0, Bounds DEF InheritInv
      <4> QED BY <4>1
    <3>2. CASE \E m \in ToSet(mutex_list[t]) : u \in ToSet(blk_list[m])
      <4>1. PICK m \in ToSet(mutex_list[t]) : u \in ToSet(blk_list[m])
        BY <3>2
      <4>2. m \in Obj
        BY <1>2, HeldLive DEF InheritInv, Obj
      <4>3. task_state[u] \in PendStates
        BY <4>1, <4>2 DEF KernelInv, Waiting
      <4> QED BY <2>2, <4>3
    <3> QED BY <3>1, <3>2 DEF Lenders
  <2> QED BY <2>1, <2>2
<1>3. ASSUME NEW t \in AllTask, Bound(t)'
      PROVE  IsLimit(NextPrio(t)', b_prio'[t], Lenders(t)', prio')
  <2>1. Bound(t)
    BY <1>3 DEF Bound
  <2>2. Lenders(t)' = Lenders(t)
    BY <2>1, LendersSame
  <2>3. IsLimit(NextPrio(t), b_prio[t], Lenders(t), prio)
    BY <2>1 DEF InheritInv
  <2>4. IsLimit(NextPrio(t), b_prio[t], Lenders(t), prio')
    BY <1>2, <2>1, <2>3 DEF IsLimit
  <2> QED BY <1>1, <2>2, <2>4
<1> QED BY <1>3, Records DEF InheritInv

(* The change reaches a waiter: its owner, if it waits for a mutex, is raised
   with it, looked at again, or not concerned. *)
LEMMA InheritPassed ==
  ASSUME KernelInv, KernelInv', InheritInv, ChangePend,
         UNCHANGED <<cs, active, mutex_task, mutex_list, task_state, blk_obj, b_prio, live>>
  PROVE  InheritInv'
<1>0. PICK t, o, old, w :
        /\ t = chg.task /\ o = blk_obj[t] /\ old = prio[t] /\ w = mutex_task[o]
  OBVIOUS
<1>1. /\ t # None /\ task_state[t] \in PendStates /\ old # chg.pri
      /\ prio' = [prio EXCEPT ![t] = chg.pri]
      /\ blk_list' = [blk_list EXCEPT ![o] = pend_list_add(klist_rm(@, t), t, prio')]
      /\ chg' = IF o \notin Mutex \cap live THEN NoChg
                ELSE IF prio'[w] > chg.pri THEN [task |-> w, pri |-> chg.pri]
                ELSE IF prio'[w] = old
                          /\ mutex_pri_limit(b_prio[w], mutex_list[w], blk_list', prio') # prio'[w]
                     THEN [task |-> w, pri |-> mutex_pri_limit(b_prio[w], mutex_list[w], blk_list', prio')]
                ELSE NoChg
      /\ UNCHANGED rq
  BY <1>0 DEF ChangePend
<1>2. /\ t \in Task /\ Task \subseteq AllTask /\ Mutex \subseteq Obj /\ None \notin AllTask
      /\ chg.pri \in Prio /\ prio \in [AllTask -> Prio] /\ b_prio \in [AllTask -> Prio]
      /\ blk_list' \in [Obj -> Seq(Task)] /\ prio' \in [AllTask -> Prio]
      /\ \A x \in Obj : Sorted(blk_list'[x], prio') /\ Sorted(blk_list[x], prio)
      /\ mutex_list[Idle] = <<>>
  BY <1>0, <1>1, TaskAssumption DEF KernelInv, TypeOK, ChgType, AllTask, Obj, Waiting, InheritInv
<1>3. /\ o \in Obj /\ t \in ToSet(blk_list[o]) /\ blk_list[o] # <<>>
      /\ \A x \in Obj : t \in ToSet(blk_list[x]) => x = o
  <2>1. blk_list \in [Obj -> Seq(Task)] /\ Waiting(blk_list, task_state, blk_obj, prio)
    BY DEF KernelInv, TypeOK
  <2>2. o \in Obj /\ t \in ToSet(blk_list[o])
    BY ONLY <1>0, <1>1, <1>2, <2>1, PendEntry
  <2> QED BY <1>0, <1>2, <2>1, <2>2, EntrySet DEF Waiting
<1>4. \A x \in Obj : ToSet(blk_list'[x]) = ToSet(blk_list[x])
  <2>1. \A x \in Obj : ToSet(blk_list[x]) = {u \in Task : task_state[u] \in PendStates /\ blk_obj[u] = x}
    BY DEF KernelInv, Waiting
  <2>2. \A x \in Obj : ToSet(blk_list'[x]) = {u \in Task : task_state[u] \in PendStates /\ blk_obj[u] = x}
    BY DEF KernelInv, Waiting
  <2> QED BY <2>1, <2>2
<1>5. /\ cs.op \notin {"none", "free", "handover"}
      /\ cs.op = "pend" => /\ chg.pri = prio[active] /\ chg.pri < old /\ active # t
                           /\ task_state[active] = "K_RDY"
  <2>1. /\ cs.op \notin {"none", "free"}
        /\ cs.op \in {"pend", "handover"} => task_state[active] = "K_RDY"
    BY <1>0, <1>1 DEF KernelInv, CsInv
  <2>2. cs.op \in {"pend", "handover"} => active # t
    BY <1>1, <2>1 DEF PendStates
  <2> QED BY <1>0, <1>1, <2>1, <2>2 DEF InheritInv
<1>6. \A u \in AllTask : prio'[u] = IF u = t THEN chg.pri ELSE prio[u]
  BY <1>1, <1>2
<1>7. ASSUME NEW u \in AllTask, Bound(u)
      PROVE  /\ IsLimit(NextPrio(u), b_prio[u], Lenders(u), prio)
             /\ u = t => NextPrio(u) = chg.pri
             /\ u # t => NextPrio(u) = prio[u]
             /\ Lenders(u)' = Lenders(u) /\ Lenders(u) \subseteq Task
             /\ \A m \in ToSet(mutex_list[u]) : m \in Mutex \cap live /\ mutex_task[m] = u
             /\ t \in Lenders(u) <=> o \in ToSet(mutex_list[u])
  <2>1. \A m \in ToSet(mutex_list[u]) : m \in Mutex \cap live /\ mutex_task[m] = u
    BY <1>2, <1>7, HeldLive
  <2>2. t \in Lenders(u) <=> o \in ToSet(mutex_list[u])
    BY <1>2, <1>3, <1>5, <2>1 DEF Lenders
  <2>3. Lenders(u)' = Lenders(u) /\ Lenders(u) \subseteq Task
    BY <1>4, <1>7, LendersSame DEF Lenders
  <2>4. IsLimit(NextPrio(u), b_prio[u], Lenders(u), prio)
    BY <1>7 DEF InheritInv
  <2> QED BY <1>0, <2>1, <2>2, <2>3, <2>4 DEF NextPrio
<1>8. ASSUME o \in Mutex \cap live
      PROVE  /\ w \in Task \ {t} /\ Bound(w) /\ o \in ToSet(mutex_list[w])
             /\ mutex_list[w] \in Seq(Mutex)
  <2>1. /\ w \in Task /\ task_state[w] # "K_DELETED" /\ w \notin ToSet(blk_list[o])
        /\ o \in ToSet(mutex_list[w])
    BY <1>0, <1>3, <1>5, <1>8, Settled
  <2> QED BY <1>3, <1>5, <2>1, HeldMutexes DEF Bound
<1> DEFINE look == mutex_pri_limit(b_prio[w], mutex_list[w], blk_list', prio')
<1>9. chg'.task # None =>
        /\ o \in Mutex \cap live /\ chg'.task = w
        /\ \/ prio[w] > chg.pri /\ chg'.pri = chg.pri
           \/ ~(prio[w] > chg.pri) /\ prio[w] = old /\ chg'.pri = look
  BY <1>1, <1>6, <1>8, <1>2, Records
<1>10. o \in Mutex \cap live /\ chg'.task = None =>
         /\ ~(prio[w] > chg.pri)
         /\ prio[w] = old => look = prio[w]
  <2> SUFFICES ASSUME o \in Mutex \cap live, chg'.task = None
               PROVE  ~(prio[w] > chg.pri) /\ (prio[w] = old => look = prio[w])
    OBVIOUS
  <2>1. prio'[w] = prio[w] /\ w # None
    BY <1>2, <1>6, <1>8
  <2> HIDE DEF look
  <2> QED BY <1>1, <2>1 DEF look
<1> HIDE DEF look
<1>11. ASSUME NEW u \in AllTask, Bound(u)'
       PROVE  IsLimit(NextPrio(u)', b_prio'[u], Lenders(u)', prio')
  <2>1. Bound(u)
    BY <1>11 DEF Bound
  <2>2. /\ \A x \in Lenders(u) : prio[x] \in Nat /\ prio'[x] \in Nat
        /\ prio[u] \in Nat /\ b_prio[u] \in Nat /\ chg.pri \in Nat /\ old \in Nat
    BY <1>0, <1>2, <1>7, <2>1, Bounds
  <2>3. CASE o \in Mutex \cap live /\ u = w
    <3>1. /\ IsLimit(prio[u], b_prio[u], Lenders(u), prio) /\ t \in Lenders(u)
          /\ Lenders(u)' = Lenders(u) /\ prio'[u] = prio[u]
          /\ \A x \in Lenders(u) : prio'[x] = IF x = t THEN chg.pri ELSE prio[x]
      BY <1>2, <1>6, <1>7, <1>8, <2>1, <2>3
    <3>2. NextPrio(u)' = IF chg'.task = u THEN chg'.pri ELSE prio[u]
      BY <3>1 DEF NextPrio
    <3>3. CASE prio[u] > chg.pri
      <4>1. NextPrio(u)' = chg.pri
        BY <1>9, <1>10, <2>2, <2>3, <3>2, <3>3
      <4>2. IsLimit(chg.pri, b_prio[u], Lenders(u), prio')
        BY <2>2, <3>1, <3>3 DEF IsLimit
      <4> QED BY <3>1, <4>1, <4>2
    <3>4. CASE ~(prio[u] > chg.pri) /\ prio[u] = old
      <4>1. NextPrio(u)' = look
        BY <1>2, <1>9, <1>10, <2>3, <3>2, <3>4
      <4>2. cs.op # "pend"
        BY <1>5, <2>2, <3>4
      <4>3. Lenders(u)' = {x \in Task : \E m \in ToSet(mutex_list[u]) : x \in ToSet(blk_list'[m])}
        BY <4>2 DEF Lenders
      <4>4. \A m \in ToSet(mutex_list[u]) : Sorted(blk_list'[m], prio')
        BY <1>2, <1>7, <2>1
      <4>5. b_prio[u] \in Prio /\ mutex_list[u] \in Seq(Mutex)
        BY <1>2, <1>8, <2>3
      <4>6. IsLimit(look, b_prio[u], Lenders(u)', prio')
        BY <1>2, <2>3, <4>3, <4>4, <4>5, LimitIs DEF look
      <4> QED BY <4>1, <4>6
    <3>5. CASE ~(prio[u] > chg.pri) /\ prio[u] # old
      <4>1. NextPrio(u)' = prio[u]
        BY <1>2, <1>9, <2>3, <3>2, <3>5
      <4>2. IsLimit(prio[u], b_prio[u], Lenders(u), prio')
        BY <1>0, <2>2, <3>1, <3>5 DEF IsLimit
      <4> QED BY <3>1, <4>1, <4>2
    <3> QED BY <3>3, <3>4, <3>5
  <2>4. CASE ~(o \in Mutex \cap live /\ u = w)
    <3>1. t \notin Lenders(u)
      BY <1>0, <1>7, <2>1, <2>4
    <3>2. \A x \in Lenders(u) : prio'[x] = prio[x]
      BY <1>2, <1>6, <1>7, <2>1, <3>1
    <3>3. NextPrio(u)' = NextPrio(u)
      <4>1. chg'.task # u
        BY <1>2, <1>9, <2>4
      <4> QED BY <1>6, <1>7, <2>1, <4>1 DEF NextPrio
    <3>4. IsLimit(NextPrio(u), b_prio[u], Lenders(u), prio')
      BY <1>7, <2>1, <3>2 DEF IsLimit
    <3> QED BY <1>7, <2>1, <3>3, <3>4
  <2> QED BY <2>3, <2>4
<1>12. cs.op = "pend" /\ chg'.task # None => chg'.pri = prio'[active] /\ chg'.pri < prio'[chg'.task]
  <2> SUFFICES ASSUME cs.op = "pend", chg'.task # None
               PROVE  chg'.pri = prio'[active] /\ chg'.pri < prio'[chg'.task]
    OBVIOUS
  <2>1. w \in Task \ {t} /\ chg'.task = w /\ active \in AllTask
    BY <1>8, <1>9 DEF KernelInv, TypeOK
  <2>2. prio'[active] = prio[active] /\ prio'[w] = prio[w] /\ prio[w] \in Nat /\ chg.pri \in Nat
    BY <1>2, <1>5, <1>6, <2>1, Bounds
  <2>3. prio[w] > chg.pri /\ chg'.pri = chg.pri
    BY <1>5, <1>9, <2>2
  <2> QED BY <1>5, <2>1, <2>2, <2>3
<1> QED BY <1>2, <1>5, <1>11, <1>12 DEF InheritInv

(* So does a step of task_pri_change: what is right for this task is left to be done
   for the owner it waits for. *)
LEMMA InheritPriStep ==
  ASSUME KernelInv, KernelInv', InheritInv, task_pri_change
  PROVE  InheritInv'
<1>1. /\ UNCHANGED <<active, mutex_task, mutex_list, task_state, blk_obj, b_prio, live>>
      /\ chg.task # None
  BY DEF task_pri_change, ChangeSame, ChangeReady, ChangeUnqueued, ChangePend, ChangeDeleted
<1>2. chg.task \in AllTask /\ prio \in [AllTask -> Prio]
  BY <1>1 DEF KernelInv, TypeOK, ChgType, AllTask
<1>3. CASE ChangeSame /\ UNCHANGED cs
  <2>1. chg' = NoChg /\ prio' = [prio EXCEPT ![chg.task] = chg.pri] /\ prio' = prio /\ blk_list' = blk_list
    BY <1>2, <1>3 DEF ChangeSame
  <2> QED BY <1>1, <1>3, <2>1, InheritReached
<1>4. CASE (ChangeReady \/ ChangeUnqueued) /\ UNCHANGED cs
  <2>1. /\ chg' = NoChg /\ prio' = [prio EXCEPT ![chg.task] = chg.pri] /\ blk_list' = blk_list
        /\ task_state[chg.task] \notin PendStates
    BY <1>4 DEF ChangeReady, ChangeUnqueued, PendStates, SleepStates
  <2> QED BY <1>1, <1>4, <2>1, InheritReached
<1>5. CASE ChangePend /\ UNCHANGED cs
  BY <1>1, <1>5, InheritPassed
<1>6. CASE ChangeDeleted
  <2>1. /\ chg' = NoChg /\ cs' = CsNone /\ task_state[chg.task] = "K_DELETED"
        /\ UNCHANGED <<prio, blk_list>>
    BY <1>6 DEF ChangeDeleted
  <2>2. cs.op = "exit"
    BY <1>1, <2>1 DEF KernelInv, CsInv
  <2>3. ASSUME NEW t \in AllTask, Bound(t)'
        PROVE  IsLimit(NextPrio(t)', b_prio'[t], Lenders(t)', prio')
    <3>1. Bound(t) /\ t # chg.task /\ t # None
      BY <1>1, <2>1, <2>2, <2>3, TaskAssumption DEF Bound
    <3>2. Lenders(t)' = Lenders(t)
      BY <1>1, <2>1, <2>2, Records DEF Lenders
    <3>3. NextPrio(t) = prio[t] /\ NextPrio(t)' = prio[t]
      BY <2>1, <3>1, Records DEF NextPrio
    <3> QED BY <1>1, <2>1, <3>1, <3>2, <3>3 DEF InheritInv
  <2> QED BY <1>1, <2>1, <2>3, Records DEF InheritInv
<1> QED BY <1>3, <1>4, <1>5, <1>6 DEF task_pri_change

------------------------------------------------------------------------------
(* Lock and unlock. *)

(* krhino_mutex_lock: the owner is to be raised when its priority is lower. *)
LEMMA InheritLock ==
  ASSUME KernelInv, InheritInv, NEW m \in Mutex, NEW ticks \in Timeouts, krhino_mutex_lock(m, ticks)
  PROVE  InheritInv'
<1>1. /\ TaskCall("krhino_mutex_lock") /\ m \in live
      /\ UNCHANGED <<active, blk_list, task_state, prio, b_prio, live>>
      /\ LockNested(m) \/ LockFree(m) \/ LockWait(m, ticks)
  BY DEF krhino_mutex_lock
<1>2. cs.op = "none" /\ chg.task = None /\ active \in Task /\ task_state[active] = "K_RDY"
  BY <1>1, TaskContext
<1>3. CASE LockNested(m)
  BY <1>1, <1>2, <1>3, InheritPlain DEF LockNested
<1>4. CASE LockFree(m)
  <2>1. /\ mutex_task[m] = None /\ UNCHANGED <<chg, cs>>
        /\ mutex_list' = [mutex_list EXCEPT ![active] = <<m>> \o @]
    BY <1>4 DEF LockFree
  <2>2. None \notin Task /\ Idle \notin Task
    BY TaskAssumption DEF AllTask
  <2>3. blk_list[m] = <<>> /\ ToSet(blk_list[m]) = {}
    <3>1. blk_list[m] = <<>>
      BY <1>1, <1>2, <2>1, <2>2, Settled
    <3>2. blk_list[m] \in Seq(Task)
      BY DEF KernelInv, TypeOK, Obj
    <3> QED BY <3>1, <3>2, EntrySet
  <2>4. m \notin ToSet(mutex_list[active])
    BY <1>2, <2>1, <2>2, Settled
  <2>5. /\ ToSet(mutex_list'[active]) = ToSet(mutex_list[active]) \cup {m}
        /\ \A u \in AllTask : u # active => mutex_list'[u] = mutex_list[u]
    <3>1. ToSet(mutex_list'[active]) = ToSet(mutex_list[active]) \cup {m}
      BY <1>2, <2>1, <2>4, Linked
    <3> QED BY <2>1, <3>1 DEF KernelInv, TypeOK
  <2>6. ASSUME NEW t \in AllTask PROVE Waiters(t)' = Waiters(t)
    BY <1>1, <2>3, <2>5 DEF Waiters
  <2>7. \A t \in AllTask : Bound(t)' => Bound(t)
    BY <1>1, <2>1 DEF Bound
  <2>8. mutex_list'[Idle] = <<>>
    BY <1>2, <2>2, <2>5 DEF InheritInv, AllTask
  <2> QED BY <1>1, <1>2, <2>1, <2>6, <2>7, <2>8, InheritKeep
<1>5. CASE LockWait(m, ticks)
  <2>0. PICK w : w = mutex_task[m]
    OBVIOUS
  <2>1. /\ w \notin {None, active} /\ UNCHANGED <<mutex_task, mutex_list>>
        /\ chg' = IF prio[active] < prio[w]
                  THEN [task |-> w, pri |-> prio[active]] ELSE NoChg
        /\ cs'.op = "pend" /\ cs'.obj = m
    BY <1>5, <2>0 DEF LockWait, CsNone
  <2>2. /\ w \in Task /\ None \notin AllTask /\ Task \subseteq AllTask /\ Bound(w)
        /\ prio \in [AllTask -> Prio] /\ b_prio \in [AllTask -> Prio] /\ Prio \subseteq Nat
    <3>1. w \in Task
      BY <2>0, <2>1 DEF KernelInv, TypeOK
    <3>2. task_state[w] # "K_DELETED"
      BY <1>1, <1>2, <2>0, <3>1, Settled
    <3> QED BY <1>2, <3>1, <3>2, Bounds, TaskAssumption DEF KernelInv, TypeOK, Bound, AllTask
  <2>3. ASSUME NEW t \in AllTask, Bound(t)'
        PROVE  IsLimit(NextPrio(t)', b_prio'[t], Lenders(t)', prio')
    <3>1. /\ Bound(t) /\ Lenders(t)' = IF t = w THEN Lenders(t) \cup {active} ELSE Lenders(t)
          /\ Lenders(t) \subseteq Task
      BY <1>1, <1>2, <2>0, <2>1, <2>3 DEF Bound, Lenders
    <3>2. NextPrio(t) = prio[t] /\ IsLimit(prio[t], b_prio[t], Lenders(t), prio)
      BY <1>2, <2>2, <3>1 DEF NextPrio, InheritInv
    <3>3. NextPrio(t)' = IF t = w /\ prio[active] < prio[w] THEN prio[active] ELSE prio[t]
      BY <1>1, <2>1, <2>2, Records DEF NextPrio
    <3>4. CASE t = w
      <4>1. /\ \A x \in Lenders(t) : prio[x] \in Nat
            /\ prio[active] \in Nat /\ prio[t] \in Nat /\ b_prio[t] \in Nat
        BY <1>2, <2>2, <3>1
      <4>2. IsLimit(NextPrio(t)', b_prio[t], Lenders(t) \cup {active}, prio)
        BY <3>2, <3>3, <3>4, <4>1 DEF IsLimit
      <4> QED BY <1>1, <3>1, <3>4, <4>2
    <3>5. CASE t # w
      BY <1>1, <3>1, <3>2, <3>3, <3>5
    <3> QED BY <3>4, <3>5
  <2>4. chg'.task # None => chg'.pri = prio'[active] /\ chg'.pri < prio'[chg'.task]
    BY <1>1, <2>1, Records
  <2> QED BY <1>1, <2>1, <2>3, <2>4 DEF InheritInv
<1> QED BY <1>1, <1>3, <1>4, <1>5

(* The caller waits, and the owner has its priority already. *)
LEMMA InheritLockPend ==
  ASSUME KernelInv, InheritInv, LockPend
  PROVE  InheritInv'
<1>0. PICK m, a : m = cs.obj /\ a = active
  OBVIOUS
<1>1. /\ cs.op = "pend" /\ chg.task = None /\ cs' = CsNone
      /\ blk_list' = [blk_list EXCEPT ![m] = pend_list_add(@, a, prio)]
      /\ task_state' = [task_state EXCEPT ![a] = "K_PEND"]
      /\ UNCHANGED <<active, prio, b_prio, mutex_list, mutex_task, chg, live>>
  BY <1>0 DEF LockPend, pend_to_blk_obj
<1>2. /\ m \in Mutex \cap live /\ mutex_task[m] \in Task \ {a}
      /\ a \in Task /\ task_state[a] = "K_RDY"
  BY <1>0, <1>1 DEF KernelInv, CsInv
<1>3. m \in ToSet(mutex_list[mutex_task[m]])
  BY <1>1, <1>2, Settled
<1>4. /\ blk_list \in [Obj -> Seq(Task)] /\ m \in Obj /\ None \notin AllTask
      /\ task_state \in [AllTask -> TaskStates] /\ prio \in [AllTask -> Prio]
      /\ mutex_list[Idle] = <<>> /\ Mutex \subseteq Obj
  BY <1>2, TaskAssumption DEF KernelInv, TypeOK, Obj, InheritInv
<1>5. /\ ToSet(blk_list'[m]) = ToSet(blk_list[m]) \cup {a}
      /\ \A x \in Obj : x # m => blk_list'[x] = blk_list[x]
  BY <1>1, <1>2, <1>4, PendListType
<1>6. ASSUME NEW t \in AllTask, Bound(t)'
      PROVE  IsLimit(NextPrio(t)', b_prio'[t], Lenders(t)', prio')
  <2>1. Bound(t)
    BY <1>1, <1>2, <1>4, <1>6 DEF Bound
  <2>2. \A x \in ToSet(mutex_list[t]) : x \in Mutex /\ mutex_task[x] = t
    BY <1>4, <2>1, HeldLive
  <2>3. m \in ToSet(mutex_list[t]) <=> mutex_task[m] = t
    BY <1>3, <2>2
  <2>4. Lenders(t)' = Lenders(t)
    BY <1>0, <1>1, <1>2, <1>4, <1>5, <2>2, <2>3, Records DEF Lenders
  <2>5. NextPrio(t)' = NextPrio(t)
    BY <1>1 DEF NextPrio
  <2> QED BY <1>1, <2>1, <2>4, <2>5 DEF InheritInv
<1> QED BY <1>1, <1>4, <1>6, Records DEF InheritInv

(* A mutex leaves the list of its owner, which gives up what it had inherited
   through it. *)
LEMMA InheritRelease ==
  ASSUME KernelInv, InheritInv, cs.op = "none", chg.task = None, cs'.op \notin {"pend", "free"},
         NEW w \in Task, task_state[w] # "K_DELETED", NEW m \in ToSet(mutex_list[w]),
         NEW ml, ml = klist_rm(mutex_list[w], m),
         mutex_list' = [mutex_list EXCEPT ![w] = ml], mutex_release(w, ml, blk_list),
         UNCHANGED <<blk_list, prio, b_prio, task_state>>
  PROVE  /\ \A t \in AllTask : Bound(t)' => IsLimit(NextPrio(t)', b_prio'[t], Lenders(t)', prio')
         /\ mutex_list'[Idle] = <<>>
         /\ chg'.task \in {w, None}
         /\ blk_list[m] = <<>> => chg'.task = None
<1>1. /\ mutex_list[Idle] = <<>> /\ w \in AllTask /\ w # Idle /\ Idle \in AllTask
      /\ None \notin AllTask /\ Bound(w) /\ blk_list \in [Obj -> Seq(Task)]
      /\ mutex_list \in [AllTask -> Seq(Mutex)] /\ prio \in [AllTask -> Prio]
  BY TaskAssumption DEF InheritInv, AllTask, Bound, KernelInv, TypeOK
<1>2. /\ ml \in Seq(Mutex) /\ ToSet(ml) = ToSet(mutex_list[w]) \ {m}
      /\ mutex_list'[w] = ml
      /\ \A u \in AllTask : u # w => mutex_list'[u] = mutex_list[u]
  BY <1>1, Unlinked
<1>3. /\ b_prio[w] \in Prio
      /\ \A x \in ToSet(mutex_list[w]) : x \in Mutex /\ Sorted(blk_list[x], prio)
  BY <1>1, HeldLive
<1>4. \A x \in ToSet(ml) : Sorted(blk_list[x], prio)
  BY <1>2, <1>3
<1>5. /\ chg'.task \in {w, None}
      /\ IsLimit(NextPrio(w)', b_prio[w],
                 {u \in Task : \E x \in ToSet(ml) : u \in ToSet(blk_list[x])}, prio)
      /\ \A u \in AllTask : u # w => NextPrio(u)' = prio[u]
  BY <1>1, <1>2, <1>4, ReleaseLimit
<1>6. Lenders(w)' = {u \in Task : \E x \in ToSet(ml) : u \in ToSet(blk_list[x])}
  BY <1>2 DEF Lenders
<1>7. ASSUME NEW t \in AllTask, Bound(t)'
      PROVE  IsLimit(NextPrio(t)', b_prio'[t], Lenders(t)', prio')
  <2>1. CASE t = w
    BY <1>5, <1>6, <2>1
  <2>2. CASE t # w
    <3>1. Bound(t) /\ NextPrio(t) = prio[t] /\ NextPrio(t)' = prio[t]
      BY <1>1, <1>5, <1>7, <2>2 DEF Bound, NextPrio
    <3>2. Lenders(t)' = Lenders(t)
      BY <1>2, <2>2 DEF Lenders
    <3> QED BY <3>1, <3>2 DEF InheritInv
  <2> QED BY <2>1, <2>2
<1>8. ASSUME blk_list[m] = <<>> PROVE chg'.task = None
  <2>1. ToSet(blk_list[m]) = {}
    <3>1. m \in Obj
      BY <1>3 DEF Obj
    <3> QED BY <1>1, <1>8, <3>1, EntrySet
  <2>2. Lenders(w)' = Lenders(w)
    BY <1>2, <1>6, <2>1 DEF Lenders
  <2>3. IsLimit(prio[w], b_prio[w], Lenders(w), prio)
    BY <1>1 DEF InheritInv, NextPrio
  <2>4. \A u \in Lenders(w) : prio[u] \in Prio
    BY <1>1 DEF Lenders, AllTask
  <2>5. NextPrio(w)' = prio[w]
    <3>1. IsLimit(NextPrio(w)', b_prio[w], Lenders(w), prio)
      BY <1>5, <1>6, <2>2
    <3>2. PICK p, q : p = NextPrio(w)' /\ q = prio[w]
      OBVIOUS
    <3>3. IsLimit(p, b_prio[w], Lenders(w), prio) /\ IsLimit(q, b_prio[w], Lenders(w), prio)
      BY <2>3, <3>1, <3>2
    <3>4. b_prio[w] \in Prio
      BY <1>3
    <3>5. p = q
      BY ONLY <2>4, <3>3, <3>4, LimitUnique
    <3> QED BY <3>2, <3>5
  <2>6. chg' = NoChg \/ (chg'.task = w /\ chg'.pri # prio[w])
    BY DEF mutex_release
  <2>7. chg'.task = w => NextPrio(w)' = chg'.pri
    BY DEF NextPrio
  <2> QED BY <2>5, <2>6, <2>7, Records
<1> QED BY <1>1, <1>2, <1>5, <1>7, <1>8

(* krhino_mutex_unlock: the owner goes down to what its other mutexes require. *)
LEMMA InheritUnlock ==
  ASSUME KernelInv, InheritInv, NEW m \in Mutex, krhino_mutex_unlock(m)
  PROVE  InheritInv'
<1>1. /\ TaskCall("krhino_mutex_unlock") /\ m \in live /\ mutex_task[m] = active
      /\ UnlockNested(m) \/ UnlockRelease(m)
      /\ UNCHANGED <<active, blk_list, task_state, prio, b_prio, live, mutex_task>>
  BY DEF krhino_mutex_unlock
<1>2. /\ cs.op = "none" /\ chg.task = None /\ active \in Task /\ task_state[active] = "K_RDY"
      /\ m \in ToSet(mutex_list[active])
  BY <1>1, TaskContext, Settled
<1>3. CASE UnlockNested(m)
  BY <1>1, <1>2, <1>3, InheritPlain DEF UnlockNested
<1>4. CASE UnlockRelease(m)
  <2>0. PICK a \in Task : a = active
    BY <1>2
  <2>1. PICK ml : ml = klist_rm(mutex_list[a], m)
    OBVIOUS
  <2>2. /\ mutex_list' = [mutex_list EXCEPT ![a] = ml]
        /\ mutex_release(a, ml, blk_list)
        /\ cs'.op = "handover" /\ cs'.obj = m
    BY <1>4, <2>0, <2>1 DEF UnlockRelease, CsNone
  <2>3. /\ \A t \in AllTask : Bound(t)' => IsLimit(NextPrio(t)', b_prio'[t], Lenders(t)', prio')
        /\ mutex_list'[Idle] = <<>>
        /\ chg'.task \in {a, None}
        /\ blk_list[m] = <<>> => chg'.task = None
    BY <1>1, <1>2, <2>0, <2>1, <2>2, InheritRelease
  <2> QED BY <1>1, <2>0, <2>2, <2>3 DEF InheritInv
<1> QED BY <1>1, <1>3, <1>4

(* krhino_mutex_del lowers the owner likewise. *)
LEMMA InheritMutexDel ==
  ASSUME KernelInv, InheritInv, NEW m \in Mutex, krhino_mutex_del(m)
  PROVE  InheritInv'
<1>0. PICK w, ml : w = mutex_task[m] /\ ml = klist_rm(mutex_list[w], m)
  OBVIOUS
<1>1. /\ TaskCall("krhino_mutex_del") /\ m \in live /\ live' = live \ {m}
      /\ IF w # None
         THEN /\ mutex_list' = [mutex_list EXCEPT ![w] = ml]
              /\ mutex_release(w, ml, blk_list)
         ELSE UNCHANGED <<mutex_list, chg>>
      /\ cs'.op = "wake" /\ cs'.obj = m
      /\ UNCHANGED <<active, blk_list, task_state, prio, b_prio, mutex_task>>
  BY <1>0 DEF krhino_mutex_del, CsNone
<1>2. cs.op = "none" /\ chg.task = None
  BY <1>1, TaskContext
<1>3. CASE w # None
  <2>1. w \in Task /\ task_state[w] # "K_DELETED" /\ m \in ToSet(mutex_list[w])
    <3>1. w \in Task
      BY <1>0, <1>3 DEF KernelInv, TypeOK
    <3> QED BY <1>0, <1>1, <1>2, <3>1, Settled
  <2>2. /\ \A t \in AllTask : Bound(t)' => IsLimit(NextPrio(t)', b_prio'[t], Lenders(t)', prio')
        /\ mutex_list'[Idle] = <<>>
    BY <1>0, <1>1, <1>2, <1>3, <2>1, InheritRelease
  <2> QED BY <1>1, <2>2 DEF InheritInv
<1>4. CASE w = None
  <2>1. \A t \in AllTask : Bound(t)' => Bound(t)
    BY <1>1, <1>2 DEF Bound
  <2> QED BY <1>1, <1>2, <1>4, <2>1, InheritSteady
<1> QED BY <1>3, <1>4

(* krhino_mutex_create. *)
LEMMA InheritMutexCreate ==
  ASSUME KernelInv, InheritInv, NEW m \in Mutex, krhino_mutex_create(m)
  PROVE  InheritInv'
<1>1. /\ TaskCall("krhino_mutex_create") /\ m \notin live
      /\ blk_list' = [blk_list EXCEPT ![m] = <<>>]
      /\ UNCHANGED <<active, task_state, prio, b_prio, mutex_list, chg, cs>>
  BY DEF krhino_mutex_create
<1>2. cs.op = "none" /\ chg.task = None
  BY <1>1, TaskContext
<1>3. \A x \in Mutex \cap live : blk_list'[x] = blk_list[x]
  BY <1>1 DEF KernelInv, TypeOK, Obj
<1>4. \A t \in AllTask : Bound(t)' => Bound(t)
  BY <1>1 DEF Bound
<1> QED BY <1>1, <1>2, <1>3, <1>4, InheritSteady

(* The first waiter becomes the owner, at the priority it has: the other
   waiters are behind it. *)
LEMMA InheritHanded ==
  ASSUME KernelInv, InheritInv, chg.task = None, chg' = chg, cs.op # "pend",
         cs'.op \notin {"pend", "wake"}, NEW m \in Mutex \cap live, blk_list[m] # <<>>,
         NEW t, t = Head(blk_list[m]),
         blk_list' = [blk_list EXCEPT ![m] = klist_rm(@, t)],
         mutex_list' = [mutex_list EXCEPT ![t] = <<m>> \o @],
         UNCHANGED <<prio, b_prio>>,
         \A u \in AllTask : Bound(u)' => Bound(u),
         \A u \in AllTask : Bound(u) => m \notin ToSet(mutex_list[u])
  PROVE  InheritInv'
<1>1. /\ m \in Obj /\ Mutex \subseteq Obj /\ blk_list \in [Obj -> Seq(Task)] /\ Lists
      /\ mutex_list \in [AllTask -> Seq(Mutex)] /\ prio \in [AllTask -> Prio]
      /\ None \notin AllTask /\ mutex_list[Idle] = <<>> /\ Idle \notin Task /\ Idle \in AllTask
      /\ Sorted(blk_list[m], prio) /\ Linear(blk_list[m])
  BY InvLists, TaskAssumption DEF KernelInv, TypeOK, Obj, InheritInv, AllTask, Waiting
<1>2. t \in Task /\ t \in AllTask /\ t \in ToSet(blk_list[m])
  BY <1>1, FirstWaiter DEF AllTask
<1>3. \A v \in ToSet(blk_list[m]) : prio[t] <= prio[v]
  BY <1>1, HeadLeads
<1>4. /\ ToSet(blk_list'[m]) = ToSet(blk_list[m]) \ {t}
      /\ \A x \in Obj : x # m => blk_list'[x] = blk_list[x]
  BY <1>1, <1>2, KlistRm
<1>5. /\ ToSet(mutex_list'[t]) = ToSet(mutex_list[t]) \cup {m}
      /\ \A u \in AllTask : u # t => mutex_list'[u] = mutex_list[u]
  BY <1>1, <1>2, PutInFront
<1>6. ASSUME NEW u \in AllTask, Bound(u)'
      PROVE  IsLimit(NextPrio(u)', b_prio'[u], Lenders(u)', prio')
  <2>1. Bound(u) /\ m \notin ToSet(mutex_list[u])
    BY <1>6
  <2>2. \A x \in ToSet(mutex_list[u]) : x \in Obj /\ x # m
    BY <1>1, <2>1, HeldLive
  <2>3. NextPrio(u) = prio[u] /\ NextPrio(u)' = prio[u]
    BY <1>1 DEF NextPrio
  <2>4. IsLimit(prio[u], b_prio[u], Lenders(u), prio)
    BY <2>1, <2>3 DEF InheritInv
  <2>5. CASE u = t
    <3>1. Lenders(u)' = Lenders(u) \cup (ToSet(blk_list[m]) \ {t})
      <4>1. ToSet(blk_list[m]) \subseteq Task
        BY <1>1, EntrySet
      <4> QED BY <1>4, <1>5, <2>2, <2>5, <4>1 DEF Lenders
    <3>2. IsLimit(prio[u], b_prio[u], Lenders(u) \cup (ToSet(blk_list[m]) \ {t}), prio)
      BY <1>3, <2>4, <2>5 DEF IsLimit
    <3> QED BY <2>3, <3>1, <3>2
  <2>6. CASE u # t
    <3>1. Lenders(u)' = Lenders(u)
      BY <1>4, <1>5, <2>2, <2>6 DEF Lenders
    <3> QED BY <2>3, <2>4, <3>1
  <2> QED BY <2>5, <2>6
<1> QED BY <1>1, <1>2, <1>5, <1>6 DEF InheritInv

(* The next owner is the first waiter, so none of the others is above it. *)
LEMMA InheritHandover ==
  ASSUME KernelInv, InheritInv, UnlockFree \/ UnlockHandover
  PROVE  InheritInv'
<1>1. /\ cs.op = "handover" /\ chg.task = None /\ UNCHANGED <<prio, b_prio, live, chg>>
  BY DEF UnlockFree, UnlockHandover
<1>2. CASE UnlockFree
  BY <1>1, <1>2, InheritPlain DEF UnlockFree
<1>3. CASE UnlockHandover
  <2>0. PICK m, t : m = cs.obj /\ t = Head(blk_list[m])
    OBVIOUS
  <2>1. /\ blk_list[m] # <<>> /\ pend_task_wakeup(t, "BLK_FINISH")
        /\ mutex_list' = [mutex_list EXCEPT ![t] = <<m>> \o @]
        /\ cs' = CsExit
    BY <1>3, <2>0 DEF UnlockHandover
  <2>2. m \in Mutex \cap live /\ mutex_task[m] = active /\ m \notin ToSet(mutex_list[active]) /\ m \in Obj
    BY <1>1, <2>0 DEF KernelInv, CsInv, Obj
  <2>3. blk_obj[t] = m /\ t \in AllTask /\ task_state[t] \in PendStates
    BY <2>0, <2>1, <2>2, InvLists, FirstWaiter DEF AllTask
  <2>4. \A u \in AllTask : Bound(u) => m \notin ToSet(mutex_list[u])
    BY <2>2, HeldLive DEF InheritInv
  <2>5. \A u \in AllTask : Bound(u)' => Bound(u)
    <3>1. task_state' = [task_state EXCEPT ![t] = Awake(@)]
      BY <2>1 DEF pend_task_wakeup
    <3>2. \A u \in AllTask : task_state[u] = "K_DELETED" => task_state'[u] = "K_DELETED"
      BY <2>3, <3>1 DEF KernelInv, TypeOK, PendStates
    <3> QED BY <1>1, <3>2 DEF Bound
  <2>6. blk_list' = [blk_list EXCEPT ![m] = klist_rm(@, t)]
    BY <2>1, <2>3 DEF pend_task_wakeup
  <2> QED BY <1>1, <2>0, <2>1, <2>2, <2>4, <2>5, <2>6, Records, InheritHanded
<1> QED BY <1>2, <1>3

(* The same when the owner is deleted. *)
LEMMA InheritFree ==
  ASSUME KernelInv, InheritInv, FreeToWaiter \/ FreeUnowned
  PROVE  InheritInv'
<1>1. /\ cs.op = "free" /\ cs.list # <<>> /\ UNCHANGED <<prio, b_prio, live, chg>>
      /\ cs' = [cs EXCEPT !.list = Tail(@)]
  BY DEF FreeToWaiter, FreeUnowned
<1>2. /\ chg.task = None /\ cs.task \in Task
      /\ Head(cs.list) \in Mutex \cap live /\ mutex_task[Head(cs.list)] = cs.task
  BY <1>1, FreeContext, FirstEntry
<1>3. cs'.op = "free" /\ cs'.task = cs.task
  BY <1>1 DEF KernelInv, TypeOK, CsType
<1>4. CASE FreeUnowned
  <2>1. UNCHANGED <<mutex_list, blk_list, task_state>>
    BY <1>4 DEF FreeUnowned
  <2>2. \A u \in AllTask : Bound(u)' => Bound(u)
    BY <1>1, <1>3, <2>1 DEF Bound
  <2> QED BY <1>1, <1>2, <1>3, <2>1, <2>2, InheritSteady
<1>5. CASE FreeToWaiter
  <2>0. PICK m, t : m = Head(cs.list) /\ t = Head(blk_list[m])
    OBVIOUS
  <2>1. /\ blk_list[m] # <<>> /\ pend_task_wakeup(t, "BLK_FINISH")
        /\ mutex_list' = [mutex_list EXCEPT ![t] = <<m>> \o @]
    BY <1>5, <2>0 DEF FreeToWaiter
  <2>2. m \in Mutex \cap live /\ mutex_task[m] = cs.task /\ m \in Obj
    BY <1>2, <2>0 DEF Obj
  <2>3. blk_obj[t] = m /\ t \in AllTask /\ task_state[t] \in PendStates
    BY <2>0, <2>1, <2>2, InvLists, FirstWaiter DEF AllTask
  <2>4. \A u \in AllTask : Bound(u) => m \notin ToSet(mutex_list[u])
    <3>1. \A u \in AllTask : Bound(u) => u # cs.task
      BY <1>1 DEF Bound
    <3> QED BY <2>2, <3>1, HeldLive DEF InheritInv
  <2>5. \A u \in AllTask : Bound(u)' => Bound(u)
    <3>1. task_state' = [task_state EXCEPT ![t] = Awake(@)]
      BY <2>1 DEF pend_task_wakeup
    <3>2. \A u \in AllTask : task_state[u] = "K_DELETED" => task_state'[u] = "K_DELETED"
      BY <2>3, <3>1 DEF KernelInv, TypeOK, PendStates
    <3> QED BY <1>1, <1>3, <3>2 DEF Bound
  <2>6. blk_list' = [blk_list EXCEPT ![m] = klist_rm(@, t)]
    BY <2>1, <2>3 DEF pend_task_wakeup
  <2> QED BY <1>1, <1>2, <1>3, <2>0, <2>1, <2>2, <2>4, <2>5, <2>6, InheritHanded
<1> QED BY <1>4, <1>5

------------------------------------------------------------------------------
(* Tasks: timeouts, aborts, deletion, creation, change of priority. *)

(* A wait that times out. *)
LEMMA InheritTimeout ==
  ASSUME KernelInv, InheritInv, TickTimeout
  PROVE  InheritInv'
<1>0. PICK t : t = Head(tick_list)
  OBVIOUS
<1>1. /\ cs.op = "tick" /\ chg.task = None /\ TickExpired
      /\ task_state[t] \in PendStates
      /\ blk_list' = [blk_list EXCEPT ![blk_obj[t]] = klist_rm(@, t)]
      /\ task_state' = [task_state EXCEPT ![t] = Awake(@)]
      /\ mutex_task_pri_reset(t, [blk_list EXCEPT ![blk_obj[t]] = klist_rm(@, t)])
      /\ UNCHANGED <<prio, b_prio, mutex_list, cs>>
  BY <1>0 DEF TickTimeout
<1>2. t \in Task /\ t \in AllTask
  BY <1>0, <1>1, FirstEntry DEF TickExpired, KernelInv, TypeOK, AllTask
<1>3. \A u \in AllTask : Bound(u)' => Bound(u)
  BY <1>1, <1>2 DEF Bound, KernelInv, TypeOK, PendStates
<1> QED BY <1>1, <1>2, <1>3, InheritReset

(* A wait that is aborted. *)
LEMMA InheritAbort ==
  ASSUME KernelInv, InheritInv, NEW t \in Task, krhino_task_wait_abort(t)
  PROVE  InheritInv'
<1>1. /\ TaskCall("krhino_task_wait_abort") /\ cs' = CsExit
      /\ AbortReady(t) \/ AbortSleep(t) \/ AbortPend(t)
      /\ task_state' = [task_state EXCEPT ![t] = "K_RDY"]
      /\ task_state[t] # "K_DELETED"
      /\ UNCHANGED <<prio, b_prio, mutex_list, live>>
  BY DEF krhino_task_wait_abort, AbortReady, AbortSleep, AbortPend, SleepStates, PendStates
<1>2. cs.op = "none" /\ chg.task = None /\ t \in AllTask
  BY <1>1, TaskContext DEF AllTask
<1>3. \A u \in AllTask : Bound(u)' => Bound(u)
  BY <1>1, <1>2 DEF Bound, KernelInv, TypeOK
<1>4. CASE AbortReady(t) \/ AbortSleep(t)
  <2>1. UNCHANGED <<blk_list, chg>>
    BY <1>4 DEF AbortReady, AbortSleep
  <2> QED BY <1>1, <1>2, <1>3, <2>1, Records, InheritSteady
<1>5. CASE AbortPend(t)
  <2>1. /\ task_state[t] \in PendStates
        /\ blk_list' = [blk_list EXCEPT ![blk_obj[t]] = klist_rm(@, t)]
        /\ mutex_task_pri_reset(t, [blk_list EXCEPT ![blk_obj[t]] = klist_rm(@, t)])
    BY <1>5 DEF AbortPend
  <2> QED BY <1>1, <1>2, <1>3, <2>1, Records, InheritReset
<1> QED BY <1>1, <1>4, <1>5

(* A waiter that is deleted. *)
LEMMA InheritDelTask ==
  ASSUME KernelInv, InheritInv, DelTask
  PROVE  InheritInv'
<1>0. PICK t : t = cs.task
  OBVIOUS
<1>1. /\ cs.op = "free" /\ cs.list = <<>>
      /\ UNCHANGED <<prio, b_prio, mutex_list, live>>
  BY DEF DelTask
<1>2. chg.task = None /\ t \in Task /\ t \in AllTask /\ task_state[t] # "K_DELETED"
  BY <1>0, <1>1, FreeContext DEF AllTask
<1>3. /\ DelUnpended(t) \/ DelPended(t)
      /\ task_state' = [task_state EXCEPT ![t] = "K_DELETED"]
      /\ cs' = CsExit
  BY <1>0, <1>2 DEF DelTask
<1>4. \A u \in AllTask : Bound(u)' => Bound(u)
  BY <1>0, <1>2, <1>3 DEF Bound, KernelInv, TypeOK
<1>5. CASE DelUnpended(t)
  <2>1. UNCHANGED <<blk_list, chg>>
    BY <1>5 DEF DelUnpended
  <2> QED BY <1>1, <1>2, <1>3, <1>4, <2>1, Records, InheritSteady
<1>6. CASE DelPended(t)
  <2>1. /\ task_state[t] \in PendStates
        /\ blk_list' = [blk_list EXCEPT ![blk_obj[t]] = klist_rm(@, t)]
        /\ mutex_task_pri_reset(t, [blk_list EXCEPT ![blk_obj[t]] = klist_rm(@, t)])
    BY <1>6 DEF DelPended
  <2> QED BY <1>0, <1>1, <1>2, <1>3, <1>4, <2>1, Records, InheritReset
<1> QED BY <1>3, <1>5, <1>6

(* krhino_task_pri_change, within what the waiters require. *)
LEMMA InheritPriChange ==
  ASSUME KernelInv, InheritInv, krhino_task_pri_change
  PROVE  InheritInv'
<1>0. PICK t, p : t = arg[active].task /\ p = arg[active].pri
  OBVIOUS
<1>1. /\ InTask /\ pc[active] = "pri_change"
      /\ b_prio' = [b_prio EXCEPT ![t] = p]
      /\ chg' = [task |-> t, pri |-> mutex_pri_limit(p, mutex_list[t], blk_list, prio)]
      /\ cs' = CsExit
      /\ UNCHANGED <<active, prio, blk_list, task_state, mutex_list>>
  BY <1>0 DEF krhino_task_pri_change
<1>2. cs.op = "none" /\ chg.task = None /\ t \in Task /\ p \in Prio /\ t \in AllTask
  <2>1. Quiet /\ active \in AllTask
    BY <1>1 DEF InTask, KernelInv, TypeOK
  <2>2. arg[active] \in [task : Task, pri : Prio]
    BY <1>1, <2>1 DEF KernelInv, CallInv
  <2> QED BY <1>0, <2>1, <2>2 DEF Quiet, AllTask
<1>3. ASSUME NEW u \in AllTask, Bound(u)'
      PROVE  IsLimit(NextPrio(u)', b_prio'[u], Lenders(u)', prio')
  <2>1. Bound(u) /\ Lenders(u) = Waiters(u) /\ Lenders(u)' = Waiters(u)
    BY <1>1, <1>2, <1>3, LendersWait, Records DEF Bound, Lenders, Waiters
  <2>2. CASE u = t
    <3>1. NextPrio(u)' = mutex_pri_limit(p, mutex_list[t], blk_list, prio) /\ b_prio'[u] = p
      BY <1>1, <1>2, <2>2 DEF NextPrio, KernelInv, TypeOK
    <3>2. /\ mutex_list[t] \in Seq(Mutex)
          /\ \A m \in ToSet(mutex_list[t]) : Sorted(blk_list[m], prio)
      BY <2>1, <2>2, HeldLive DEF InheritInv
    <3>3. blk_list \in [Obj -> Seq(Task)] /\ prio \in [AllTask -> Prio]
      BY DEF KernelInv, TypeOK
    <3>4. IsLimit(mutex_pri_limit(p, mutex_list[t], blk_list, prio), p, Waiters(t), prio)
      BY <1>2, <3>2, <3>3, LimitIs DEF Waiters
    <3> QED BY <1>1, <2>1, <2>2, <3>1, <3>4
  <2>3. CASE u # t
    <3>1. NextPrio(u)' = prio[u] /\ b_prio'[u] = b_prio[u] /\ NextPrio(u) = prio[u]
      BY <1>1, <1>2, <2>3, TaskAssumption DEF NextPrio, KernelInv, TypeOK
    <3> QED BY <1>1, <2>1, <3>1 DEF InheritInv
  <2> QED BY <2>2, <2>3
<1> QED BY <1>1, <1>3, Records DEF InheritInv

(* A new task has no mutexes. *)
LEMMA InheritCreate ==
  ASSUME KernelInv, InheritInv, NEW t \in Task, NEW autorun \in BOOLEAN,
         krhino_task_create(t, autorun)
  PROVE  InheritInv'
<1>1. /\ TaskCall("krhino_task_create") /\ task_state[t] = "K_DELETED"
      /\ prio' = [prio EXCEPT ![t] = BasePrio[t]]
      /\ b_prio' = [b_prio EXCEPT ![t] = BasePrio[t]]
      /\ mutex_list' = [mutex_list EXCEPT ![t] = <<>>]
      /\ \/ task_state' = [task_state EXCEPT ![t] = "K_RDY"]
         \/ task_state' = [task_state EXCEPT ![t] = "K_SUSPENDED"]
      /\ UNCHANGED <<blk_list, chg, cs>>
  BY DEF krhino_task_create
<1>2. /\ cs.op = "none" /\ chg.task = None /\ t \in AllTask /\ t # Idle /\ Idle \in AllTask
      /\ None \notin AllTask /\ mutex_list[Idle] = <<>> /\ BasePrio[t] \in Nat
      /\ b_prio \in [AllTask -> Prio] /\ prio \in [AllTask -> Prio]
      /\ mutex_list \in [AllTask -> Seq(Mutex)] /\ task_state \in [AllTask -> TaskStates]
  BY <1>1, TaskContext, TaskAssumption, NumberAssumption, Bounds
     DEF InheritInv, KernelInv, TypeOK, AllTask
<1>3. ToSet(mutex_list'[t]) = {}
  BY <1>1, <1>2 DEF ToSet
<1>4. ASSUME NEW u \in AllTask, Bound(u)'
      PROVE  IsLimit(NextPrio(u)', b_prio'[u], Lenders(u)', prio')
  <2>1. NextPrio(u)' = prio'[u] /\ NextPrio(u) = prio[u]
    BY <1>1, <1>2 DEF NextPrio
  <2>2. CASE u = t
    <3>1. Lenders(u)' = {} /\ b_prio'[u] = prio'[u] /\ prio'[u] \in Nat
      BY <1>1, <1>2, <1>3, <2>2 DEF Lenders
    <3> QED BY <2>1, <3>1 DEF IsLimit
  <2>3. CASE u # t
    <3>1. /\ Bound(u) /\ prio'[u] = prio[u] /\ b_prio'[u] = b_prio[u]
          /\ Lenders(u)' = Lenders(u)
      BY <1>1, <1>2, <1>4, <2>3 DEF Bound, Lenders
    <3>2. IsLimit(prio[u], b_prio[u], Lenders(u), prio)
      BY <2>1, <3>1 DEF InheritInv
    <3>3. ASSUME NEW v \in Lenders(u) PROVE prio'[v] = prio[v]
      <4>1. PICK m \in ToSet(mutex_list[u]) : v \in ToSet(blk_list[m])
        BY <1>2 DEF Lenders
      <4>2. m \in Obj
        BY <1>2, <3>1, HeldLive DEF Obj
      <4>3. task_state[v] \in PendStates /\ v \in AllTask
        BY <4>1, <4>2 DEF KernelInv, Waiting, AllTask
      <4> QED BY <1>1, <1>2, <4>3 DEF PendStates
    <3>4. IsLimit(prio[u], b_prio[u], Lenders(u), prio')
      BY <3>2, <3>3 DEF IsLimit
    <3> QED BY <2>1, <3>1, <3>4
  <2> QED BY <2>2, <2>3
<1> QED BY <1>1, <1>2, <1>4 DEF InheritInv

(* All functions on tasks. *)
LEMMA InheritTask ==
  ASSUME KernelInv, InheritInv, TaskNext
  PROVE  InheritInv'
<1>0. Targets \subseteq Task /\ task_state \in [AllTask -> TaskStates] /\ Task \subseteq AllTask
  BY TaskAssumption DEF KernelInv, TypeOK, AllTask
<1>1. ASSUME NEW ticks \in Timeouts, krhino_task_sleep(ticks) PROVE InheritInv'
  <2>1. /\ TaskCall("krhino_task_sleep") /\ task_state' = [task_state EXCEPT ![active] = "K_SLEEP"]
        /\ UNCHANGED <<chg, prio, b_prio, mutex_list, blk_list, live, cs>>
    BY <1>1 DEF krhino_task_sleep
  <2>2. cs.op = "none" /\ chg.task = None /\ task_state[active] = "K_RDY" /\ active \in Task
    BY <2>1, TaskContext
  <2>3. \A t \in AllTask : task_state[t] = "K_DELETED" => task_state'[t] = "K_DELETED"
    BY <1>0, <2>1, <2>2
  <2> QED BY <2>1, <2>2, <2>3, InheritPlain
<1>2. ASSUME NEW t \in Targets, task_suspend(t) \/ task_resume(t) PROVE InheritInv'
  <2>1. /\ \E f : AnyCall(f)
        /\ UNCHANGED <<chg, prio, b_prio, mutex_list, blk_list, live, cs>>
        /\ \/ task_state' = task_state
           \/ task_state[t] # "K_DELETED" /\ \E x : task_state' = [task_state EXCEPT ![t] = x]
    BY <1>2 DEF task_suspend, task_resume, SuspendStates
  <2>2. cs.op = "none" /\ chg.task = None
    BY <2>1, CallContext
  <2>3. \A u \in AllTask : task_state[u] = "K_DELETED" => task_state'[u] = "K_DELETED"
    BY <1>0, <2>1
  <2> QED BY <2>1, <2>2, <2>3, InheritPlain
<1>3. ASSUME NEW t \in Targets,
             \/ \E pri \in PriChoices : PriChangeCheck(t, pri)
             \/ \E u \in Task : krhino_task_time_slice_set(t, SliceTotal[u])
             \/ \E policy \in {"KSCHED_FIFO", "KSCHED_RR"} : krhino_sched_policy_set(t, policy)
      PROVE  InheritInv'
  <2>1. /\ \E f : TaskCall(f)
        /\ UNCHANGED <<chg, prio, b_prio, mutex_list, blk_list, live, cs, task_state>>
    BY <1>3 DEF PriChangeCheck, krhino_task_time_slice_set, krhino_sched_policy_set
  <2>2. cs.op = "none" /\ chg.task = None
    BY <2>1, TaskContext
  <2> QED BY <2>1, <2>2, InheritPlain
<1>4. ASSUME NEW t \in Targets, krhino_task_del(t) PROVE InheritInv'
  <2>1. /\ TaskCall("krhino_task_del") /\ cs'.op = "free"
        /\ UNCHANGED <<chg, prio, b_prio, mutex_list, blk_list, live, task_state>>
    BY <1>4 DEF krhino_task_del, CsNone
  <2>2. cs.op = "none" /\ chg.task = None
    BY <2>1, TaskContext
  <2>3. \A u \in AllTask : Bound(u)' => Bound(u)
    BY <2>1, <2>2 DEF Bound
  <2> QED BY <2>1, <2>2, <2>3, InheritSteady
<1> QED BY <1>0, <1>1, <1>2, <1>3, <1>4, InheritAbort, InheritCreate, InheritPriChange DEF TaskNext

(* Every step keeps InheritInv. *)
LEMMA InheritStep ==
  ASSUME KernelInv, KernelInv', InheritInv, Next
  PROVE  InheritInv'
<1>1. CASE MutexNext
  BY <1>1, InheritMutexCreate, InheritMutexDel, InheritLock, InheritUnlock DEF MutexNext
<1>2. CASE CriticalNext
  BY <1>2, InheritPriStep, InheritEnds, InheritTimeout, InheritLockPend, InheritHandover, InheritWake,
     InheritFree, InheritDelTask DEF CriticalNext, tick_list_update
<1> QED BY <1>1, <1>2, InheritSched, InheritTask, InheritSem DEF Next

(* In the beginning every task has its own priority. *)
LEMMA InheritInit ==
  Init => InheritInv
<1> SUFFICES ASSUME Init PROVE InheritInv
  OBVIOUS
<1>1. /\ prio = b_prio /\ cs.op = "none" /\ chg.task = None /\ Idle \in AllTask
      /\ mutex_list = [t \in AllTask |-> <<>>] /\ \A t \in AllTask : prio[t] \in Nat
  BY Records, NumberAssumption, Bounds DEF Init, AllTask
<1>2. ASSUME NEW t \in AllTask PROVE IsLimit(NextPrio(t), b_prio[t], Lenders(t), prio)
  <2>1. ToSet(mutex_list[t]) = {}
    BY <1>1 DEF ToSet
  <2>2. Lenders(t) = {} /\ NextPrio(t) = prio[t]
    BY <1>1, <2>1, TaskAssumption DEF Lenders, NextPrio
  <2> QED BY <1>1, <2>2 DEF IsLimit
<1> QED BY <1>1, <1>2 DEF InheritInv

(* Inheritance is InheritInv when no critical section is under way. *)
LEMMA InheritQuiet ==
  ASSUME KernelInv, InheritInv
  PROVE  Inheritance
<1> SUFFICES ASSUME Quiet, NEW t \in AllTask, task_state[t] # "K_DELETED"
             PROVE  prio[t] = mutex_pri_limit(b_prio[t], mutex_list[t], blk_list, prio)
  BY DEF Inheritance
<1>1. Bound(t) /\ cs.op # "pend" /\ chg.task # t
  BY TaskAssumption DEF Bound, Quiet
<1>2. IsLimit(prio[t], b_prio[t], Waiters(t), prio)
  BY <1>1, LendersWait DEF InheritInv, NextPrio
<1>3. /\ mutex_list[t] \in Seq(Mutex) /\ b_prio[t] \in Prio
      /\ \A m \in ToSet(mutex_list[t]) : Sorted(blk_list[m], prio)
  BY <1>1, HeldLive DEF InheritInv
<1>4. blk_list \in [Obj -> Seq(Task)] /\ prio \in [AllTask -> Prio]
  BY DEF KernelInv, TypeOK
<1>5. IsLimit(mutex_pri_limit(b_prio[t], mutex_list[t], blk_list, prio), b_prio[t], Waiters(t), prio)
  BY <1>3, <1>4, LimitIs DEF Waiters
<1>6. \A u \in Waiters(t) : prio[u] \in Prio
  BY <1>4 DEF Waiters, AllTask
<1> QED BY <1>2, <1>3, <1>5, <1>6, LimitUnique

(* Priority inheritance is exact: whenever no critical section is under way,
   every task runs at the higher of its own priority and the priorities of the
   tasks that wait for its mutexes, however long the chains of owners are and
   in whichever order waits begin, time out, are aborted or are served. *)
THEOREM InheritanceExact ==
  ASSUME NoDelAgain
  PROVE  Spec => []Inheritance
<1> DEFINE Inv == KernelInv /\ InheritInv
<1>1. Init => Inv
  BY InitInv, InheritInit
<1>2. Inv /\ [Next]_vars => Inv'
  <2>1. ASSUME Inv, Next PROVE Inv'
    BY <2>1, NextInv, InheritStep
  <2>2. ASSUME Inv, UNCHANGED vars PROVE Inv'
    <3>1. InheritInv'
      BY <2>2 DEF vars, InheritInv, Bound, NextPrio, Lenders, IsLimit
    <3> QED BY <2>2, <3>1, StutterInv
  <2> QED BY <2>1, <2>2
<1>3. Inv => Inheritance
  BY InheritQuiet
<1> QED BY <1>1, <1>2, <1>3, PTL DEF Spec

------------------------------------------------------------------------------
(* The first ready task runs. *)

(* The antecedent of SchedInv. *)
MustRun ==
  /\ intrpt = 0 /\ sched_lock = 0 /\ pc[active] \notin {"sched", "sched_pend"}
  /\ Quiet \/ ChangesDeleted \/ (cs.op = "handover" /\ blk_list[cs.obj] = <<>>)

(* A step without a change of a deleted task that ends where somebody else will
   choose the task to run, or that leaves the choice as it was. *)
LEMMA SchedDefers ==
  ASSUME ~ChangesDeleted', ~MustRun'
  PROVE  SchedInv'
BY DEF SchedInv, MustRun

(* A step that leaves the ready list and the active task alone, where the first ready
   task ran already. *)
LEMMA SchedKeeps ==
  ASSUME SchedInv, UNCHANGED <<rq, active>>, MustRun, ~ChangesDeleted'
  PROVE  SchedInv'
BY DEF SchedInv, MustRun

(* The scheduler keeps SchedInv. *)
LEMMA SchedSched ==
  ASSUME KernelInv, SchedInv, SchedNext
  PROVE  SchedInv'
<1>0. /\ active \in AllTask /\ intrpt \in Nat /\ sched_lock \in Nat
      /\ pc \in [AllTask -> {"user", "sched", "sched_pend", "pend", "pri_change"}]
  BY Bounds DEF KernelInv, TypeOK
<1>1. Quiet /\ chg' = chg /\ ~ChangesDeleted'
  BY DEF SchedNext, krhino_sched_disable, krhino_sched_enable, core_sched, pend_state_end_proc,
         krhino_intrpt_enter, krhino_intrpt_exit, krhino_task_yield, TickIntrpt, TickSlice,
         TaskCall, InTask, InIsr, Quiet, ChangesDeleted
<1>2. CASE krhino_sched_disable \/ krhino_intrpt_enter \/ TickIntrpt
  <2>1. sched_lock' = sched_lock + 1 \/ intrpt' = intrpt + 1
    BY <1>2 DEF krhino_sched_disable, krhino_intrpt_enter, TickIntrpt
  <2>2. ~MustRun'
    BY <1>0, <2>1 DEF MustRun
  <2> QED BY <1>1, <2>2, SchedDefers
<1>3. CASE krhino_sched_enable
  <2>1. /\ TaskCall("krhino_sched_enable") /\ sched_lock > 0 /\ sched_lock' = sched_lock - 1
        /\ active' = active /\ (sched_lock = 1 => CriticalExitSched)
    BY <1>3 DEF krhino_sched_enable
  <2>2. intrpt = 0
    BY <2>1, TaskContext
  <2>3. sched_lock' = 0 => pc'[active'] = "sched"
    BY <1>0, <2>1, <2>2 DEF CriticalExitSched
  <2>4. ~MustRun'
    BY <2>3 DEF MustRun
  <2> QED BY <1>1, <2>4, SchedDefers
<1>4. CASE core_sched \/ krhino_intrpt_exit
  <2>1. /\ rq' = rq /\ sched_lock' = sched_lock
        /\ intrpt' = 0 /\ sched_lock = 0 => active' = preferred_cpu_ready_task_get(rq)
    <3>1. CASE core_sched
      BY <3>1, <1>0 DEF core_sched
    <3>2. CASE krhino_intrpt_exit
      <4>1. /\ rq' = rq /\ sched_lock' = sched_lock /\ intrpt' = intrpt - 1
            /\ active' = IF intrpt > 1 \/ sched_lock > 0 THEN active
                         ELSE preferred_cpu_ready_task_get(rq)
        BY <3>2 DEF krhino_intrpt_exit
      <4> QED BY <1>0, <4>1
    <3> QED BY <1>4, <3>1, <3>2
  <2> QED BY <1>1, <2>1 DEF SchedInv
<1>5. CASE pend_state_end_proc
  <2>1. /\ InTask /\ pc[active] = "pend" /\ UNCHANGED <<rq, active, intrpt, sched_lock>>
    BY <1>5 DEF pend_state_end_proc
  <2>2. sched_lock = 0 => MustRun
    BY <1>1, <2>1 DEF MustRun, InTask
  <2>3. sched_lock # 0 => ~MustRun'
    BY <2>1 DEF MustRun
  <2> QED BY <1>1, <2>1, <2>2, <2>3, SchedKeeps, SchedDefers
<1>6. CASE krhino_task_yield
  <2>1. TaskCall("krhino_task_yield") /\ CriticalExitSched /\ active' = active
    BY <1>6 DEF krhino_task_yield
  <2>2. pc'[active'] = "sched"
    BY <2>1, SchedPoint, TaskContext
  <2>3. ~MustRun'
    BY <2>2 DEF MustRun
  <2> QED BY <1>1, <2>3, SchedDefers
<1>7. CASE TickSlice
  <2>1. intrpt' = intrpt /\ intrpt > 0
    <3>1. slice_due \subseteq 1 .. IntrptMax /\ intrpt \in slice_due /\ intrpt' = intrpt
      BY <1>7 DEF TickSlice, KernelInv, TypeOK
    <3> QED BY <1>0, <3>1
  <2>2. ~MustRun'
    BY <1>0, <2>1 DEF MustRun
  <2> QED BY <1>1, <2>2, SchedDefers
<1> QED BY <1>2, <1>3, <1>4, <1>5, <1>6, <1>7 DEF SchedNext

(* A call that ends at once leaves the choice as it was. *)
LEMMA SchedReturns ==
  ASSUME KernelInv, SchedInv, Quiet, UNCHANGED <<rq, active, intrpt, sched_lock>>,
         pc' = pc \/ pc[active] \notin {"sched", "sched_pend"}, chg'.task = None
  PROVE  SchedInv'
<1>1. ~ChangesDeleted'
  BY DEF ChangesDeleted
<1>2. MustRun' => MustRun
  BY DEF MustRun
<1> QED BY <1>1, <1>2, SchedKeeps, SchedDefers

(* A call that ends at its scheduling point. *)
LEMMA SchedPoints ==
  ASSUME KernelInv, CriticalExitSched, UNCHANGED <<active, intrpt>>, chg'.task = None
  PROVE  SchedInv'
<1>1. ~ChangesDeleted' /\ intrpt \in Nat
  BY Bounds DEF ChangesDeleted, KernelInv, TypeOK
<1>2. ~MustRun'
  BY <1>1, SchedPoint DEF MustRun
<1> QED BY <1>1, <1>2, SchedDefers

(* A critical section goes on, and will end at a scheduling point. *)
LEMMA SchedGoesOn ==
  ASSUME cs'.op \notin {"none", "handover"}, ~ChangesDeleted'
  PROVE  SchedInv'
<1>1. ~MustRun'
  BY DEF MustRun, Quiet
<1> QED BY <1>1, SchedDefers

(* The semaphore functions end at a scheduling point, or change no ready list. *)
LEMMA SchedSem ==
  ASSUME KernelInv, SchedInv, SemNext
  PROVE  SchedInv'
<1>1. PICK s \in Sem : \/ \E n \in SemChoices : krhino_sem_create(s, n)
                       \/ krhino_sem_del(s) \/ sem_give(s)
                       \/ \E ticks \in Timeouts : krhino_sem_take(s, ticks)
                       \/ \E n \in SemChoices : krhino_sem_count_set(s, n)
  BY DEF SemNext
<1>2. /\ Quiet /\ chg' = chg /\ UNCHANGED <<active, intrpt, sched_lock>> /\ ~ChangesDeleted'
      /\ chg'.task = None
  <2>1. (\E f : AnyCall(f)) /\ chg' = chg /\ UNCHANGED <<active, intrpt, sched_lock>>
    BY <1>1 DEF krhino_sem_create, krhino_sem_del, sem_give, GiveCount, GiveOne, GiveAll,
         krhino_sem_take, krhino_sem_count_set, AnyCall
  <2> QED BY <2>1, CallContext DEF ChangesDeleted
<1>3. CASE \/ \E n \in SemChoices : krhino_sem_create(s, n)
           \/ GiveCount(s)
           \/ \E ticks \in Timeouts : krhino_sem_take(s, ticks) /\ TakeCount(s)
           \/ \E n \in SemChoices : krhino_sem_count_set(s, n)
  <2>1. UNCHANGED <<rq, pc>>
    BY <1>3 DEF krhino_sem_create, GiveCount, TakeCount, krhino_sem_count_set
  <2> QED BY <1>2, <2>1, SchedReturns
<1>4. CASE krhino_sem_del(s) \/ GiveAll(s)
  <2>1. cs'.op = "wake"
    BY <1>4 DEF krhino_sem_del, GiveAll, CsNone
  <2> QED BY <1>2, <2>1, SchedGoesOn
<1>5. CASE GiveOne(s)
  BY <1>2, <1>5, SchedPoints DEF GiveOne
<1>6. CASE \E ticks \in Timeouts : krhino_sem_take(s, ticks) /\ TakeWait(s, ticks)
  <2>1. pc'[active'] = "sched_pend"
    BY <1>2, <1>6 DEF TakeWait, KernelInv, TypeOK
  <2>2. ~MustRun'
    BY <2>1 DEF MustRun
  <2> QED BY <1>2, <2>2, SchedDefers
<1> QED BY <1>1, <1>3, <1>4, <1>5, <1>6 DEF sem_give, krhino_sem_take

(* So do the functions on tasks. *)
LEMMA SchedTask ==
  ASSUME KernelInv, SchedInv, TaskNext
  PROVE  SchedInv'
<1>0. /\ Targets \subseteq Task /\ Task \subseteq AllTask /\ active \in AllTask
      /\ pc \in [AllTask -> {"user", "sched", "sched_pend", "pend", "pri_change"}]
      /\ blk_list \in [Obj -> Seq(Task)] /\ task_state \in [AllTask -> TaskStates]
  BY TaskAssumption DEF KernelInv, TypeOK, AllTask
<1>1. ASSUME NEW ticks \in Timeouts, krhino_task_sleep(ticks) PROVE SchedInv'
  <2>1. /\ TaskCall("krhino_task_sleep") /\ UNCHANGED <<chg, active>>
        /\ pc' = [pc EXCEPT ![active] = "sched_pend"]
    BY <1>1 DEF krhino_task_sleep
  <2>2. ~ChangesDeleted' /\ ~MustRun'
    BY <1>0, <2>1, TaskContext DEF ChangesDeleted, MustRun
  <2> QED BY <2>2, SchedDefers
<1>2. ASSUME NEW t \in Targets, task_suspend(t) \/ task_resume(t) PROVE SchedInv'
  <2>1. (\E f : AnyCall(f)) /\ CriticalExitSched /\ UNCHANGED <<chg, active, intrpt>>
    BY <1>2 DEF task_suspend, task_resume
  <2> QED BY <2>1, CallContext, SchedPoints
<1>3. ASSUME NEW t \in Targets,
             \/ \E pri \in PriChoices : PriChangeCheck(t, pri)
             \/ \E u \in Task : krhino_task_time_slice_set(t, SliceTotal[u])
             \/ \E policy \in {"KSCHED_FIFO", "KSCHED_RR"} : krhino_sched_policy_set(t, policy)
      PROVE  SchedInv'
  <2>1. (\E f : TaskCall(f)) /\ UNCHANGED <<chg, rq, active, intrpt, sched_lock>>
    BY <1>3 DEF PriChangeCheck, krhino_task_time_slice_set, krhino_sched_policy_set
  <2>2. Quiet /\ pc[active] = "user" /\ chg'.task = None
    BY <2>1, TaskContext
  <2> QED BY <2>1, <2>2, SchedReturns
<1>4. ASSUME NEW t \in Targets, krhino_task_del(t) PROVE SchedInv'
  <2>1. TaskCall("krhino_task_del") /\ cs'.op = "free" /\ chg' = chg
    BY <1>4 DEF krhino_task_del, CsNone
  <2>2. ~ChangesDeleted'
    BY <2>1, TaskContext DEF ChangesDeleted
  <2> QED BY <2>1, <2>2, SchedGoesOn
<1>5. ASSUME NEW t \in Targets, krhino_task_wait_abort(t) PROVE SchedInv'
  <2>1. /\ TaskCall("krhino_task_wait_abort") /\ cs' = CsExit
        /\ AbortReady(t) \/ AbortSleep(t) \/ AbortPend(t)
        /\ task_state' = [task_state EXCEPT ![t] = "K_RDY"]
    BY <1>5 DEF krhino_task_wait_abort, AbortReady, AbortSleep, AbortPend
  <2>2. ~ChangesDeleted'
    <3>1. CASE AbortReady(t) \/ AbortSleep(t)
      BY <2>1, <3>1, TaskContext DEF AbortReady, AbortSleep, ChangesDeleted
    <3>2. CASE AbortPend(t)
      <4>1. PICK bl : bl = [blk_list EXCEPT ![blk_obj[t]] = klist_rm(@, t)]
        OBVIOUS
      <4>2. task_state[t] \in PendStates /\ mutex_task_pri_reset(t, bl) /\ t \in Task
        BY <1>0, <3>2, <4>1 DEF AbortPend
      <4>3. bl \in [Obj -> Seq(Task)]
        <5>1. Waiting(blk_list, task_state, blk_obj, prio)
          BY DEF KernelInv
        <5>2. klist_rm(blk_list[blk_obj[t]], t) \in Seq(Task)
          BY ONLY <1>0, <4>2, <5>1, PendEntry
        <5> QED BY <1>0, <4>1, <5>2
      <4>4. chg'.task # None => chg'.task \in Task \ {t} /\ task_state[chg'.task] # "K_DELETED"
        BY <4>2, <4>3, ResetType
      <4> QED BY <1>0, <2>1, <4>4 DEF ChangesDeleted
    <3> QED BY <2>1, <3>1, <3>2
  <2> QED BY <2>1, <2>2, Records, SchedGoesOn
<1>6. ASSUME NEW t \in Targets, NEW autorun \in BOOLEAN, krhino_task_create(t, autorun)
      PROVE  SchedInv'
  <2>1. /\ TaskCall("krhino_task_create") /\ task_state[t] = "K_DELETED"
        /\ UNCHANGED <<active, intrpt, sched_lock, chg>>
        /\ \/ pc' = [pc EXCEPT ![t] = "user", ![active] = "sched"]
           \/ pc' = [pc EXCEPT ![t] = "user"] /\ rq' = rq
    BY <1>6 DEF krhino_task_create
  <2>2. /\ Quiet /\ chg'.task = None /\ t # active /\ t \in AllTask
        /\ pc[active] = "user"
    BY <1>0, <2>1, TaskContext
  <2>3. CASE pc' = [pc EXCEPT ![t] = "user", ![active] = "sched"]
    <3>1. ~ChangesDeleted' /\ ~MustRun'
      BY <1>0, <2>1, <2>2, <2>3 DEF ChangesDeleted, MustRun
    <3> QED BY <3>1, SchedDefers
  <2>4. CASE rq' = rq
    BY <2>1, <2>2, <2>4, SchedReturns
  <2> QED BY <2>1, <2>3, <2>4
<1>7. ASSUME krhino_task_pri_change PROVE SchedInv'
  <2>1. /\ InTask /\ pc[active] = "pri_change"
        /\ UNCHANGED <<active, intrpt, sched_lock, rq, pc>>
    BY <1>7 DEF krhino_task_pri_change
  <2>2. MustRun' => MustRun
    BY <2>1 DEF MustRun, InTask
  <2> QED BY <2>1, <2>2 DEF SchedInv, MustRun
<1> QED BY <1>1, <1>2, <1>3, <1>4, <1>5, <1>6, <1>7 DEF TaskNext

(* So do those on mutexes. *)
LEMMA SchedMutex ==
  ASSUME KernelInv, SchedInv, MutexNext
  PROVE  SchedInv'
<1>1. ASSUME NEW m \in Mutex, krhino_mutex_create(m) PROVE SchedInv'
  <2>1. TaskCall("krhino_mutex_create") /\ UNCHANGED <<chg, rq, active, intrpt, sched_lock, pc>>
    BY <1>1 DEF krhino_mutex_create
  <2> QED BY <2>1, TaskContext, SchedReturns
<1>2. ASSUME NEW m \in Mutex, krhino_mutex_del(m) PROVE SchedInv'
  <2>0. PICK w, ml : w = mutex_task[m] /\ ml = klist_rm(mutex_list[w], m)
    OBVIOUS
  <2>1. /\ TaskCall("krhino_mutex_del") /\ m \in live
        /\ cs'.op = "wake" /\ task_state' = task_state
        /\ IF w # None THEN mutex_release(w, ml, blk_list) ELSE chg' = chg
    BY <1>2, <2>0 DEF krhino_mutex_del, CsNone
  <2>2. cs.op = "none" /\ chg.task = None
    BY <2>1, TaskContext
  <2>3. w # None => task_state[w] # "K_DELETED"
    <3>1. w \in Task \cup {None}
      BY <2>0 DEF KernelInv, TypeOK
    <3>2. mutex_task[m] \in Task => task_state[mutex_task[m]] # "K_DELETED"
      BY <2>1, <2>2, Settled
    <3> QED BY <2>0, <3>1, <3>2
  <2>4. chg'.task \in {w, None}
    BY <2>1, <2>2, Records DEF mutex_release
  <2>5. ~ChangesDeleted'
    BY <2>1, <2>3, <2>4 DEF ChangesDeleted
  <2> QED BY <2>1, <2>5, SchedGoesOn
<1>3. ASSUME NEW m \in Mutex, NEW ticks \in Timeouts, krhino_mutex_lock(m, ticks) PROVE SchedInv'
  <2>1. /\ TaskCall("krhino_mutex_lock") /\ m \in live
        /\ UNCHANGED <<rq, active, intrpt, sched_lock, pc, task_state>>
        /\ LockNested(m) \/ LockFree(m) \/ LockWait(m, ticks)
    BY <1>3 DEF krhino_mutex_lock
  <2>2. Quiet /\ cs.op = "none" /\ chg.task = None
    BY <2>1, TaskContext
  <2>3. CASE LockNested(m) \/ LockFree(m)
    <3>1. chg' = chg
      BY <2>3 DEF LockNested, LockFree
    <3> QED BY <2>1, <2>2, <3>1, SchedReturns
  <2>4. CASE LockWait(m, ticks)
    <3>1. /\ mutex_task[m] # None /\ chg'.task \in {mutex_task[m], None} /\ cs'.op = "pend"
      BY <2>4, Records DEF LockWait, CsNone
    <3>2. task_state[mutex_task[m]] # "K_DELETED"
      BY <2>1, <2>2, <3>1, Settled DEF KernelInv, TypeOK
    <3>3. ~ChangesDeleted'
      BY <2>1, <3>1, <3>2 DEF ChangesDeleted
    <3> QED BY <3>1, <3>3, SchedGoesOn
  <2> QED BY <2>1, <2>3, <2>4
<1>4. ASSUME NEW m \in Mutex, krhino_mutex_unlock(m) PROVE SchedInv'
  <2>1. /\ TaskCall("krhino_mutex_unlock")
        /\ UNCHANGED <<rq, active, intrpt, sched_lock, pc, task_state>>
        /\ UnlockNested(m) \/ UnlockRelease(m)
    BY <1>4 DEF krhino_mutex_unlock
  <2>2. /\ Quiet /\ chg.task = None /\ active \in Task /\ task_state[active] = "K_RDY"
        /\ intrpt = 0 /\ pc[active] = "user"
    BY <2>1, TaskContext
  <2>3. ~ChangesDeleted'
    <3>1. CASE UnlockNested(m)
      BY <2>2, <3>1 DEF UnlockNested, ChangesDeleted
    <3>2. CASE UnlockRelease(m)
      BY <2>1, <2>2, <3>2, Records DEF UnlockRelease, mutex_release, ChangesDeleted
    <3> QED BY <2>1, <3>1, <3>2
  <2>4. sched_lock = 0 => MustRun
    BY <2>2 DEF MustRun
  <2>5. sched_lock # 0 => ~MustRun'
    BY <2>1 DEF MustRun
  <2> QED BY <2>1, <2>3, <2>4, <2>5, SchedKeeps, SchedDefers
<1> QED BY <1>1, <1>2, <1>3, <1>4 DEF MutexNext

(* The loops of critical sections end at a scheduling point, or where the first ready
   task runs still. *)
LEMMA SchedCritical ==
  ASSUME KernelInv, KernelInv', InheritInv, SchedInv, CriticalNext
  PROVE  SchedInv'
<1>0. /\ active \in AllTask /\ intrpt \in Nat /\ Task \subseteq AllTask
      /\ pc \in [AllTask -> {"user", "sched", "sched_pend", "pend", "pri_change"}]
      /\ blk_list \in [Obj -> Seq(Task)] /\ task_state \in [AllTask -> TaskStates]
  <2>1. Task \subseteq AllTask
    BY DEF AllTask
  <2>2. intrpt \in Nat
    BY Bounds DEF KernelInv, TypeOK
  <2> QED BY <2>1, <2>2 DEF KernelInv, TypeOK
<1>1. CASE task_pri_change
  <2>1. UNCHANGED <<active, intrpt, sched_lock, task_state>> /\ chg.task # None
    BY <1>1 DEF task_pri_change, ChangeSame, ChangeReady, ChangeUnqueued, ChangePend, ChangeDeleted
  <2>2. cs.op \notin {"none", "free"}
    BY <2>1 DEF KernelInv, CsInv
  <2>3. CASE ChangeDeleted
    <3>1. /\ task_state[chg.task] = "K_DELETED" /\ chg' = NoChg /\ rq' = rq
      BY <2>3 DEF ChangeDeleted
    <3>2. ChangesDeleted /\ pc[active] = "pri_change"
      BY <2>1, <3>1 DEF ChangesDeleted, SchedInv
    <3>3. ~ChangesDeleted'
      BY <3>1, Records DEF ChangesDeleted
    <3>4. MustRun' => MustRun
      BY <2>1, <3>2 DEF MustRun
    <3> QED BY <2>1, <3>1, <3>3, <3>4, SchedKeeps, SchedDefers
  <2>4. CASE (ChangeSame \/ ChangeReady \/ ChangeUnqueued \/ ChangePend) /\ UNCHANGED <<callVars, cs>>
    <3>1. ~ChangesDeleted'
      <4>1. CASE ChangePend
        <5>1. chg'.task # None => task_state[chg'.task] # "K_DELETED"
          BY <2>1, <4>1, PassedOn DEF KernelInv, TypeOK, ChgType
        <5> QED BY <2>1, <5>1 DEF ChangesDeleted
      <4>2. CASE ChangeSame \/ ChangeReady \/ ChangeUnqueued
        BY <4>2, Records DEF ChangeSame, ChangeReady, ChangeUnqueued, ChangesDeleted
      <4> QED BY <2>4, <4>1, <4>2
    <3>2. CASE cs.op # "handover"
      BY <2>2, <2>4, <3>1, <3>2, SchedGoesOn
    <3>3. CASE cs.op = "handover"
      <4>1. chg.task = active /\ blk_list[cs.obj] # <<>> /\ task_state[active] = "K_RDY"
        BY <2>1, <3>3 DEF InheritInv, KernelInv, CsInv
      <4>2. blk_list' = blk_list
        BY <2>4, <4>1 DEF ChangeSame, ChangeReady, ChangeUnqueued, ChangePend, PendStates
      <4>3. ~MustRun'
        BY <2>2, <2>4, <3>1, <4>1, <4>2 DEF MustRun, Quiet
      <4> QED BY <3>1, <4>3, SchedDefers
    <3> QED BY <3>2, <3>3
  <2> QED BY <1>1, <2>3, <2>4 DEF task_pri_change
<1>2. CASE tick_list_update
  <2>1. cs.op = "tick" /\ intrpt' = intrpt
    BY <1>2 DEF tick_list_update, TickSleep, TickTimeout, TickEnd
  <2>2. ~MustRun'
    BY <1>0, <2>1 DEF MustRun, KernelInv, CsInv
  <2>3. ~ChangesDeleted'
    <3>1. CASE TickSleep \/ TickEnd
      BY <3>1 DEF TickSleep, TickEnd, ChangesDeleted
    <3>2. CASE TickTimeout
      <4>1. cs' = cs
        BY <3>2 DEF TickTimeout
      <4> QED BY <2>1, <4>1 DEF KernelInv, CsInv, ChangesDeleted
    <3> QED BY <1>2, <3>1, <3>2 DEF tick_list_update
  <2> QED BY <2>2, <2>3, SchedDefers
<1>3. CASE LockPend
  <2>1. chg.task = None /\ pc' = [pc EXCEPT ![active] = "sched_pend"] /\ UNCHANGED <<active, chg>>
    BY <1>3 DEF LockPend
  <2>2. ~MustRun' /\ ~ChangesDeleted'
    BY <1>0, <2>1 DEF MustRun, ChangesDeleted
  <2> QED BY <2>2, SchedDefers
<1>4. CASE UnlockFree
  <2>1. /\ cs.op = "handover" /\ chg.task = None /\ blk_list[cs.obj] = <<>>
        /\ UNCHANGED <<rq, active, intrpt, sched_lock, pc, chg>>
    BY <1>4 DEF UnlockFree
  <2>2. MustRun' => MustRun
    BY <2>1 DEF MustRun
  <2>3. ~ChangesDeleted'
    BY <2>1 DEF ChangesDeleted
  <2> QED BY <2>1, <2>2, <2>3, SchedKeeps, SchedDefers
<1>5. CASE UnlockHandover
  <2>1. chg.task = None /\ chg' = chg /\ cs' = CsExit
    BY <1>5 DEF UnlockHandover
  <2> QED BY <2>1, Records, SchedGoesOn DEF ChangesDeleted
<1>6. CASE WakeNext
  <2>1. chg.task = None /\ UNCHANGED <<chg, cs>> /\ cs.op = "wake"
    BY <1>6 DEF WakeNext
  <2> QED BY <2>1, SchedGoesOn DEF ChangesDeleted
<1>7. CASE WakeEnd
  BY <1>7, SchedPoints DEF WakeEnd
<1>8. CASE ExitSched
  BY <1>8, SchedPoints DEF ExitSched
<1>9. CASE FreeToWaiter \/ FreeUnowned
  <2>1. cs.op = "free" /\ chg' = chg /\ cs' = [cs EXCEPT !.list = Tail(@)]
    BY <1>9 DEF FreeToWaiter, FreeUnowned
  <2>2. cs'.op = "free" /\ chg.task = None
    BY <2>1, FreeContext DEF KernelInv, TypeOK, CsType
  <2> QED BY <2>1, <2>2, SchedGoesOn DEF ChangesDeleted
<1>10. CASE DelTask
  <2>0. PICK t : t = cs.task
    OBVIOUS
  <2>1. cs.op = "free" /\ t \in Task /\ chg.task = None /\ task_state[t] # "K_DELETED"
    BY <1>10, <2>0, FreeContext DEF DelTask
  <2>2. /\ DelUnpended(t) \/ DelPended(t)
        /\ task_state' = [task_state EXCEPT ![t] = "K_DELETED"]
        /\ cs' = CsExit
    BY <1>10, <2>0, <2>1 DEF DelTask
  <2>3. ~ChangesDeleted'
    <3>1. CASE DelUnpended(t)
      BY <2>1, <3>1 DEF DelUnpended, ChangesDeleted
    <3>2. CASE DelPended(t)
      <4>1. PICK bl : bl = [blk_list EXCEPT ![blk_obj[t]] = klist_rm(@, t)]
        OBVIOUS
      <4>2. task_state[t] \in PendStates /\ mutex_task_pri_reset(t, bl)
        BY <3>2, <4>1 DEF DelPended
      <4>3. bl \in [Obj -> Seq(Task)]
        <5>1. Waiting(blk_list, task_state, blk_obj, prio)
          BY DEF KernelInv
        <5>2. klist_rm(blk_list[blk_obj[t]], t) \in Seq(Task)
          BY ONLY <1>0, <2>1, <4>2, <5>1, PendEntry
        <5> QED BY <1>0, <4>1, <5>2
      <4>4. chg'.task # None => chg'.task \in Task \ {t} /\ task_state[chg'.task] # "K_DELETED"
        BY <2>1, <4>2, <4>3, ResetType
      <4> QED BY <1>0, <2>2, <4>4 DEF ChangesDeleted
    <3> QED BY <2>2, <3>1, <3>2
  <2> QED BY <2>2, <2>3, Records, SchedGoesOn
<1> QED BY <1>1, <1>2, <1>3, <1>4, <1>5, <1>6, <1>7, <1>8, <1>9, <1>10 DEF CriticalNext

(* Every step keeps SchedInv. *)
LEMMA SchedStep ==
  ASSUME KernelInv, KernelInv', InheritInv, SchedInv, Next
  PROVE  SchedInv'
BY SchedSched, SchedTask, SchedMutex, SchedSem, SchedCritical DEF Next

(* In the beginning the first ready task runs. *)
LEMMA SchedInit ==
  Init => SchedInv
<1> SUFFICES ASSUME Init PROVE SchedInv
  OBVIOUS
<1>1. KernelInv /\ chg.task = None /\ active = preferred_cpu_ready_task_get(rq)
  BY InitInv, Records DEF Init
<1> QED BY <1>1 DEF SchedInv, ChangesDeleted

(* The first ready task runs: whenever a task runs with interrupts and the
   scheduler on and is not on its way to core_sched, it is the first task of the
   highest non-empty ready list. *)
THEOREM FirstReadyRuns ==
  ASSUME NoDelAgain
  PROVE  Spec => []PreferredRuns
<1> DEFINE Inv == KernelInv /\ InheritInv /\ SchedInv
<1>1. Init => Inv
  BY InitInv, InheritInit, SchedInit
<1>2. Inv /\ [Next]_vars => Inv'
  <2>1. ASSUME Inv, Next PROVE Inv'
    BY <2>1, NextInv, InheritStep, SchedStep
  <2>2. ASSUME Inv, UNCHANGED vars PROVE Inv'
    <3>1. InheritInv'
      BY <2>2 DEF vars, InheritInv, Bound, NextPrio, Lenders, IsLimit
    <3>2. SchedInv'
      BY <2>2 DEF vars, SchedInv, ChangesDeleted, Quiet
    <3> QED BY <2>2, <3>1, <3>2, StutterInv
  <2> QED BY <2>1, <2>2
<1>3. Inv => PreferredRuns
  BY DEF SchedInv, PreferredRuns
<1> QED BY <1>1, <1>2, <1>3, PTL DEF Spec

------------------------------------------------------------------------------
(* What a call on a mutex has come to. *)

(* OutcomeInv for one task: while its call is under way, and in general. *)
Locked(t) ==
  task_state[t] # "K_DELETED" =>
    /\ task_state[t] \notin SleepStates
    /\ task_state[t] \in PendStates => blk_obj[t] = arg[t]
    /\ task_state[t] \notin PendStates /\ arg[t] \in live /\ Bound(t)
         => (blk_state[t] = "BLK_FINISH" <=> mutex_task[arg[t]] = t)

Outcome(t) ==
  /\ pc[t] \in {"user", "sched"} => arg[t] = None
  /\ InLock(t) => Locked(t)

Entered == cs.op \in {"pend", "handover", "wake"} /\ intrpt = 0 => pc[active] = "user"

(* A step of t in its call, or of somebody else, that does not begin a call on a
   mutex. *)
CallKept(t) ==
  \/ pc'[t] = pc[t] /\ arg'[t] = arg[t]
  \/ arg'[t] = None
  \/ pc[t] \in {"user", "sched"} /\ arg'[t] = arg[t]
  \/ pc[t] = "sched_pend" /\ pc'[t] = "pend" /\ arg'[t] = arg[t]
  \/ pc'[t] = "pri_change"
  \/ pc'[t] = "sched_pend" /\ arg'[t] \in Sem

(* OutcomeInv, task by task. *)
LEMMA OutcomeParts ==
  ASSUME OutcomeInv PROVE (\A t \in Task : Outcome(t)) /\ Entered
BY DEF OutcomeInv, Outcome, Locked, Entered

(* The same after a step. *)
LEMMA OutcomeWhole ==
  ASSUME \A t \in Task : Outcome(t)', Entered' PROVE OutcomeInv'
BY DEF OutcomeInv, Outcome, Locked, Entered

(* A step that leaves the call of a task alone. *)
LEMMA OutcomeCall ==
  ASSUME NEW t \in Task, Outcome(t), CallKept(t),
         InLock(t) /\ arg'[t] = arg[t] => Locked(t)'
  PROVE  Outcome(t)'
<1>1. None \notin Mutex /\ Mutex \cap Sem = {}
  BY TaskAssumption DEF Obj
<1>2. pc'[t] \in {"user", "sched"} => arg'[t] = None
  BY <1>1 DEF Outcome, CallKept
<1>3. InLock(t)' => InLock(t) /\ arg'[t] = arg[t]
  BY <1>1 DEF Outcome, CallKept, InLock
<1> QED BY <1>2, <1>3 DEF Outcome

(* A step that changes nothing of t but where it is in its call. *)
LEMMA OutcomeSteady ==
  ASSUME OutcomeInv, NEW t \in Task, CallKept(t), task_state'[t] = task_state[t],
         blk_obj'[t] = blk_obj[t], blk_state'[t] = blk_state[t],
         InLock(t) /\ arg[t] \in live' /\ Bound(t)' =>
           /\ arg[t] \in live /\ Bound(t)
           /\ mutex_task'[arg[t]] = t <=> mutex_task[arg[t]] = t
  PROVE  Outcome(t)'
<1>1. Outcome(t)
  BY OutcomeParts
<1>2. InLock(t) /\ arg'[t] = arg[t] => Locked(t)'
  BY <1>1 DEF Outcome, Locked
<1> QED BY <1>1, <1>2, OutcomeCall

(* A step that wakes nobody and moves no mutex. *)
LEMMA OutcomePlain ==
  ASSUME OutcomeInv, \A t \in Task : CallKept(t), Entered',
         UNCHANGED <<task_state, blk_obj, blk_state, mutex_task>>,
         live' \cap Mutex \subseteq live, cs.op # "free" \/ cs' = cs
  PROVE  OutcomeInv'
<1>1. ASSUME NEW t \in Task PROVE Outcome(t)'
  <2>1. Bound(t)' => Bound(t)
    BY DEF Bound
  <2>2. InLock(t) /\ arg[t] \in live' => arg[t] \in live
    BY DEF InLock
  <2> QED BY <2>1, <2>2, OutcomeSteady
<1> QED BY <1>1, OutcomeWhole

(* At a scheduling point only the running task moves on in its call. *)
LEMMA OutcomePoint ==
  ASSUME KernelInv, arg' = arg, pc' = pc \/ CriticalExitSched, intrpt = 0 => pc[active] = "user"
  PROVE  \A t \in Task : CallKept(t)
<1>1. pc \in [AllTask -> {"user", "sched", "sched_pend", "pend", "pri_change"}] /\ intrpt \in Nat
  BY Bounds DEF KernelInv, TypeOK
<1>2. ASSUME NEW t \in Task PROVE CallKept(t)
  <2>1. t \in AllTask
    BY DEF AllTask
  <2> QED BY <1>1, <2>1 DEF CallKept, CriticalExitSched
<1> QED BY <1>2

(* The scheduler keeps OutcomeInv. *)
LEMMA OutcomeSched ==
  ASSUME KernelInv, OutcomeInv, SchedNext
  PROVE  OutcomeInv'
<1>0. /\ pc \in [AllTask -> {"user", "sched", "sched_pend", "pend", "pri_change"}]
      /\ arg \in [AllTask -> Obj \cup {None} \cup [task : Task, pri : Prio]]
      /\ \A t \in Task : t \in AllTask
  BY DEF KernelInv, TypeOK, AllTask
<1>1. /\ cs.op = "none" /\ cs'.op \in {"none", "tick"} /\ live' = live
      /\ UNCHANGED <<task_state, blk_obj, blk_state, mutex_task>>
  BY Records DEF SchedNext, krhino_sched_disable, krhino_sched_enable, core_sched, pend_state_end_proc,
     krhino_intrpt_enter, krhino_intrpt_exit, krhino_task_yield, TickIntrpt, TickSlice,
     TaskCall, InTask, InIsr, Quiet, pendVars, objVars
<1>2. Entered'
  BY <1>1 DEF Entered
<1>3. CASE krhino_sched_disable \/ krhino_intrpt_enter \/ krhino_intrpt_exit \/ TickIntrpt \/ TickSlice
  <2>1. UNCHANGED <<pc, arg>>
    BY <1>3 DEF krhino_sched_disable, krhino_intrpt_enter, krhino_intrpt_exit, TickIntrpt, TickSlice,
       callVars
  <2> QED BY <1>1, <1>2, <2>1, OutcomePlain DEF CallKept
<1>4. CASE krhino_sched_enable \/ krhino_task_yield
  <2>1. /\ arg' = arg /\ \E f : TaskCall(f)
        /\ pc' = pc \/ CriticalExitSched
    BY <1>4 DEF krhino_sched_enable, krhino_task_yield
  <2>2. \A t \in Task : CallKept(t)
    BY <2>1, TaskContext, OutcomePoint
  <2> QED BY <1>1, <1>2, <2>2, OutcomePlain
<1>5. CASE core_sched \/ pend_state_end_proc
  <2>1. \/ /\ pc[active] \in {"sched", "sched_pend"} /\ arg' = arg
           /\ pc' = [pc EXCEPT ![active] = IF @ = "sched" THEN "user" ELSE "pend"]
        \/ /\ pc' = [pc EXCEPT ![active] = "user"]
           /\ arg' = [arg EXCEPT ![active] = None]
    BY <1>5 DEF core_sched, pend_state_end_proc
  <2>2. \A t \in Task : CallKept(t)
    BY <1>0, <2>1 DEF CallKept
  <2> QED BY <1>1, <1>2, <2>2, OutcomePlain
<1> QED BY <1>3, <1>4, <1>5 DEF SchedNext

(* The state of one task changes. *)
LEMMA OutcomeOne ==
  ASSUME KernelInv, OutcomeInv, NEW t \in Task, NEW x,
         task_state' = [task_state EXCEPT ![t] = x],
         \A u \in Task : u # t => blk_obj'[u] = blk_obj[u] /\ blk_state'[u] = blk_state[u],
         \A u \in Task : CallKept(u), Entered',
         InLock(t) /\ arg'[t] = arg[t] => Locked(t)',
         \A u \in Task : u # t /\ InLock(u) /\ arg[u] \in live' /\ Bound(u)' =>
           /\ arg[u] \in live /\ Bound(u)
           /\ mutex_task'[arg[u]] = u <=> mutex_task[arg[u]] = u
  PROVE  OutcomeInv'
<1>1. task_state \in [AllTask -> TaskStates] /\ \A u \in Task : u \in AllTask
  BY DEF KernelInv, TypeOK, AllTask
<1>2. ASSUME NEW u \in Task PROVE Outcome(u)'
  <2>1. CASE u = t
    BY <2>1, OutcomeParts, OutcomeCall
  <2>2. CASE u # t
    <3>1. task_state'[u] = task_state[u]
      BY <1>1, <2>2
    <3> QED BY <2>2, <3>1, OutcomeSteady
  <2> QED BY <2>1, <2>2
<1> QED BY <1>2, OutcomeWhole

(* A wait that ends without the mutex: by timeout, by krhino_task_wait_abort, or
   because the object was no live mutex. *)
LEMMA OutcomeWaitOver ==
  ASSUME KernelInv, OutcomeInv, NEW t \in Task, NEW x \in {"K_RDY", "K_SUSPENDED"}, NEW why,
         task_state[t] \in PendStates, task_state' = [task_state EXCEPT ![t] = x],
         blk_state' = [blk_state EXCEPT ![t] = why], blk_obj' = [blk_obj EXCEPT ![t] = None],
         why # "BLK_FINISH" \/ blk_obj[t] \notin Mutex \cap live,
         UNCHANGED <<mutex_task, live>>, cs.op # "free",
         \A u \in Task : CallKept(u), Entered'
  PROVE  OutcomeInv'
<1>1. /\ task_state \in [AllTask -> TaskStates] /\ blk_obj \in [AllTask -> Obj \cup {None}]
      /\ DOMAIN blk_state = AllTask /\ \A u \in Task : u \in AllTask
      /\ blk_list \in [Obj -> Seq(Task)] /\ mutex_task \in [Mutex -> Task \cup {None}]
  BY DEF KernelInv, TypeOK, AllTask
<1>2. x \notin PendStates \cup SleepStates \cup {"K_DELETED"}
  BY DEF PendStates, SleepStates
<1>3. ASSUME InLock(t), arg'[t] = arg[t] PROVE Locked(t)'
  <2>1. arg[t] \in Mutex /\ blk_obj[t] = arg[t]
    BY <1>3, OutcomeParts DEF Outcome, Locked, InLock, PendStates
  <2>2. blk_state'[t] = why /\ task_state'[t] = x
    BY <1>1
  <2>3. arg[t] \in live => mutex_task[arg[t]] # t
    <3>1. Waiting(blk_list, task_state, blk_obj, prio)
      BY DEF KernelInv
    <3>2. t \in ToSet(blk_list[blk_obj[t]])
      BY <1>1, <3>1, PendEntry
    <3> QED BY <2>1, <3>2 DEF KernelInv, OwnerInv
  <2> QED BY <1>2, <1>3, <2>1, <2>2, <2>3 DEF Locked
<1>4. ASSUME NEW u \in Task, u # t
      PROVE  blk_obj'[u] = blk_obj[u] /\ blk_state'[u] = blk_state[u] /\ (Bound(u)' => Bound(u))
  BY <1>1, <1>4 DEF Bound
<1> QED BY <1>3, <1>4, OutcomeOne

(* A waiter that is woken, in pend_task_wakeup, not as the owner of a mutex. *)
LEMMA OutcomeWoken ==
  ASSUME KernelInv, OutcomeInv, NEW o \in Obj, o \notin Mutex \cap live, blk_list[o] # <<>>, NEW why,
         pend_task_wakeup(Head(blk_list[o]), why), UNCHANGED <<mutex_task, live>>,
         cs.op # "free", \A u \in Task : CallKept(u), Entered'
  PROVE  OutcomeInv'
<1>1. PICK t : t = Head(blk_list[o])
  OBVIOUS
<1>2. t \in Task /\ task_state[t] \in PendStates /\ blk_obj[t] = o
  BY <1>1, InvLists, FirstWaiter
<1>3. PICK x : x = Awake(task_state[t])
  OBVIOUS
<1>4. x \in {"K_RDY", "K_SUSPENDED"}
  BY <1>3 DEF Awake
<1>5. /\ task_state' = [task_state EXCEPT ![t] = x]
      /\ blk_state' = [blk_state EXCEPT ![t] = why] /\ blk_obj' = [blk_obj EXCEPT ![t] = None]
  BY <1>1, <1>3 DEF pend_task_wakeup
<1> QED BY <1>2, <1>4, <1>5, OutcomeWaitOver

(* So do the semaphore functions. *)
LEMMA OutcomeSem ==
  ASSUME KernelInv, OutcomeInv, SemNext
  PROVE  OutcomeInv'
<1>0. /\ pc \in [AllTask -> {"user", "sched", "sched_pend", "pend", "pri_change"}]
      /\ arg \in [AllTask -> Obj \cup {None} \cup [task : Task, pri : Prio]]
      /\ \A t \in Task : t \in AllTask
  BY DEF KernelInv, TypeOK, AllTask
<1>1. PICK s \in Sem : \/ \E n \in SemChoices : krhino_sem_create(s, n)
                       \/ krhino_sem_del(s) \/ sem_give(s)
                       \/ \E ticks \in Timeouts : krhino_sem_take(s, ticks)
                       \/ \E n \in SemChoices : krhino_sem_count_set(s, n)
  BY DEF SemNext
<1>2. s \in Obj /\ s \notin Mutex
  BY TaskAssumption DEF Obj
<1>3. cs.op = "none" /\ (intrpt = 0 => pc[active] = "user" /\ active \in Task)
  <2>1. \E f : AnyCall(f)
    BY <1>1 DEF krhino_sem_create, krhino_sem_del, sem_give, GiveCount, GiveOne, GiveAll,
         krhino_sem_take, krhino_sem_count_set, AnyCall
  <2> QED BY <2>1, CallContext
<1>4. CASE \/ \E n \in SemChoices : krhino_sem_create(s, n)
           \/ GiveCount(s)
           \/ \E ticks \in Timeouts : krhino_sem_take(s, ticks) /\ TakeCount(s)
           \/ \E n \in SemChoices : krhino_sem_count_set(s, n)
           \/ krhino_sem_del(s) \/ GiveAll(s)
  <2>1. /\ UNCHANGED <<pc, arg, active, intrpt, task_state, blk_obj, blk_state, mutex_task>>
        /\ live' \subseteq live \cup {s}
    BY <1>4 DEF krhino_sem_create, GiveCount, krhino_sem_take, TakeCount, krhino_sem_count_set,
       krhino_sem_del, GiveAll, callVars, schedVars, pendVars, objVars
  <2>2. Entered'
    BY <1>3, <2>1 DEF Entered
  <2> QED BY <1>2, <1>3, <2>1, <2>2, OutcomePlain DEF CallKept
<1>5. CASE GiveOne(s)
  <2>1. /\ blk_list[s] # <<>> /\ pend_task_wakeup(Head(blk_list[s]), "BLK_FINISH")
        /\ CriticalExitSched /\ UNCHANGED <<mutex_task, live, arg, cs>>
    BY <1>5 DEF GiveOne, objVars
  <2>2. Entered'
    BY <1>3, <2>1 DEF Entered
  <2>3. \A t \in Task : CallKept(t)
    BY <1>3, <2>1, OutcomePoint
  <2> QED BY <1>2, <1>3, <2>1, <2>2, <2>3, OutcomeWoken
<1>6. CASE \E ticks \in Timeouts : krhino_sem_take(s, ticks) /\ TakeWait(s, ticks)
  <2>1. /\ \E f : TaskCall(f)
        /\ task_state' = [task_state EXCEPT ![active] = "K_PEND"]
        /\ blk_obj' = [blk_obj EXCEPT ![active] = s]
        /\ pc' = [pc EXCEPT ![active] = "sched_pend"]
        /\ arg' = [arg EXCEPT ![active] = s]
        /\ UNCHANGED <<mutex_task, live, cs, active, blk_state>>
    BY <1>6 DEF krhino_sem_take, TakeWait, pend_to_blk_obj, schedVars
  <2>2. PICK t : t = active
    OBVIOUS
  <2>3. t \in Task /\ pc[t] = "user"
    BY <2>1, <2>2, TaskContext
  <2>4. ~InLock(t) /\ Entered'
    BY <1>3, <2>1, <2>3 DEF InLock, Entered
  <2>5. \A u \in Task : CallKept(u)
    BY <1>0, <2>1, <2>2 DEF CallKept
  <2>6. ASSUME NEW u \in Task, u # t
        PROVE  blk_obj'[u] = blk_obj[u] /\ (Bound(u)' => Bound(u))
    <3>1. blk_obj \in [AllTask -> Obj \cup {None}] /\ task_state \in [AllTask -> TaskStates]
      BY DEF KernelInv, TypeOK
    <3> QED BY <1>0, <2>1, <2>2, <2>6, <3>1 DEF Bound
  <2> QED BY <2>1, <2>2, <2>3, <2>4, <2>5, <2>6, OutcomeOne
<1> QED BY <1>1, <1>4, <1>5, <1>6 DEF sem_give, krhino_sem_take

(* A task that sleeps is in no lock. *)
LEMMA OutcomeSleep ==
  ASSUME KernelInv, OutcomeInv, NEW ticks, krhino_task_sleep(ticks)
  PROVE  OutcomeInv'
<1>0. /\ pc \in [AllTask -> {"user", "sched", "sched_pend", "pend", "pri_change"}]
      /\ \A t \in Task : t \in AllTask /\ task_state \in [AllTask -> TaskStates]
  BY DEF KernelInv, TypeOK, AllTask
<1>1. PICK t : t = active
  OBVIOUS
<1>2. /\ TaskCall("krhino_task_sleep") /\ UNCHANGED <<arg, cs, live, mutex_task, blk_obj, blk_state>>
      /\ task_state' = [task_state EXCEPT ![t] = "K_SLEEP"]
      /\ pc' = [pc EXCEPT ![t] = "sched_pend"]
  BY <1>1 DEF krhino_task_sleep, objVars
<1>3. t \in Task /\ pc[t] = "user" /\ cs.op = "none"
  BY <1>1, <1>2, TaskContext
<1>4. ~InLock(t) /\ Entered'
  BY <1>2, <1>3 DEF InLock, Entered
<1>5. \A u \in Task : CallKept(u)
  BY <1>0, <1>2, <1>3 DEF CallKept
<1>6. \A u \in Task : u # t => (Bound(u)' => Bound(u))
  BY <1>0, <1>2, <1>3 DEF Bound
<1> QED BY <1>2, <1>3, <1>4, <1>5, <1>6, OutcomeOne

(* A suspended waiter still waits for the same mutex. *)
LEMMA OutcomeSuspend ==
  ASSUME KernelInv, OutcomeInv, NEW t \in Task, task_suspend(t) \/ task_resume(t)
  PROVE  OutcomeInv'
<1>0. t \in AllTask /\ Task \subseteq AllTask /\ task_state \in [AllTask -> TaskStates]
  BY DEF KernelInv, TypeOK, AllTask
<1>1. /\ \E f : AnyCall(f)
      /\ CriticalExitSched
      /\ UNCHANGED <<arg, cs, live, mutex_task, blk_obj, blk_state>>
  BY DEF task_suspend, task_resume, objVars
<1>2. PICK x : /\ task_state' = [task_state EXCEPT ![t] = x]
               /\ \/ x = task_state[t]
                  \/ {x, task_state[t]} \subseteq PendStates
                  \/ {x, task_state[t]} \subseteq SleepStates
                  \/ {x, task_state[t]} \subseteq {"K_RDY", "K_SUSPENDED"}
  <2>1. CASE task_state' = task_state
    BY <1>0, <2>1
  <2>2. CASE task_suspend(t) /\ task_state' # task_state
    <3>1. /\ task_state[t] \in {"K_RDY", "K_SLEEP", "K_PEND"}
          /\ task_state' = [task_state EXCEPT ![t] = SuspendedState(@)]
      BY <2>2 DEF task_suspend
    <3> QED BY <3>1 DEF SuspendedState, PendStates, SleepStates
  <2>3. CASE task_resume(t) /\ task_state' # task_state
    <3>1. /\ task_state[t] \in SuspendStates
          /\ task_state' = [task_state EXCEPT ![t] = ResumedState(@)]
      BY <2>3 DEF task_resume
    <3> QED BY <3>1 DEF ResumedState, SuspendStates, PendStates, SleepStates
  <2> QED BY <2>1, <2>2, <2>3
<1>3. cs.op = "none" /\ Entered' /\ \A u \in Task : CallKept(u)
  BY <1>1, CallContext, OutcomePoint DEF Entered
<1>4. task_state'[t] = x /\ \A u \in Task : (Bound(u)' => Bound(u))
  BY <1>0, <1>2, <1>3 DEF Bound, PendStates, SleepStates
<1>5. ASSUME InLock(t), arg'[t] = arg[t] PROVE Locked(t)'
  <2>1. Locked(t)
    BY <1>5, OutcomeParts DEF Outcome
  <2> QED BY <1>1, <1>2, <1>4, <1>5, <2>1 DEF Locked, PendStates, SleepStates
<1> QED BY <1>1, <1>2, <1>3, <1>4, <1>5, OutcomeOne

(* A wait that is aborted ends without the mutex. *)
LEMMA OutcomeAbort ==
  ASSUME KernelInv, OutcomeInv, NEW t \in Task, krhino_task_wait_abort(t)
  PROVE  OutcomeInv'
<1>0. /\ t \in AllTask /\ Task \subseteq AllTask /\ task_state \in [AllTask -> TaskStates]
      /\ DOMAIN blk_state = AllTask
  BY DEF KernelInv, TypeOK, AllTask
<1>1. /\ TaskCall("krhino_task_wait_abort") /\ cs' = CsExit /\ UNCHANGED <<pc, arg, live, mutex_task>>
      /\ AbortReady(t) \/ AbortSleep(t) \/ AbortPend(t)
  BY DEF krhino_task_wait_abort, callVars, objVars
<1>2. cs.op = "none" /\ Entered' /\ \A u \in Task : CallKept(u)
  BY <1>1, TaskContext, Records DEF Entered, CallKept
<1>3. CASE AbortPend(t)
  BY <1>1, <1>2, <1>3, OutcomeWaitOver DEF AbortPend
<1>4. CASE AbortReady(t) \/ AbortSleep(t)
  <2>1. /\ task_state' = [task_state EXCEPT ![t] = "K_RDY"] /\ blk_obj' = blk_obj
        /\ \/ task_state[t] \in SleepStates /\ blk_state' = [blk_state EXCEPT ![t] = "BLK_ABORT"]
           \/ task_state[t] \in {"K_RDY", "K_SUSPENDED"} /\ blk_state' = blk_state
    BY <1>4 DEF AbortReady, AbortSleep
  <2>2. task_state'[t] = "K_RDY" /\ \A u \in Task : (Bound(u)' => Bound(u))
    BY <1>0, <1>2, <2>1 DEF Bound, SleepStates
  <2>3. ASSUME InLock(t), arg'[t] = arg[t] PROVE Locked(t)'
    <3>1. Locked(t)
      BY <2>3, OutcomeParts DEF Outcome
    <3> QED BY <1>1, <2>1, <2>2, <2>3, <3>1 DEF Locked, PendStates, SleepStates
  <2>4. \A u \in Task : u # t => blk_obj'[u] = blk_obj[u] /\ blk_state'[u] = blk_state[u]
    BY <1>0, <2>1
  <2> QED BY <1>1, <1>2, <2>1, <2>2, <2>3, <2>4, OutcomeOne
<1> QED BY <1>1, <1>3, <1>4

(* A new task is in no call. *)
LEMMA OutcomeCreate ==
  ASSUME KernelInv, OutcomeInv, NEW t \in Task, NEW autorun \in BOOLEAN,
         krhino_task_create(t, autorun)
  PROVE  OutcomeInv'
<1>0. /\ t \in AllTask /\ Task \subseteq AllTask /\ task_state \in [AllTask -> TaskStates]
      /\ DOMAIN blk_state = AllTask /\ DOMAIN blk_obj = AllTask
      /\ pc \in [AllTask -> {"user", "sched", "sched_pend", "pend", "pri_change"}]
      /\ arg \in [AllTask -> Obj \cup {None} \cup [task : Task, pri : Prio]]
  BY DEF KernelInv, TypeOK, AllTask
<1>1. /\ TaskCall("krhino_task_create") /\ UNCHANGED <<cs, live, mutex_task>>
      /\ blk_obj' = [blk_obj EXCEPT ![t] = None] /\ blk_state' = [blk_state EXCEPT ![t] = "BLK_FINISH"]
      /\ arg' = [arg EXCEPT ![t] = None]
      /\ \/ pc' = [pc EXCEPT ![t] = "user", ![active] = "sched"]
         \/ pc' = [pc EXCEPT ![t] = "user"]
      /\ \E x : task_state' = [task_state EXCEPT ![t] = x]
  BY DEF krhino_task_create, objVars
<1>2. PICK x : task_state' = [task_state EXCEPT ![t] = x]
  BY <1>1
<1>3. cs.op = "none" /\ Entered' /\ active \in Task /\ pc[active] = "user"
  BY <1>1, TaskContext DEF Entered
<1>4. \A u \in Task : CallKept(u)
  BY <1>0, <1>1, <1>3 DEF CallKept
<1>5. \A u \in Task : u # t => /\ blk_obj'[u] = blk_obj[u] /\ blk_state'[u] = blk_state[u]
                               /\ Bound(u)' => Bound(u)
  BY <1>0, <1>1, <1>2, <1>3 DEF Bound
<1>6. InLock(t) => arg'[t] # arg[t]
  BY <1>0, <1>1, TaskAssumption DEF InLock, Obj
<1> QED BY <1>1, <1>2, <1>3, <1>4, <1>5, <1>6, OutcomeOne

(* All functions on tasks. *)
LEMMA OutcomeTask ==
  ASSUME KernelInv, OutcomeInv, TaskNext
  PROVE  OutcomeInv'
<1>0. Targets \subseteq Task
  BY TaskAssumption
<1>1. ASSUME NEW t \in Targets,
             \/ krhino_task_del(t)
             \/ \E u \in Task : krhino_task_time_slice_set(t, SliceTotal[u])
             \/ \E policy \in {"KSCHED_FIFO", "KSCHED_RR"} : krhino_sched_policy_set(t, policy)
      PROVE  OutcomeInv'
  <2>1. /\ \E f : TaskCall(f)
        /\ UNCHANGED <<pc, arg, task_state, blk_obj, blk_state, mutex_task, live>>
        /\ cs' = cs \/ cs'.op = "free"
    BY <1>1 DEF krhino_task_del, krhino_task_time_slice_set, krhino_sched_policy_set, CsNone,
       callVars, pendVars, objVars
  <2>2. cs.op = "none" /\ Entered'
    BY <2>1, TaskContext DEF Entered
  <2> QED BY <2>1, <2>2, OutcomePlain DEF CallKept
<1>2. ASSUME NEW t \in Targets, NEW pri \in PriChoices, PriChangeCheck(t, pri) PROVE OutcomeInv'
  <2>1. /\ TaskCall("krhino_task_pri_change")
        /\ UNCHANGED <<task_state, blk_obj, blk_state, mutex_task, live, cs>>
        /\ pc' = [pc EXCEPT ![active] = "pri_change"]
        /\ arg' = [arg EXCEPT ![active] = [task |-> t, pri |-> pri]]
    BY <1>2 DEF PriChangeCheck, pendVars, objVars
  <2>2. cs.op = "none" /\ Entered'
    BY <2>1, TaskContext DEF Entered
  <2>3. \A u \in Task : CallKept(u)
    <3>1. DOMAIN pc = AllTask /\ DOMAIN arg = AllTask /\ Task \subseteq AllTask
      BY DEF KernelInv, TypeOK, AllTask
    <3> QED BY <2>1, <3>1 DEF CallKept
  <2> QED BY <2>1, <2>2, <2>3, OutcomePlain
<1>3. ASSUME krhino_task_pri_change PROVE OutcomeInv'
  <2>1. /\ InTask /\ cs' = CsExit
        /\ UNCHANGED <<pc, arg, task_state, blk_obj, blk_state, mutex_task, live>>
    BY <1>3 DEF krhino_task_pri_change, callVars, pendVars, objVars
  <2>2. cs.op = "none" /\ Entered'
    BY <2>1, Records DEF Entered, InTask, Quiet
  <2> QED BY <2>1, <2>2, OutcomePlain DEF CallKept
<1> QED BY <1>0, <1>1, <1>2, <1>3, OutcomeSleep, OutcomeSuspend, OutcomeAbort, OutcomeCreate DEF TaskNext

(* The beginning of each function on a mutex. *)
LEMMA OutcomeMutex ==
  ASSUME KernelInv, OutcomeInv, MutexNext
  PROVE  OutcomeInv'
<1>0. mutex_task \in [Mutex -> Task \cup {None}] /\ None \notin Task
  BY TaskAssumption DEF KernelInv, TypeOK, AllTask
<1>1. PICK m \in Mutex : \/ krhino_mutex_create(m) \/ krhino_mutex_del(m)
                         \/ \E ticks \in Timeouts : krhino_mutex_lock(m, ticks)
                         \/ krhino_mutex_unlock(m)
  BY DEF MutexNext
<1>2. /\ UNCHANGED <<pc, arg, task_state, blk_obj, blk_state, active, intrpt>>
      /\ \E f : TaskCall(f)
  BY <1>1 DEF krhino_mutex_create, krhino_mutex_del, krhino_mutex_lock, krhino_mutex_unlock,
     callVars, pendVars, schedVars
<1>3. cs.op = "none" /\ active \in Task /\ pc[active] = "user"
  BY <1>2, TaskContext
<1>4. Entered' /\ \A t \in Task : CallKept(t) /\ (Bound(t)' => Bound(t))
  BY <1>2, <1>3 DEF Entered, CallKept, Bound
<1>5. CASE \/ krhino_mutex_del(m) \/ krhino_mutex_unlock(m)
           \/ \E ticks \in Timeouts : krhino_mutex_lock(m, ticks) /\ (LockNested(m) \/ LockWait(m, ticks))
  <2>1. mutex_task' = mutex_task /\ live' \subseteq live
    BY <1>5 DEF krhino_mutex_del, krhino_mutex_unlock, krhino_mutex_lock, LockNested, LockWait
  <2> QED BY <1>2, <1>3, <1>4, <2>1, OutcomePlain
<1>6. ASSUME \/ krhino_mutex_create(m)
             \/ \E ticks \in Timeouts : krhino_mutex_lock(m, ticks) /\ LockFree(m),
             NEW t \in Task, InLock(t), arg[t] \in live'
      PROVE  arg[t] \in live /\ (mutex_task'[arg[t]] = t <=> mutex_task[arg[t]] = t)
  <2>1. arg[t] \in Mutex /\ t # active
    BY <1>3, <1>6 DEF InLock
  <2>2. CASE krhino_mutex_create(m)
    <3>1. arg[t] # m /\ live' = live \cup {m} /\ mutex_task' = [mutex_task EXCEPT ![m] = None]
      BY <2>2 DEF krhino_mutex_create, Unused
    <3> QED BY <1>0, <1>6, <2>1, <3>1
  <2>3. CASE \E ticks \in Timeouts : krhino_mutex_lock(m, ticks) /\ LockFree(m)
    <3>1. /\ live' = live /\ mutex_task' = [mutex_task EXCEPT ![m] = active]
          /\ mutex_task[m] = None
      BY <2>3 DEF krhino_mutex_lock, LockFree
    <3> QED BY <1>0, <1>6, <2>1, <3>1
  <2> QED BY <1>6, <2>2, <2>3
<1>7. CASE \/ krhino_mutex_create(m)
           \/ \E ticks \in Timeouts : krhino_mutex_lock(m, ticks) /\ LockFree(m)
  <2>1. ASSUME NEW t \in Task PROVE Outcome(t)'
    BY <1>2, <1>4, <1>6, <1>7, OutcomeSteady
  <2> QED BY <1>4, <2>1, OutcomeWhole
<1> QED BY <1>1, <1>5, <1>7 DEF krhino_mutex_lock

(* The mutex m passes to its first waiter, or nobody gets it.  Of those that are
   still in the call that got them m, none holds it now. *)
LEMMA OutcomeHanded ==
  ASSUME KernelInv, OutcomeInv, NEW m \in Mutex \cap live, live' = live,
         UNCHANGED <<pc, arg>>, Entered',
         \A u \in Task : InLock(u) /\ Bound(u)' => u # mutex_task[m],
         \A u \in Task : Bound(u)' => task_state[u] = "K_DELETED" \/ Bound(u),
         \/ /\ mutex_task' = [mutex_task EXCEPT ![m] = None]
            /\ UNCHANGED <<task_state, blk_obj, blk_state>>
         \/ /\ blk_list[m] # <<>> /\ pend_task_wakeup(Head(blk_list[m]), "BLK_FINISH")
            /\ mutex_task' = [mutex_task EXCEPT ![m] = Head(blk_list[m])]
  PROVE  OutcomeInv'
<1>0. /\ task_state \in [AllTask -> TaskStates] /\ mutex_task \in [Mutex -> Task \cup {None}]
      /\ Task \subseteq AllTask /\ None \notin Task /\ DOMAIN blk_state = AllTask /\ DOMAIN blk_obj = AllTask
      /\ Mutex \subseteq Obj
  BY TaskAssumption DEF KernelInv, TypeOK, AllTask, Obj
<1>1. \A u \in Task : CallKept(u)
  BY DEF CallKept
<1>2. CASE /\ mutex_task' = [mutex_task EXCEPT ![m] = None]
           /\ UNCHANGED <<task_state, blk_obj, blk_state>>
  <2>1. ASSUME NEW u \in Task PROVE Outcome(u)'
    <3>1. Bound(u)' => Bound(u)
      BY <1>2 DEF Bound
    <3>2. InLock(u) /\ Bound(u)' => (mutex_task'[arg[u]] = u <=> mutex_task[arg[u]] = u)
      BY <1>0, <1>2 DEF InLock
    <3> QED BY <1>1, <1>2, <3>1, <3>2, OutcomeSteady
  <2> QED BY <2>1, OutcomeWhole
<1>3. CASE /\ blk_list[m] # <<>> /\ pend_task_wakeup(Head(blk_list[m]), "BLK_FINISH")
           /\ mutex_task' = [mutex_task EXCEPT ![m] = Head(blk_list[m])]
  <2>1. PICK t : t = Head(blk_list[m])
    OBVIOUS
  <2>2. t \in Task /\ task_state[t] \in PendStates /\ blk_obj[t] = m
    BY <1>0, <1>3, <2>1, InvLists, FirstWaiter
  <2>3. PICK x : x = Awake(task_state[t])
    OBVIOUS
  <2>4. x \notin PendStates \cup SleepStates \cup {"K_DELETED"}
    BY <2>3 DEF Awake, PendStates, SleepStates
  <2>5. /\ task_state' = [task_state EXCEPT ![t] = x]
        /\ blk_state' = [blk_state EXCEPT ![t] = "BLK_FINISH"] /\ blk_obj' = [blk_obj EXCEPT ![t] = None]
        /\ mutex_task' = [mutex_task EXCEPT ![m] = t]
    BY <1>3, <2>1, <2>3 DEF pend_task_wakeup
  <2>6. ASSUME InLock(t), arg'[t] = arg[t] PROVE Locked(t)'
    <3>1. arg[t] = m
      BY <2>2, <2>6, OutcomeParts DEF Outcome, Locked, PendStates
    <3> QED BY <1>0, <2>2, <2>4, <2>5, <2>6, <3>1 DEF Locked
  <2>7. ASSUME NEW u \in Task, u # t
        PROVE  /\ blk_obj'[u] = blk_obj[u] /\ blk_state'[u] = blk_state[u]
               /\ Bound(u)' => Bound(u)
               /\ InLock(u) /\ Bound(u)' => (mutex_task'[arg[u]] = u <=> mutex_task[arg[u]] = u)
    <3>1. task_state'[u] = task_state[u]
      BY <1>0, <2>5, <2>7
    <3>2. Bound(u)' => Bound(u)
      BY <3>1 DEF Bound
    <3> QED BY <1>0, <2>5, <2>7, <3>2 DEF InLock
  <2>8. \A u \in Task : u # t /\ InLock(u) /\ arg[u] \in live' /\ Bound(u)' =>
          /\ arg[u] \in live /\ Bound(u)
          /\ mutex_task'[arg[u]] = u <=> mutex_task[arg[u]] = u
    BY <2>7
  <2>9. \A u \in Task : u # t => blk_obj'[u] = blk_obj[u] /\ blk_state'[u] = blk_state[u]
    BY <2>7
  <2>10. InLock(t) /\ arg'[t] = arg[t] => Locked(t)'
    BY <2>6
  <2> QED BY <1>1, <2>2, <2>5, <2>8, <2>9, <2>10, OutcomeOne
<1> QED BY <1>2, <1>3

(* Who gets a mutex is told BLK_FINISH, and nobody else. *)
LEMMA OutcomeHandover ==
  ASSUME KernelInv, OutcomeInv, UnlockFree \/ UnlockHandover \/ FreeToWaiter \/ FreeUnowned
  PROVE  OutcomeInv'
<1>1. CASE UnlockFree \/ UnlockHandover
  <2>1. PICK m : m = cs.obj
    OBVIOUS
  <2>2. /\ cs.op = "handover" /\ live' = live /\ UNCHANGED <<pc, arg>> /\ cs' \in {CsNone, CsExit}
        /\ \/ /\ mutex_task' = [mutex_task EXCEPT ![m] = None]
              /\ UNCHANGED <<task_state, blk_obj, blk_state>>
           \/ /\ blk_list[m] # <<>> /\ pend_task_wakeup(Head(blk_list[m]), "BLK_FINISH")
              /\ mutex_task' = [mutex_task EXCEPT ![m] = Head(blk_list[m])]
    BY <1>1, <2>1 DEF UnlockFree, UnlockHandover, callVars, pendVars
  <2>3. m \in Mutex \cap live /\ mutex_task[m] = active /\ intrpt = 0
    BY <2>1, <2>2 DEF KernelInv, CsInv
  <2>4. \A u \in Task : InLock(u) => u # mutex_task[m]
    BY <2>2, <2>3, OutcomeParts DEF Entered, InLock
  <2>5. Entered' /\ \A u \in Task : Bound(u)' => task_state[u] = "K_DELETED" \/ Bound(u)
    BY <2>2, Records DEF Entered, Bound
  <2> QED BY <2>2, <2>3, <2>4, <2>5, OutcomeHanded
<1>2. CASE FreeToWaiter \/ FreeUnowned
  <2>1. PICK m : m = Head(cs.list)
    OBVIOUS
  <2>2. /\ cs.op = "free" /\ cs.list # <<>> /\ live' = live /\ UNCHANGED <<pc, arg>>
        /\ cs' = [cs EXCEPT !.list = Tail(@)]
        /\ \/ /\ mutex_task' = [mutex_task EXCEPT ![m] = None]
              /\ UNCHANGED <<task_state, blk_obj, blk_state>>
           \/ /\ blk_list[m] # <<>> /\ pend_task_wakeup(Head(blk_list[m]), "BLK_FINISH")
              /\ mutex_task' = [mutex_task EXCEPT ![m] = Head(blk_list[m])]
    BY <1>2, <2>1 DEF FreeToWaiter, FreeUnowned, callVars, pendVars
  <2>3. cs'.op = "free" /\ cs'.task = cs.task
    BY <2>2 DEF KernelInv, TypeOK, CsType
  <2>4. cs.list \in Seq(Mutex) /\ m \in ToSet(cs.list) /\ m \in Mutex
    BY <2>1, <2>2, FreeContext, FirstEntry
  <2>5. m \in live /\ mutex_task[m] = cs.task
    BY <2>2, <2>4, FreeContext
  <2>6. \A u \in Task : InLock(u) /\ Bound(u)' => u # mutex_task[m]
    BY <2>3, <2>5 DEF Bound
  <2>7. Entered' /\ \A u \in Task : Bound(u)' => task_state[u] = "K_DELETED" \/ Bound(u)
    BY <2>3 DEF Entered, Bound
  <2> QED BY <2>2, <2>4, <2>5, <2>6, <2>7, OutcomeHanded
<1> QED BY <1>1, <1>2

(* A wait that times out ends without the mutex. *)
LEMMA OutcomeTick ==
  ASSUME KernelInv, OutcomeInv, tick_list_update
  PROVE  OutcomeInv'
<1>0. /\ Task \subseteq AllTask /\ task_state \in [AllTask -> TaskStates]
      /\ DOMAIN blk_state = AllTask
  BY DEF KernelInv, TypeOK, AllTask
<1>1. /\ cs.op = "tick" /\ UNCHANGED <<pc, arg, live, mutex_task>> /\ (cs' = cs \/ cs' = CsNone)
  BY DEF tick_list_update, TickSleep, TickTimeout, TickEnd, callVars, objVars
<1>2. Entered' /\ \A u \in Task : CallKept(u)
  BY <1>1, Records DEF Entered, CallKept
<1>3. CASE TickEnd
  BY <1>1, <1>2, <1>3, OutcomePlain DEF TickEnd, pendVars
<1>4. CASE TickSleep \/ TickTimeout
  <2>1. PICK t : t = Head(tick_list)
    OBVIOUS
  <2>2. t \in Task
    BY <1>4, <2>1, FirstEntry DEF TickSleep, TickTimeout, TickExpired, KernelInv, TypeOK
  <2>3. PICK x : x = Awake(task_state[t])
    OBVIOUS
  <2>4. x \in {"K_RDY", "K_SUSPENDED"}
    BY <2>3 DEF Awake
  <2>5. task_state' = [task_state EXCEPT ![t] = x]
    BY <1>4, <2>1, <2>3 DEF TickSleep, TickTimeout
  <2>6. CASE TickTimeout
    <3>1. /\ task_state[t] \in PendStates /\ blk_state' = [blk_state EXCEPT ![t] = "BLK_TIMEOUT"]
          /\ blk_obj' = [blk_obj EXCEPT ![t] = None]
      BY <2>1, <2>6 DEF TickTimeout
    <3> QED BY <1>1, <1>2, <2>2, <2>4, <2>5, <3>1, OutcomeWaitOver
  <2>7. CASE TickSleep
    <3>1. /\ task_state[t] \in SleepStates /\ blk_state' = [blk_state EXCEPT ![t] = "BLK_FINISH"]
          /\ blk_obj' = blk_obj /\ cs' = cs
      BY <2>1, <2>7 DEF TickSleep
    <3>2. ~InLock(t)
      BY <2>2, <3>1, OutcomeParts DEF Outcome, Locked, SleepStates
    <3>3. \A u \in Task : u # t => blk_obj'[u] = blk_obj[u] /\ blk_state'[u] = blk_state[u]
      BY <1>0, <2>2, <3>1
    <3>4. \A u \in Task : u # t /\ Bound(u)' => Bound(u)
      BY <1>0, <2>2, <2>5, <3>1 DEF Bound
    <3> QED BY <1>1, <1>2, <2>2, <2>5, <3>2, <3>3, <3>4, OutcomeOne
  <2> QED BY <1>4, <2>6, <2>7
<1> QED BY <1>3, <1>4 DEF tick_list_update

(* A task that begins to wait does not own the mutex. *)
LEMMA OutcomePend ==
  ASSUME KernelInv, OutcomeInv, LockPend
  PROVE  OutcomeInv'
<1>0. /\ Task \subseteq AllTask /\ task_state \in [AllTask -> TaskStates]
      /\ DOMAIN blk_obj = AllTask /\ DOMAIN pc = AllTask /\ DOMAIN arg = AllTask
  BY DEF KernelInv, TypeOK, AllTask
<1>1. PICK t, m : t = active /\ m = cs.obj
  OBVIOUS
<1>2. /\ cs.op = "pend"
      /\ task_state' = [task_state EXCEPT ![t] = "K_PEND"] /\ blk_obj' = [blk_obj EXCEPT ![t] = m]
      /\ pc' = [pc EXCEPT ![t] = "sched_pend"] /\ arg' = [arg EXCEPT ![t] = m]
      /\ cs' = CsNone /\ UNCHANGED <<blk_state, live, mutex_task>>
  BY <1>1 DEF LockPend, pend_to_blk_obj, objVars
<1>3. t \in Task /\ m \in Mutex
  BY <1>1, <1>2 DEF KernelInv, CsInv
<1>4. Outcome(t)'
  BY <1>0, <1>2, <1>3 DEF Outcome, Locked, PendStates, SleepStates
<1>5. ASSUME NEW u \in Task, u # t PROVE Outcome(u)'
  <2>1. CallKept(u) /\ task_state'[u] = task_state[u] /\ blk_obj'[u] = blk_obj[u]
    BY <1>0, <1>2, <1>3, <1>5 DEF CallKept
  <2>2. Bound(u)' => Bound(u)
    BY <1>2, <2>1 DEF Bound
  <2> QED BY <1>2, <2>1, <2>2, OutcomeSteady
<1>6. Entered'
  BY <1>2, Records DEF Entered
<1> QED BY <1>4, <1>5, <1>6, OutcomeWhole

(* All loops of critical sections. *)
LEMMA OutcomeCritical ==
  ASSUME KernelInv, InheritInv, OutcomeInv, CriticalNext
  PROVE  OutcomeInv'
<1>0. /\ pc \in [AllTask -> {"user", "sched", "sched_pend", "pend", "pri_change"}]
      /\ arg \in [AllTask -> Obj \cup {None} \cup [task : Task, pri : Prio]]
      /\ Task \subseteq AllTask /\ intrpt \in Nat
  <2>1. intrpt \in Nat
    BY Bounds DEF KernelInv, TypeOK
  <2> QED BY <2>1 DEF KernelInv, TypeOK, AllTask
<1>1. CASE task_pri_change
  <2>1. /\ UNCHANGED <<task_state, blk_obj, blk_state, mutex_task, live, active, intrpt>>
        /\ chg.task # None
    BY <1>1 DEF task_pri_change, ChangeSame, ChangeReady, ChangeUnqueued, ChangePend, ChangeDeleted,
       schedVars, objVars
  <2>2. cs.op \notin {"none", "free"}
    BY <2>1 DEF KernelInv, CsInv
  <2>3. CASE UNCHANGED <<pc, arg, cs>>
    <3>1. Entered'
      BY <2>1, <2>3, OutcomeParts DEF Entered
    <3> QED BY <2>1, <2>3, <3>1, OutcomePlain DEF CallKept
  <2>4. CASE ChangeDeleted
    <3>1. /\ cs' = CsNone /\ pc' = [pc EXCEPT ![active] = "user"]
          /\ arg' = [arg EXCEPT ![active] = None]
      BY <2>4 DEF ChangeDeleted
    <3>2. Entered' /\ \A t \in Task : CallKept(t)
      BY <1>0, <3>1, Records DEF Entered, CallKept
    <3> QED BY <2>1, <2>2, <3>2, OutcomePlain
  <2> QED BY <1>1, <2>3, <2>4 DEF task_pri_change, callVars
<1>2. CASE WakeNext
  <2>1. /\ cs.op = "wake" /\ blk_list[cs.obj] # <<>>
        /\ pend_task_wakeup(Head(blk_list[cs.obj]), cs.why)
        /\ UNCHANGED <<pc, arg, cs, active, intrpt, mutex_task, live>>
    BY <1>2 DEF WakeNext, callVars, schedVars, objVars
  <2>2. PICK o, why : o = cs.obj /\ why = cs.why
    OBVIOUS
  <2>3. o \in Obj /\ o \notin Mutex \cap live
    BY <2>1, <2>2 DEF KernelInv, CsInv, InheritInv
  <2>4. Entered' /\ \A u \in Task : CallKept(u)
    BY <2>1, OutcomeParts DEF Entered, CallKept
  <2> QED BY <2>1, <2>2, <2>3, <2>4, OutcomeWoken
<1>3. CASE WakeEnd
  <2>1. /\ cs.op = "wake" /\ cs' = CsNone /\ CriticalExitSched /\ arg' = arg
        /\ UNCHANGED <<task_state, blk_obj, blk_state, mutex_task, live>>
    BY <1>3 DEF WakeEnd, pendVars, objVars
  <2>2. Entered' /\ \A t \in Task : CallKept(t)
    BY <2>1, Records, OutcomeParts, OutcomePoint DEF Entered
  <2> QED BY <2>1, <2>2, OutcomePlain
<1>4. CASE ExitSched
  <2>1. /\ cs.op = "exit" /\ cs' = CsNone /\ CriticalExitSched
        /\ arg' = IF intrpt > 0 THEN arg ELSE [arg EXCEPT ![active] = None]
        /\ UNCHANGED <<task_state, blk_obj, blk_state, mutex_task, live>>
    BY <1>4 DEF ExitSched, pendVars, objVars
  <2>2. Entered' /\ \A t \in Task : CallKept(t)
    BY <1>0, <2>1, Records DEF Entered, CallKept, CriticalExitSched
  <2> QED BY <2>1, <2>2, OutcomePlain
<1>5. CASE DelTask
  <2>1. PICK t : t = cs.task
    OBVIOUS
  <2>2. cs.op = "free" /\ t \in Task /\ task_state[t] # "K_DELETED"
    BY <1>5, <2>1, FreeContext DEF DelTask
  <2>3. /\ task_state' = [task_state EXCEPT ![t] = "K_DELETED"] /\ cs' = CsExit
        /\ UNCHANGED <<pc, arg, blk_obj, blk_state, mutex_task, live>>
    BY <1>5, <2>1, <2>2 DEF DelTask, callVars, objVars
  <2>4. Entered' /\ \A u \in Task : CallKept(u)
    BY <2>3, Records DEF Entered, CallKept
  <2>5. Locked(t)'
    BY <1>0, <2>2, <2>3 DEF Locked, KernelInv, TypeOK
  <2>6. \A u \in Task : u # t /\ Bound(u)' => Bound(u)
    BY <1>0, <2>1, <2>2, <2>3 DEF Bound, KernelInv, TypeOK
  <2> QED BY <2>2, <2>3, <2>4, <2>5, <2>6, OutcomeOne
<1> QED BY <1>1, <1>2, <1>3, <1>4, <1>5, OutcomeTick, OutcomePend, OutcomeHandover DEF CriticalNext

(* Every step keeps OutcomeInv. *)
LEMMA OutcomeStep ==
  ASSUME KernelInv, InheritInv, OutcomeInv, Next
  PROVE  OutcomeInv'
BY OutcomeSched, OutcomeTask, OutcomeMutex, OutcomeSem, OutcomeCritical DEF Next

(* In the beginning nobody is in a call. *)
LEMMA OutcomeInit ==
  Init => OutcomeInv
<1> SUFFICES ASSUME Init PROVE OutcomeInv
  OBVIOUS
<1>1. \A t \in Task : pc[t] = "user" /\ arg[t] = None
  BY DEF Init, AllTask
<1> QED BY <1>1, Records DEF Init, OutcomeInv, InLock

(* A lock ends as it says: a task that is back from the wait for a mutex that
   still exists has RHINO_SUCCESS exactly when it owns the mutex, whichever of
   the hand-over, the timeout, the abort and the deletion of the owner came
   first. *)
THEOREM LockTellsTruth ==
  ASSUME NoDelAgain
  PROVE  Spec => []LockOutcome
<1> DEFINE Inv == KernelInv /\ InheritInv /\ OutcomeInv
<1>1. Init => Inv
  BY InitInv, InheritInit, OutcomeInit
<1>2. Inv /\ [Next]_vars => Inv'
  <2>1. ASSUME Inv, Next PROVE Inv'
    BY <2>1, NextInv, InheritStep, OutcomeStep
  <2>2. ASSUME Inv, UNCHANGED vars PROVE Inv'
    <3>1. InheritInv'
      BY <2>2 DEF vars, InheritInv, Bound, NextPrio, Lenders, IsLimit
    <3>2. OutcomeInv'
      BY <2>2 DEF vars, OutcomeInv, InLock, Bound, schedVars, pendVars, callVars, objVars
    <3> QED BY <2>2, <3>1, <3>2, StutterInv
  <2> QED BY <2>1, <2>2
<1>3. Inv => LockOutcome
  BY DEF OutcomeInv, LockOutcome, InLock, Bound, Quiet
<1> QED BY <1>1, <1>2, <1>3, PTL DEF Spec

==============================================================================
