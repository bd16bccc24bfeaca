------------------------------ MODULE RhinoCore ------------------------------
(***************************************************************************)
(* The data structures of the Rhino kernel (single CPU build) and the      *)
(* helpers every kernel object is built on: the run queue (k_sched.c), the *)
(* wait lists (k_pend.c), the tick list (k_tick.c), priority inheritance   *)
(* (task_pri_change, mutex_pri_look), and the scheduling points.           *)
(*                                                                         *)
(* A kernel function runs with interrupts disabled between                 *)
(* RHINO_CRITICAL_ENTER and RHINO_CRITICAL_EXIT, so a function without a   *)
(* loop is one step.  A loop inside a critical section (the walk along a   *)
(* chain of mutex owners, the wake-up of every waiter, ...) takes one step *)
(* per iteration; the variables chg and cs say what is left to do, and     *)
(* while they do, nothing else is enabled.                                 *)
(***************************************************************************)
EXTENDS RhinoList

CONSTANTS
  Task,          \* the application's tasks
  Idle,          \* g_idle_task
  Mutex, Sem,    \* the kernel objects
  None,          \* NULL
  IdlePri,       \* RHINO_IDLE_PRI, the lowest priority
  BasePrio,      \* the priority each task is created with
  BootReady,     \* the run queue lists at krhino_start
  WaitForever,   \* RHINO_WAIT_FOREVER; 0 is RHINO_NO_WAIT
  Timeouts,      \* the tick arguments the application passes
  PriChoices,    \* the priorities it passes to krhino_task_pri_change
  Targets,       \* the tasks it suspends, resumes, aborts, deletes, ...
  TaskCalls,     \* the API functions each task calls
  IsrCalls,      \* the API functions interrupt handlers call
  SliceTotal,    \* time_total, the time slice of each task in ticks
  RRTasks,       \* the tasks created with the policy KSCHED_RR
  SemMax,        \* (sem_count_t)-1
  SemChoices,    \* the counts passed to krhino_sem_create and _count_set
  NestMax,       \* (mutex_nested_t)-1
  SuspendMax,    \* (suspend_nested_t)-1
  SchedLockMax,  \* SCHED_MAX_LOCK_COUNT
  IntrptMax      \* the deepest interrupt nesting the hardware takes

AllTask == Task \cup {Idle}
Obj     == Mutex \cup Sem
Prio    == 0 .. IdlePri
Ticks   == 0 .. WaitForever

ASSUME TaskAssumption ==
  /\ Idle \notin Task
  /\ None \notin AllTask \cup Obj
  /\ Mutex \cap Sem = {}
  /\ Targets \subseteq Task
  /\ RRTasks \subseteq Task
  /\ TaskCalls \in [Task -> SUBSET STRING]
  /\ IsrCalls \subseteq STRING

ASSUME NumberAssumption ==
  /\ IdlePri \in Nat \ {0}
  /\ BasePrio \in [AllTask -> Prio]
  /\ \A t \in AllTask : BasePrio[t] = IdlePri <=> t = Idle
  /\ PriChoices \subseteq 0 .. IdlePri - 1
  /\ WaitForever \in Nat \ {0}
  /\ Timeouts \subseteq Ticks
  /\ SliceTotal \in [AllTask -> Nat \ {0}]
  /\ {SemMax, NestMax, SuspendMax, SchedLockMax, IntrptMax} \subseteq Nat \ {0}
  /\ SemChoices \subseteq 0 .. SemMax

ASSUME BootAssumption ==
  /\ BootReady \in [Prio -> Seq(AllTask)]
  /\ \A p \in Prio : /\ ToSet(BootReady[p]) = {t \in AllTask : BasePrio[t] = p}
                     /\ Linear(BootReady[p])

VARIABLES
  active,         \* g_active_task
  sched_lock,     \* g_sched_lock
  intrpt,         \* g_intrpt_nested_level
  rq,             \* g_ready_queue: its lists and the cached highest_pri
  tick_list,      \* g_tick_head
  tick_remain,    \* tick_match - g_tick_count of the tasks on it, else 0
  task_state, prio, b_prio, suspend_count, blk_obj, blk_state,
  mutex_list,     \* the mutexes a task holds, last taken first
  time_slice, time_total, sched_policy,
  slice_due,      \* the interrupt levels whose tick handler has yet to call
                  \* time_slice_update
  pc,             \* where the task is in its API call
  arg,            \* what that call works on
  live,           \* the objects whose obj_type is set
  blk_list,       \* the waiters of each object
  mutex_task, owner_nested, count,
  chg,            \* the iteration of task_pri_change under way
  cs              \* the rest of the critical section under way

schedVars == <<active, sched_lock, intrpt>>
sliceVars == <<time_slice, time_total, sched_policy, slice_due>>
tickVars  == <<tick_list, tick_remain>>
pendVars  == <<task_state, blk_obj, blk_state, blk_list>>
callVars  == <<pc, arg>>
objVars   == <<live, mutex_task, owner_nested, count>>

vars == <<schedVars, rq, tickVars, pendVars, prio, b_prio, suspend_count,
          mutex_list, sliceVars, callVars, objVars, chg, cs>>

PendStates    == {"K_PEND", "K_PEND_SUSPENDED"}
SleepStates   == {"K_SLEEP", "K_SLEEP_SUSPENDED"}
SuspendStates == {"K_SUSPENDED", "K_PEND_SUSPENDED", "K_SLEEP_SUSPENDED"}
TaskStates    == PendStates \cup SleepStates \cup SuspendStates
                   \cup {"K_RDY", "K_DELETED"}

NoChg   == [task |-> None, pri |-> 0]
CsOps   == {"none", "exit", "pend", "handover", "wake", "free", "tick"}
CsNone  == [op |-> "none", obj |-> None, task |-> None, ticks |-> 0,
            why |-> "BLK_FINISH", list |-> <<>>]
CsExit  == [CsNone EXCEPT !.op = "exit"]
CsTick  == [CsNone EXCEPT !.op = "tick"]

------------------------------------------------------------------------------
(* The contexts kernel functions are called from. *)

Quiet  == chg.task = None /\ cs.op = "none"
InTask == Quiet /\ intrpt = 0 /\ active # Idle
InIsr  == Quiet /\ intrpt > 0 /\ intrpt \notin slice_due

TaskCall(f) == InTask /\ pc[active] = "user" /\ f \in TaskCalls[active]
IsrCall(f)  == InIsr /\ f \in IsrCalls
AnyCall(f)  == TaskCall(f) \/ IsrCall(f)

(* RHINO_CRITICAL_EXIT_SCHED enables interrupts and then calls core_sched,
   which returns at once in an interrupt handler. *)
CriticalExitSched ==
  pc' = IF intrpt > 0 THEN pc ELSE [pc EXCEPT ![active] = "sched"]

------------------------------------------------------------------------------
(* The run queue, k_sched.c. *)

ready_list_add_tail(q, t, p) ==
  [list |-> [q.list EXCEPT ![p] = Append(@, t)],
   highest_pri |-> IF q.list[p] = <<>> /\ p < q.highest_pri
                   THEN p ELSE q.highest_pri]

ready_list_add_head(q, t, p) ==
  [list |-> [q.list EXCEPT ![p] = <<t>> \o @],
   highest_pri |-> IF q.list[p] = <<>> /\ p < q.highest_pri
                   THEN p ELSE q.highest_pri]

ready_list_add(q, t) ==
  IF prio[t] = prio[active] THEN ready_list_add_tail(q, t, prio[t])
                            ELSE ready_list_add_head(q, t, prio[t])

(* krhino_find_first_bit of task_bit_map: the bit of p is set while the list
   of p has an entry. *)
find_first_bit(list) ==
  CHOOSE p \in Prio : /\ list[p] # <<>>
                      /\ \A r \in 0 .. p - 1 : list[r] = <<>>

(* Faulty: the cached highest_pri is not looked up again. *)
RmKeepsHighest(q, t) == [q EXCEPT !.list[prio[t]] = klist_rm(@, t)]

ready_list_rm(q, t) ==
  LET p    == prio[t]
      list == [q.list EXCEPT ![p] = klist_rm(@, t)]
  IN  [list |-> list,
       highest_pri |-> IF list[p] = <<>> /\ p = q.highest_pri
                       THEN find_first_bit(list) ELSE q.highest_pri]

(* Faulty: the head stays where it is. *)
NoRotation(q, p) == q

ready_list_head_to_tail(q, p) ==
  [q EXCEPT !.list[p] = Append(Tail(@), Head(@))]

preferred_cpu_ready_task_get(q) == Head(q.list[q.highest_pri])

------------------------------------------------------------------------------
(* The tick list, k_tick.c, with times relative to g_tick_count. *)

(* Faulty: the entry goes to the end of the list. *)
InsertLast(t, ticks) ==
  IF ticks > 0
  THEN /\ tick_remain' = [tick_remain EXCEPT ![t] = ticks]
       /\ tick_list' = Append(tick_list, t)
  ELSE UNCHANGED tickVars

tick_list_insert(t, ticks) ==
  IF ticks > 0
  THEN LET remain == [tick_remain EXCEPT ![t] = ticks]
       IN  /\ tick_remain' = remain
           /\ tick_list' = SortedInsert(tick_list, t, remain)
  ELSE UNCHANGED tickVars

tick_list_rm(t) ==
  IF Contains(tick_list, t)
  THEN /\ tick_list' = klist_rm(tick_list, t)
       /\ tick_remain' = [tick_remain EXCEPT ![t] = 0]
  ELSE UNCHANGED tickVars

------------------------------------------------------------------------------
(* Waiting on an object, k_pend.c.  Mutexes and semaphores are created with
   BLK_POLICY_PRI, so every wait list is in the order of the priorities. *)

(* Faulty: first come first served. *)
AddAtTail(s, t, pri) == Append(s, t)

pend_list_add(s, t, pri) == SortedInsert(s, t, pri)

pend_to_blk_obj(o, t, ticks) ==
  /\ blk_obj' = [blk_obj EXCEPT ![t] = o]
  /\ IF ticks # WaitForever THEN tick_list_insert(t, ticks)
                            ELSE UNCHANGED tickVars
  /\ task_state' = [task_state EXCEPT ![t] = "K_PEND"]
  /\ rq' = ready_list_rm(rq, t)
  /\ blk_list' = [blk_list EXCEPT ![o] = pend_list_add(@, t, prio)]
  /\ UNCHANGED blk_state

(* The state of a waiting or sleeping task once its wait is over. *)
Awake(st) == IF st \in {"K_PEND", "K_SLEEP"} THEN "K_RDY" ELSE "K_SUSPENDED"

(* Faulty: the reason of the wake-up is not stored. *)
WakeupNoReason(t, why) ==
  /\ blk_list' = [blk_list EXCEPT ![blk_obj[t]] = klist_rm(@, t)]
  /\ rq' = IF task_state[t] = "K_PEND" THEN ready_list_add(rq, t) ELSE rq
  /\ task_state' = [task_state EXCEPT ![t] = Awake(@)]
  /\ tick_list_rm(t)
  /\ blk_obj' = [blk_obj EXCEPT ![t] = None]
  /\ UNCHANGED blk_state

(* Faulty: the woken task stays on the tick list. *)
WakeupKeepsTimer(t, why) ==
  /\ blk_list' = [blk_list EXCEPT ![blk_obj[t]] = klist_rm(@, t)]
  /\ rq' = IF task_state[t] = "K_PEND" THEN ready_list_add(rq, t) ELSE rq
  /\ task_state' = [task_state EXCEPT ![t] = Awake(@)]
  /\ blk_state' = [blk_state EXCEPT ![t] = why]
  /\ blk_obj' = [blk_obj EXCEPT ![t] = None]
  /\ UNCHANGED tickVars

(* pend_task_wakeup (why = BLK_FINISH) and pend_task_rm (why = BLK_DEL).
   Their default case, k_err_proc, is not reached: see ListIntegrity. *)
pend_task_wakeup(t, why) ==
  /\ blk_list' = [blk_list EXCEPT ![blk_obj[t]] = klist_rm(@, t)]
  /\ rq' = IF task_state[t] = "K_PEND" THEN ready_list_add(rq, t) ELSE rq
  /\ task_state' = [task_state EXCEPT ![t] = Awake(@)]
  /\ tick_list_rm(t)
  /\ blk_state' = [blk_state EXCEPT ![t] = why]
  /\ blk_obj' = [blk_obj EXCEPT ![t] = None]

------------------------------------------------------------------------------
(* Priority inheritance, k_mutex.c and k_task.c. *)

(* The common loop of mutex_pri_look (from b_prio) and mutex_pri_limit (from
   the priority asked for): the highest of pri and the priorities pr of the
   first waiters, in the wait lists bl, of the mutexes in list ml. *)
mutex_pri_limit(pri, ml, bl, pr) ==
  LET S == {pri} \cup {pr[Head(bl[m])] :
                         m \in {x \in ToSet(ml) : bl[x] # <<>>}}
  IN  CHOOSE p \in S : \A r \in S : p <= r

(* mutex_release once mutex_pri_look has unlinked the mutex: ml is what is
   left of the list of the task t, bl the wait lists. *)
mutex_release(t, ml, bl) ==
  LET new_pri == mutex_pri_limit(b_prio[t], ml, bl, prio)
  IN  chg' = IF new_pri # prio[t] THEN [task |-> t, pri |-> new_pri] ELSE NoChg

(* Faulty: the owner keeps the priority of a waiter that gave up. *)
NoPriReset(t, bl) == chg' = NoChg

(* mutex_task_pri_reset: t has just left the wait list of blk_obj[t]. *)
mutex_task_pri_reset(t, bl) ==
  LET m     == blk_obj[t]
      owner == mutex_task[m]
  IN  IF m \in Mutex \cap live /\ prio[owner] = prio[t]
      THEN mutex_release(owner, mutex_list[owner], bl)
      ELSE chg' = NoChg

(* One iteration of the do-while loop of task_pri_change. *)
ChangeSame ==
  /\ chg.task # None
  /\ prio[chg.task] = chg.pri
  /\ chg' = NoChg
  /\ UNCHANGED <<rq, prio, blk_list>>

ChangeReady ==
  LET t == chg.task IN
  /\ chg.task # None
  /\ prio[t] # chg.pri
  /\ task_state[t] = "K_RDY"
  /\ rq' = IF t = active
           THEN ready_list_add_head(ready_list_rm(rq, t), t, chg.pri)
           ELSE ready_list_add_tail(ready_list_rm(rq, t), t, chg.pri)
  /\ prio' = [prio EXCEPT ![t] = chg.pri]
  /\ chg' = NoChg
  /\ UNCHANGED blk_list

ChangeUnqueued ==
  LET t == chg.task IN
  /\ chg.task # None
  /\ prio[t] # chg.pri
  /\ task_state[t] \in SleepStates \cup {"K_SUSPENDED"}
  /\ prio' = [prio EXCEPT ![t] = chg.pri]
  /\ chg' = NoChg
  /\ UNCHANGED <<rq, blk_list>>

(* Faulty: the loop goes on to the owner whatever its priority. *)
ChangeForever ==
  LET t   == chg.task
      o   == blk_obj[t]
      new == [prio EXCEPT ![t] = chg.pri]
  IN
  /\ chg.task # None
  /\ task_state[t] \in PendStates
  /\ prio' = new
  /\ blk_list' = [blk_list EXCEPT ![o] = pend_list_add(klist_rm(@, t), t, new)]
  /\ chg' = [chg EXCEPT !.task = IF o \in Mutex THEN mutex_task[o] ELSE None]
  /\ UNCHANGED rq

(* A waiter is reordered on its wait list; if it waits for a mutex, the owner
   is raised with it, or looked at again if the waiter had set its priority. *)
ChangePend ==
  LET t     == chg.task
      o     == blk_obj[t]
      new   == [prio EXCEPT ![t] = chg.pri]
      bl    == [blk_list EXCEPT ![o] = pend_list_add(klist_rm(@, t), t, new)]
      owner == mutex_task[o]
      look  == mutex_pri_limit(b_prio[owner], mutex_list[owner], bl, new)
  IN
  /\ chg.task # None
  /\ prio[t] # chg.pri
  /\ task_state[t] \in PendStates
  /\ prio' = new
  /\ blk_list' = bl
  /\ chg' = IF o \notin Mutex \cap live THEN NoChg
            ELSE IF new[owner] > chg.pri THEN [task |-> owner, pri |-> chg.pri]
            ELSE IF new[owner] = prio[t] /\ look # new[owner]
                 THEN [task |-> owner, pri |-> look]
            ELSE NoChg
  /\ UNCHANGED rq

(* The task was deleted between the test and the critical section of
   krhino_task_pri_change: k_err_proc(RHINO_INV_TASK_STATE), and if the board's
   handler returns, krhino_task_pri_change returns that error. *)
ChangeDeleted ==
  /\ chg.task # None
  /\ prio[chg.task] # chg.pri
  /\ task_state[chg.task] = "K_DELETED"
  /\ chg' = NoChg
  /\ cs' = CsNone
  /\ pc' = [pc EXCEPT ![active] = "user"]
  /\ arg' = [arg EXCEPT ![active] = None]
  /\ UNCHANGED <<rq, prio, blk_list>>

task_pri_change ==
  /\ \/ /\ ChangeSame \/ ChangeReady \/ ChangeUnqueued \/ ChangePend
        /\ UNCHANGED <<callVars, cs>>
     \/ ChangeDeleted
  /\ UNCHANGED <<schedVars, tickVars, task_state, blk_obj, blk_state, b_prio,
                 suspend_count, mutex_list, sliceVars, objVars>>
==============================================================================
