------------------------------ MODULE RhinoWork ------------------------------
(***************************************************************************)
(* The work queues of k_workqueue.c: worker tasks that take works from a   *)
(* list, and works that get there from krhino_work_run at once or, with a  *)
(* delay, from the callback of a software timer.  The timer of a delayed   *)
(* work has the name of the work.                                          *)
(***************************************************************************)
EXTENDS RhinoTimer

CONSTANTS
  Work,
  WorkQueue,
  App,        \* the tasks that call the API
  Programs    \* the timers and works each program makes use of

ASSUME WorkAssumption ==
  /\ None \notin Work \cup WorkQueue \cup App
  /\ WorkQueue \subseteq Args   \* the argument of work_timer_cb
  /\ Programs \subseteq SUBSET (Timer \cup Work)

VARIABLES
  work_list, work_current, sem,   \* of each work queue; sem is its count
  wq, work_exit,                  \* of each work
  wpc,                            \* where each worker is
  apc,                            \* where each task of the application is
  call,                           \* the work or work queue of its call
  cancelled,                      \* works cancelled and not run since (history)
  used                            \* the program that runs

queueVars == <<work_list, work_current, sem, wpc>>
appVars   == <<apc, call>>
workVars  == <<queueVars, wq, work_exit, appVars, cancelled>>
vars      == <<timerVars, workVars, used>>

Delayed == Work \cap Timer

(* workqueue_init and krhino_workqueue_create have run for each queue, and
   krhino_work_init for each work. *)
Init ==
  /\ TimerInit
  /\ work_list = [g \in WorkQueue |-> <<>>]
  /\ work_current = [g \in WorkQueue |-> None]
  /\ sem = [g \in WorkQueue |-> 0]
  /\ wpc = [g \in WorkQueue |-> "take"]
  /\ wq = [w \in Work |-> None]
  /\ work_exit = [w \in Work |-> 0]
  /\ apc = [a \in App |-> "user"]
  /\ call = [a \in App |-> <<None, None>>]
  /\ cancelled = {}
  /\ used \in Programs

------------------------------------------------------------------------------
(* worker_task. *)

WorkerTake(g) ==
  /\ wpc[g] = "take" /\ sem[g] > 0
  /\ sem' = [sem EXCEPT ![g] = @ - 1]
  /\ wpc' = [wpc EXCEPT ![g] = "pop"]
  /\ UNCHANGED <<timerVars, work_list, work_current, wq, work_exit, appVars, cancelled>>

WorkerPop(g) ==
  LET w == Head(work_list[g]) IN
  /\ wpc[g] = "pop"
  /\ work_list' = [work_list EXCEPT ![g] = Tail(@)]
  /\ work_current' = [work_current EXCEPT ![g] = w]
  /\ work_exit' = [work_exit EXCEPT ![w] = 0]
  /\ wpc' = [wpc EXCEPT ![g] = "handle"]
  /\ UNCHANGED <<timerVars, sem, wq, appVars, cancelled>>

(* The handler returns; what it calls is a call of one of the tasks. *)
WorkerDone(g) ==
  /\ wpc[g] = "handle"
  /\ work_current' = [work_current EXCEPT ![g] = None]
  /\ wpc' = [wpc EXCEPT ![g] = "take"]
  /\ UNCHANGED <<timerVars, work_list, sem, wq, work_exit, appVars, cancelled>>

------------------------------------------------------------------------------
(* A work joins a queue unless it runs there or is queued already. *)

(* Faulty: a work that is queued is not recognised. *)
MayQueueAgain(w, g) == work_current[g] # w

MayQueue(w, g) == work_current[g] # w /\ work_exit[w] = 0

(* klist_rm_init: the lists without w, wherever it is. *)
Unlinked(w) == [g \in WorkQueue |-> IF Contains(work_list[g], w) THEN klist_rm(work_list[g], w)
                                    ELSE work_list[g]]

Enqueue(w, g) ==
  /\ work_list' = [Unlinked(w) EXCEPT ![g] = Append(@, w)]
  /\ wq' = [wq EXCEPT ![w] = g]
  /\ work_exit' = [work_exit EXCEPT ![w] = 1]
  /\ cancelled' = cancelled \ {w}
  /\ UNCHANGED <<work_current, sem, wpc>>

GiveSem(g) ==
  /\ sem' = [sem EXCEPT ![g] = @ + 1]
  /\ UNCHANGED <<work_list, work_current, wpc, wq, work_exit, cancelled>>

(* Faulty: a worker that is busy is not told of another work. *)
RunBusy(a, g, w) ==
  /\ apc[a] = "user" /\ w \notin Delayed
  /\ MayQueue(w, g)
  /\ Enqueue(w, g)
  /\ apc' = [apc EXCEPT ![a] = IF work_current[g] = None THEN "give" ELSE "user"]
  /\ call' = [call EXCEPT ![a] = <<w, g>>]
  /\ UNCHANGED timerVars

(* krhino_work_run without a delay, and its krhino_sem_give after the critical
   section. *)
krhino_work_run(a, g, w) ==
  /\ apc[a] = "user" /\ w \notin Delayed
  /\ MayQueue(w, g)
  /\ Enqueue(w, g)
  /\ apc' = [apc EXCEPT ![a] = "give"]
  /\ call' = [call EXCEPT ![a] = <<w, g>>]
  /\ UNCHANGED timerVars

RunGive(a) ==
  /\ apc[a] = "give"
  /\ GiveSem(call[a][2])
  /\ apc' = [apc EXCEPT ![a] = "user"]
  /\ call' = [call EXCEPT ![a] = <<None, None>>]
  /\ UNCHANGED timerVars

(* With a delay it starts the timer. *)
RunDelayed(a, g, w) ==
  /\ apc[a] = "user" /\ w \in Delayed
  /\ Send([timer |-> w, cb_num |-> "TIMER_ARG_CHG_AUTO", arg |-> g])
  /\ cancelled' = cancelled \ {w}
  /\ UNCHANGED <<queueVars, wq, work_exit, appVars>>

(* work_timer_cb, in the timer task. *)
work_timer_cb ==
  /\ tpc = "callback" /\ q \in Delayed
  /\ LET g == timer_cb_arg[q] IN
     \/ MayQueue(q, g) /\ Enqueue(q, g) /\ tpc' = "give"
     \/ ~MayQueue(q, g) /\ tpc' = "rearm" /\ UNCHANGED <<queueVars, wq, work_exit, cancelled>>
  /\ UNCHANGED <<listVars, attrVars, lag, g_timer_queue, cb_msg, ticks, q, appVars>>

CallbackGive ==
  /\ tpc = "give"
  /\ GiveSem(timer_cb_arg[q])
  /\ tpc' = "rearm"
  /\ UNCHANGED <<listVars, attrVars, lag, g_timer_queue, cb_msg, ticks, q, appVars>>

(* krhino_work_cancel reads work->wq before the critical section.  A work without a
   queue and without a delay needs nothing more; ... *)
CancelIdle(a, w) ==
  /\ apc[a] = "user" /\ wq[w] = None /\ w \notin Delayed
  /\ cancelled' = cancelled \cup {w}
  /\ UNCHANGED <<timerVars, queueVars, wq, work_exit, appVars>>

CancelRead(a, w) ==
  /\ apc[a] = "user" /\ (wq[w] # None \/ w \in Delayed)
  /\ apc' = [apc EXCEPT ![a] = IF wq[w] = None THEN "stop" ELSE "cancel"]
  /\ call' = [call EXCEPT ![a] = <<w, wq[w]>>]
  /\ UNCHANGED <<timerVars, queueVars, wq, work_exit, cancelled>>

(* ... of one with a delay the timer is stopped, whatever krhino_timer_stop returns. *)
CancelStop(a) ==
  LET w == call[a][1] IN
  /\ apc[a] = "stop"
  /\ \/ Send([timer |-> w, cb_num |-> "TIMER_CMD_STOP"])
     \/ /\ tpc # "blocked" /\ Len(g_timer_queue) = MsgNum
        /\ UNCHANGED timerVars
  /\ cancelled' = cancelled \cup {w}
  /\ apc' = [apc EXCEPT ![a] = "user"]
  /\ call' = [call EXCEPT ![a] = <<None, None>>]
  /\ UNCHANGED <<queueVars, wq, work_exit>>

(* A work that runs on the queue that was read, or waits on any, is not
   cancelled: RHINO_WORKQUEUE_WORK_RUNNING or _EXIST. *)
krhino_work_cancel(a) ==
  LET w == call[a][1] IN
  /\ apc[a] = "cancel"
  /\ IF MayQueue(w, call[a][2])
     THEN /\ work_list' = Unlinked(w)
          /\ wq' = [wq EXCEPT ![w] = None]
          /\ cancelled' = cancelled \cup {w}
     ELSE UNCHANGED <<work_list, wq, cancelled>>
  /\ apc' = [apc EXCEPT ![a] = "user"]
  /\ call' = [call EXCEPT ![a] = <<None, None>>]
  /\ UNCHANGED <<timerVars, work_current, sem, wpc, work_exit>>

------------------------------------------------------------------------------
WorkerNext(g) == WorkerTake(g) \/ WorkerPop(g) \/ WorkerDone(g)

(* The timers of the application, those that belong to no work. *)
AppTimer ==
  /\ \E t \in used \ Work : Command(t) \/ krhino_timer_create(t)
  /\ UNCHANGED workVars

AppCall(a) ==
  \E w \in used \cap Work :
    \/ \E g \in WorkQueue : krhino_work_run(a, g, w) \/ RunDelayed(a, g, w)
    \/ CancelIdle(a, w) \/ CancelRead(a, w)

AppReturn(a) == RunGive(a) \/ CancelStop(a) \/ krhino_work_cancel(a)

TimerNext ==
  \/ TimerTask /\ UNCHANGED workVars
  \/ q \notin Work /\ TimerCallback /\ UNCHANGED workVars
  \/ work_timer_cb \/ CallbackGive

Next ==
  /\ \/ TimerNext
     \/ Tick /\ UNCHANGED workVars
     \/ AppTimer
     \/ \E g \in WorkQueue : WorkerNext(g)
     \/ \E a \in App : AppCall(a) \/ AppReturn(a)
  /\ UNCHANGED used

Spec == Init /\ [][Next]_vars

(* Ticks come, no task is starved for ever, and callbacks and handlers return;
   nobody has to make a call, but a call that was made goes on. *)
FairSpec ==
  /\ Spec
  /\ WF_vars(TimerNext /\ UNCHANGED used)
  /\ WF_vars(Tick /\ UNCHANGED <<workVars, used>>)
  /\ \A g \in WorkQueue : WF_vars(WorkerNext(g) /\ UNCHANGED used)
  /\ \A a \in App : WF_vars(AppReturn(a) /\ UNCHANGED used)

------------------------------------------------------------------------------
(* Correctness. *)

TypeOK ==
  /\ TimerTypeOK
  /\ work_list \in [WorkQueue -> Seq(Work)]
  /\ work_current \in [WorkQueue -> Work \cup {None}]
  /\ sem \in [WorkQueue -> Nat]
  /\ wpc \in [WorkQueue -> {"take", "pop", "handle"}]
  /\ wq \in [Work -> WorkQueue \cup {None}] /\ work_exit \in [Work -> 0 .. 1]
  /\ apc \in [App -> {"user", "give", "cancel", "stop"}]
  /\ call \in [App -> (Work \cup {None}) \X (WorkQueue \cup {None})]
  /\ cancelled \subseteq Work
  /\ used \in Programs

Queued(w) == {g \in WorkQueue : Contains(work_list[g], w)}

(* The units of sem that are still to be given, or taken, for works on g's list. *)
Givers(g) == {a \in App : apc[a] = "give" /\ call[a][2] = g}
Owed(g) == Cardinality(Givers(g))
           + (IF tpc = "give" /\ timer_cb_arg[q] = g THEN 1 ELSE 0)
           + (IF wpc[g] = "pop" THEN 1 ELSE 0)

(* worker_task takes a unit of sem and then the first entry of work_list, without
   a look whether there is one: there is one entry for each unit, although the
   unit is given after the critical section that inserts the entry, by any task
   and by the timer task.  A work is on one list at most, once, exactly while
   work_exit says so, and the timer of a delayed work never fires without the
   work queue it is meant for. *)
QueueMatch ==
  /\ \A g \in WorkQueue : Linear(work_list[g]) /\ Len(work_list[g]) = sem[g] + Owed(g)
  /\ \A w \in Work : Cardinality(Queued(w)) = work_exit[w]
  /\ \A w \in Delayed : Active(w) => timer_cb_arg[w] \in WorkQueue

(* "This function will cancel a work" (krhino_work_cancel): a work without a delay
   for which it returned RHINO_SUCCESS does not run and is not going to until
   krhino_work_run is called for it again. *)
CancelHolds ==
  \A w \in cancelled \ Delayed :
    Queued(w) = {} /\ \A g \in WorkQueue : work_current[g] # w

(* A work that joined a work queue gets to its worker_task. *)
WorkRuns == \A w \in Work : []<>(Queued(w) = {})

------------------------------------------------------------------------------
(* The inductive invariant. *)

(* The timer of a work gets no other commands than krhino_work_run and
   krhino_work_cancel send. *)
FromWork(cmd) ==
  cmd.timer \in Delayed => \/ cmd.cb_num = "TIMER_CMD_STOP"
                           \/ cmd.cb_num = "TIMER_ARG_CHG_AUTO" /\ cmd.arg \in WorkQueue

CommandInv ==
  /\ \A cmd \in ToSet(g_timer_queue) : FromWork(cmd)
  /\ cb_msg # None => FromWork(cb_msg)
  /\ \A w \in Delayed : Active(w) => timer_cb_arg[w] \in WorkQueue
  /\ tpc \in {"callback", "give", "rearm"} => q \in Timer
  /\ tpc = "give" => q \in Delayed

(* A work is on one list at most, once. *)
ListInv ==
  /\ \A g \in WorkQueue : Linear(work_list[g])
  /\ \A w \in Work : work_exit[w] = 1 <=> \E g \in WorkQueue : w \in ToSet(work_list[g])
  /\ \A g, h \in WorkQueue : g # h => ToSet(work_list[g]) \cap ToSet(work_list[h]) = {}

(* A call that is under way knows its work, and its queue if it has one. *)
CallInv ==
  \A a \in App :
    /\ apc[a] \in {"give", "cancel"} => call[a] \in Work \X WorkQueue
    /\ apc[a] = "stop" => call[a][1] \in Delayed

(* Every entry has its unit of sem, or somebody is about to give it or has just
   taken it. *)
UnitInv ==
  /\ CallInv
  /\ \A g \in WorkQueue : IsFiniteSet(Givers(g)) /\ Len(work_list[g]) = sem[g] + Owed(g)

WorkInv == TypeOK /\ ActiveListed /\ CommandInv /\ ListInv /\ UnitInv
==============================================================================
