---------------------------- MODULE MCRhinoKernel ----------------------------
(***************************************************************************)
(* Small instances of the kernel for TLC.                                  *)
(***************************************************************************)
EXTENDS RhinoKernel

CONSTANTS t1, t2, t3   \* the tasks

(* One task per priority, t1 the highest; the idle task below. *)
MCBasePrio == [t \in AllTask |-> IF t = Idle THEN IdlePri
                                 ELSE IF t = t1 THEN 0 ELSE IF t = t2 THEN 1 ELSE 2]

(* The boot order within a priority is the order in which the tasks were created. *)
MCBootReady == [p \in Prio |-> SelectSeq(<<t1, t2, t3, Idle>>,
                                 LAMBDA t : t \in AllTask /\ MCBasePrio[t] = p)]

MCSliceTotal == [t \in AllTask |-> 1]

(* Tasks of one priority, for round robin, with slices of at least two ticks. *)
EqualPrio     == [t \in AllTask |-> IF t = Idle THEN IdlePri ELSE 0]
EqualReady    == [p \in Prio |-> SelectSeq(<<t1, t2, t3, Idle>>,
                                  LAMBDA t : t \in AllTask /\ EqualPrio[t] = p)]
UnequalSlices == [t \in AllTask |-> IF t = t1 THEN 3 ELSE 2]

(* Two tasks that share a priority, below a third. *)
SharedPrio  == [t \in AllTask |-> IF t = Idle THEN IdlePri ELSE IF t = t1 THEN 0 ELSE 1]
SharedReady == [p \in Prio |-> SelectSeq(<<t1, t2, t3, Idle>>,
                                LAMBDA t : t \in AllTask /\ SharedPrio[t] = p)]

LockCalls == {"krhino_mutex_lock", "krhino_mutex_unlock"}
SemCalls  == {"krhino_sem_take", "krhino_sem_give"}

(* Which API functions each task calls, for the runs. *)
InheritCalls ==
  [t \in Task |-> LockCalls \cup {"krhino_task_sleep"} \cup
                   IF t = t1 THEN {"krhino_task_pri_change"} ELSE {}]

LifeCalls ==
  [t \in Task |->
     CASE t = t1 -> {"krhino_sem_take", "krhino_task_suspend", "krhino_task_del",
                     "krhino_task_create", "krhino_task_wait_abort"}
       [] t = t2 -> LockCalls \cup {"krhino_task_sleep"}
       [] OTHER  -> LockCalls \cup {"krhino_task_yield", "krhino_sched_disable",
                                     "krhino_sched_enable", "krhino_task_pri_change"}]

ObjectCalls ==
  [t \in Task |-> LockCalls \cup
     CASE t = t1 -> {"krhino_sem_take", "krhino_mutex_del", "krhino_mutex_create"}
       [] t = t2 -> SemCalls \cup {"krhino_sem_del", "krhino_sem_create"}
       [] OTHER  -> {"krhino_sem_give_all", "krhino_sem_count_set"}]

(* Tasks that delete another one. *)
DelCalls ==
  [t \in Task |-> LockCalls \cup
     IF t = t1 THEN {"krhino_task_sleep", "krhino_task_del"} ELSE {}]
DelAgainCalls ==
  [t \in Task |-> LockCalls \cup
     IF t = t1 THEN {"krhino_task_sleep", "krhino_task_del", "krhino_task_del again"}
     ELSE {}]

(* Tasks of one priority, one of which sets slice and policy of another. *)
PeerCalls == [t \in Task |-> {"krhino_task_sleep", "krhino_task_yield"} \cup
                 IF t = t1 THEN {"krhino_task_time_slice_set", "krhino_sched_policy_set"}
                 ELSE {}]

(* Only t1 sleeps, so that lower tasks get to run. *)
CycleCalls == [t \in Task |-> LockCalls \cup
                 IF t = t1 THEN {"krhino_task_sleep"} ELSE {}]
==============================================================================
