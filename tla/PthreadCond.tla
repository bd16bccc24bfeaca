----------------------------- MODULE PthreadCond -----------------------------
(***************************************************************************)
(* The condition variables of the POSIX layer, pthread_cond.c: a kernel    *)
(* mutex (lock), two semaphores (wait_sem, wait_done) and two counters.    *)
(* The kernel calls are atomic here; RhinoMutex and RhinoSem model them.   *)
(* The counters are only touched with lock held, so a section from         *)
(* krhino_mutex_lock to krhino_mutex_unlock with at most one call on a     *)
(* semaphore that cannot block is one step.                                *)
(***************************************************************************)
EXTENDS Integers, FiniteSets

CONSTANTS
  Thread,    \* the threads that share the condition variable
  None,
  Uses       \* the programs: the functions of pthread_cond.c each thread calls

ASSUME UsesAssumption ==
  /\ None \notin Thread /\ IsFiniteSet(Thread)
  /\ Uses \subseteq [Thread -> SUBSET {"wait", "timedwait", "zerowait", "signal", "broadcast"}]

VARIABLES
  lock,        \* the owner of cond->lock
  waiting, signals,
  wait_sem, wait_done,   \* the counts of the two semaphores
  mutex,       \* the owner of the mutex the application passes
  pc,
  timed,       \* how the thread waits: "wait", "timedwait" or "zerowait"
  retval,      \* what krhino_sem_take has returned
  num_waiting, \* the waiters a signaller signals, 1 for pthread_cond_signal
  i,           \* and how many of them the loop under way has done
  calls        \* the program that runs

vars == <<lock, waiting, signals, wait_sem, wait_done, mutex, pc, timed, retval,
          num_waiting, i, calls>>

WaitCalls == {"wait", "timedwait", "zerowait"}

(* pthread_cond_init *)
Init ==
  /\ lock = None
  /\ waiting = 0 /\ signals = 0
  /\ wait_sem = 0 /\ wait_done = 0
  /\ mutex = None
  /\ pc = [t \in Thread |-> "user"]
  /\ timed = [t \in Thread |-> "wait"]
  /\ retval = [t \in Thread |-> "RHINO_SUCCESS"]
  /\ num_waiting = [t \in Thread |-> 0]
  /\ i = [t \in Thread |-> 0]
  /\ calls \in Uses

------------------------------------------------------------------------------
(* The application locks its mutex, calls wait with it, and signals with the
   mutex or without it. *)

LockMutex(t) ==
  /\ pc[t] = "user" /\ mutex = None
  /\ mutex' = t
  /\ UNCHANGED <<lock, waiting, signals, wait_sem, wait_done, pc, timed, retval,
                 num_waiting, i>>

UnlockMutex(t) ==
  /\ pc[t] = "user" /\ mutex = t
  /\ mutex' = None
  /\ UNCHANGED <<lock, waiting, signals, wait_sem, wait_done, pc, timed, retval,
                 num_waiting, i>>

(* Who sleeps in krhino_sem_take, and where that thread goes on. *)
SemWaiters  == {t \in Thread : pc[t] \in {"waiting", "eating"}}
DoneWaiters == {t \in Thread : pc[t] = "collecting"}
Woken(t) == CASE pc[t] = "waiting" -> "relock"
              [] pc[t] = "eating"  -> "answer"
              [] OTHER             -> IF i[t] + 1 < num_waiting[t] THEN "collect" ELSE "user"

(* krhino_sem_give: the unit goes to a thread that waits, if there is one; p is
   pc with the next place of the caller. *)
GiveWaitSem(p) ==
  \/ /\ SemWaiters = {}
     /\ wait_sem' = wait_sem + 1
     /\ pc' = p
     /\ UNCHANGED retval
  \/ \E w \in SemWaiters :
       /\ pc' = [p EXCEPT ![w] = Woken(w)]
       /\ retval' = [retval EXCEPT ![w] = "RHINO_SUCCESS"]
       /\ UNCHANGED wait_sem

GiveWaitDone(p) ==
  \/ /\ DoneWaiters = {}
     /\ wait_done' = wait_done + 1
     /\ pc' = p
     /\ UNCHANGED i
  \/ \E w \in DoneWaiters :
       /\ pc' = [p EXCEPT ![w] = Woken(w)]
       /\ i' = [i EXCEPT ![w] = @ + 1]
       /\ UNCHANGED wait_done

------------------------------------------------------------------------------
(* pthread_cond_wait and pthread_cond_timedwait; "zerowait" is a time that is
   less than a tick away, RHINO_NO_WAIT. *)

WaitEnter(t) ==
  /\ pc[t] = "user" /\ mutex = t
  /\ lock = None
  /\ \E w \in WaitCalls \cap calls[t] : timed' = [timed EXCEPT ![t] = w]
  /\ waiting' = waiting + 1
  /\ pc' = [pc EXCEPT ![t] = "release"]
  /\ UNCHANGED <<lock, signals, wait_sem, wait_done, mutex, retval,
                 num_waiting, i>>

WaitRelease(t) ==
  /\ pc[t] = "release"
  /\ mutex' = None
  /\ pc' = [pc EXCEPT ![t] = "take"]
  /\ UNCHANGED <<lock, waiting, signals, wait_sem, wait_done, timed, retval,
                 num_waiting, i>>

(* krhino_sem_take of wait_sem: it takes a unit, gives up at once or sleeps. *)
WaitTake(t) ==
  /\ pc[t] = "take"
  /\ IF wait_sem > 0
     THEN /\ wait_sem' = wait_sem - 1
          /\ pc' = [pc EXCEPT ![t] = "relock"]
          /\ retval' = [retval EXCEPT ![t] = "RHINO_SUCCESS"]
     ELSE IF timed[t] = "zerowait"
     THEN /\ pc' = [pc EXCEPT ![t] = "relock"]
          /\ retval' = [retval EXCEPT ![t] = "RHINO_NO_PEND_WAIT"]
          /\ UNCHANGED wait_sem
     ELSE /\ pc' = [pc EXCEPT ![t] = "waiting"]
          /\ UNCHANGED <<wait_sem, retval>>
  /\ UNCHANGED <<lock, waiting, signals, wait_done, mutex, timed,
                 num_waiting, i>>

WaitTimeout(t) ==
  /\ pc[t] = "waiting" /\ timed[t] = "timedwait"
  /\ pc' = [pc EXCEPT ![t] = "relock"]
  /\ retval' = [retval EXCEPT ![t] = "RHINO_BLK_TIMEOUT"]
  /\ UNCHANGED <<lock, waiting, signals, wait_sem, wait_done, mutex, timed,
                 num_waiting, i>>

(* Faulty: a waiter that timed out leaves without an answer. *)
RelockUnanswered(t) ==
  /\ pc[t] = "relock" /\ lock = None
  /\ IF signals = 0 \/ retval[t] = "RHINO_BLK_TIMEOUT"
     THEN /\ waiting' = waiting - 1
          /\ pc' = [pc EXCEPT ![t] = "reacquire"]
          /\ UNCHANGED lock
     ELSE /\ lock' = t
          /\ pc' = [pc EXCEPT ![t] = "answer"]
          /\ UNCHANGED waiting
  /\ UNCHANGED <<signals, wait_sem, wait_done, mutex, timed, retval,
                 num_waiting, i>>

(* Faulty: a waiter that timed out answers without eating the signal. *)
RelockNoEat(t) ==
  /\ pc[t] = "relock" /\ lock = None
  /\ IF signals = 0
     THEN /\ waiting' = waiting - 1
          /\ pc' = [pc EXCEPT ![t] = "reacquire"]
          /\ UNCHANGED lock
     ELSE /\ lock' = t
          /\ pc' = [pc EXCEPT ![t] = "answer"]
          /\ UNCHANGED waiting
  /\ UNCHANGED <<signals, wait_sem, wait_done, mutex, timed, retval,
                 num_waiting, i>>

(* After the wait, with the lock: nobody has signalled, or the signaller is to
   be answered, or there is a signal to eat before that. *)
WaitRelock(t) ==
  /\ pc[t] = "relock" /\ lock = None
  /\ IF signals = 0
     THEN /\ waiting' = waiting - 1
          /\ pc' = [pc EXCEPT ![t] = "reacquire"]
          /\ UNCHANGED lock
     ELSE /\ lock' = t
          /\ pc' = [pc EXCEPT ![t] = IF retval[t] = "RHINO_BLK_TIMEOUT"
                                     THEN "eat" ELSE "answer"]
          /\ UNCHANGED waiting
  /\ UNCHANGED <<signals, wait_sem, wait_done, mutex, timed, retval,
                 num_waiting, i>>

(* If we timed out, we need to eat a condition signal *)
WaitEat(t) ==
  /\ pc[t] = "eat"
  /\ IF wait_sem > 0
     THEN /\ wait_sem' = wait_sem - 1
          /\ pc' = [pc EXCEPT ![t] = "answer"]
     ELSE /\ pc' = [pc EXCEPT ![t] = "eating"]
          /\ UNCHANGED wait_sem
  /\ UNCHANGED <<lock, waiting, signals, wait_done, mutex, timed, retval,
                 num_waiting, i>>

(* Faulty: the waiter does not tell the signaller that it is done. *)
AnswerSilent(t) ==
  /\ pc[t] = "answer"
  /\ pc' = [pc EXCEPT ![t] = "reacquire"]
  /\ signals' = signals - 1
  /\ waiting' = waiting - 1
  /\ lock' = None
  /\ UNCHANGED <<wait_sem, wait_done, mutex, timed, retval, num_waiting, i>>

WaitAnswer(t) ==
  /\ pc[t] = "answer"
  /\ GiveWaitDone([pc EXCEPT ![t] = "reacquire"])
  /\ signals' = signals - 1
  /\ waiting' = waiting - 1
  /\ lock' = None
  /\ UNCHANGED <<wait_sem, mutex, timed, retval, num_waiting>>

WaitReacquire(t) ==
  /\ pc[t] = "reacquire" /\ mutex = None
  /\ mutex' = t
  /\ pc' = [pc EXCEPT ![t] = "user"]
  /\ UNCHANGED <<lock, waiting, signals, wait_sem, wait_done, timed, retval,
                 num_waiting, i>>

------------------------------------------------------------------------------
(* pthread_cond_signal and pthread_cond_broadcast.  Without a waiter that is
   not signalled yet they do nothing. *)

pthread_cond_signal(t) ==
  /\ pc[t] = "user" /\ "signal" \in calls[t]
  /\ lock = None
  /\ waiting > signals
  /\ signals' = signals + 1
  /\ num_waiting' = [num_waiting EXCEPT ![t] = 1]
  /\ i' = [i EXCEPT ![t] = 0]
  /\ GiveWaitSem([pc EXCEPT ![t] = "collect"])
  /\ UNCHANGED <<lock, waiting, wait_done, mutex, timed>>

BroadcastEnter(t) ==
  /\ pc[t] = "user" /\ "broadcast" \in calls[t]
  /\ lock = None
  /\ waiting > signals
  /\ lock' = t
  /\ num_waiting' = [num_waiting EXCEPT ![t] = waiting - signals]
  /\ i' = [i EXCEPT ![t] = 0]
  /\ signals' = waiting
  /\ pc' = [pc EXCEPT ![t] = "give"]
  /\ UNCHANGED <<waiting, wait_sem, wait_done, mutex, timed, retval>>

BroadcastGive(t) ==
  /\ pc[t] = "give"
  /\ i[t] < num_waiting[t]
  /\ GiveWaitSem(pc)
  /\ i' = [i EXCEPT ![t] = @ + 1]
  /\ UNCHANGED <<lock, waiting, signals, wait_done, mutex, timed, num_waiting>>

BroadcastUnlock(t) ==
  /\ pc[t] = "give"
  /\ i[t] = num_waiting[t]
  /\ lock' = None
  /\ i' = [i EXCEPT ![t] = 0]
  /\ pc' = [pc EXCEPT ![t] = "collect"]
  /\ UNCHANGED <<waiting, signals, wait_sem, wait_done, mutex, timed, retval,
                 num_waiting>>

(* Faulty: the answer is not waited for. *)
CollectUnanswered(t) ==
  /\ pc[t] = "collect"
  /\ wait_done' = wait_done - 1
  /\ i' = [i EXCEPT ![t] = @ + 1]
  /\ pc' = [pc EXCEPT ![t] = Woken(t)]
  /\ UNCHANGED <<lock, waiting, signals, wait_sem, mutex, timed, retval,
                 num_waiting>>

(* krhino_sem_take of wait_done, once for each waiter that was signalled. *)
Collect(t) ==
  /\ pc[t] = "collect"
  /\ IF wait_done > 0
     THEN /\ wait_done' = wait_done - 1
          /\ i' = [i EXCEPT ![t] = @ + 1]
          /\ pc' = [pc EXCEPT ![t] = Woken(t)]
     ELSE /\ pc' = [pc EXCEPT ![t] = "collecting"]
          /\ UNCHANGED <<wait_done, i>>
  /\ UNCHANGED <<lock, waiting, signals, wait_sem, mutex, timed, retval,
                 num_waiting>>

------------------------------------------------------------------------------
AppNext(t) == LockMutex(t) \/ UnlockMutex(t)

(* The steps of a call that was made. *)
CallNext(t) ==
  /\ \/ WaitRelease(t) \/ WaitTake(t) \/ WaitRelock(t) \/ WaitEat(t) \/ WaitAnswer(t)
     \/ BroadcastGive(t) \/ BroadcastUnlock(t) \/ Collect(t)
  /\ UNCHANGED calls

Next == \E t \in Thread :
          /\ \/ AppNext(t)
             \/ WaitEnter(t) \/ pthread_cond_signal(t) \/ BroadcastEnter(t)
             \/ WaitTimeout(t) \/ WaitReacquire(t)
             \/ CallNext(t)
          /\ UNCHANGED calls

Spec == Init /\ [][Next]_vars

(* A call that was made goes on, also in the competition for the lock. *)
FairSpec == Spec /\ \A t \in Thread : SF_vars(CallNext(t))

------------------------------------------------------------------------------
(* Correctness. *)

(* Types; in particular none of the counters gets negative. *)
TypeOK ==
  /\ lock \in Thread \cup {None}
  /\ mutex \in Thread \cup {None}
  /\ {waiting, signals, wait_sem, wait_done} \subseteq Nat
  /\ pc \in [Thread -> {"user", "release", "take", "waiting", "relock", "eat",
                        "eating", "answer", "reacquire", "give", "collect",
                        "collecting"}]
  /\ timed \in [Thread -> WaitCalls]
  /\ retval \in [Thread -> {"RHINO_SUCCESS", "RHINO_BLK_TIMEOUT", "RHINO_NO_PEND_WAIT"}]
  /\ num_waiting \in [Thread -> Nat]
  /\ i \in [Thread -> Nat]

(* The units of wait_sem that waiters have got and not answered yet, and those a
   broadcast has yet to give. *)
Holders == {t \in Thread : \/ pc[t] = "relock" /\ retval[t] = "RHINO_SUCCESS"
                           \/ pc[t] = "answer"}
ToGive == IF lock # None /\ pc[lock] = "give" THEN num_waiting[lock] - i[lock] ELSE 0

(* Every signal is one unit of wait_sem, still to be given, still there or in
   the hands of a waiter that has not answered yet: a wake-up is neither lost
   nor made up, nobody is signalled who does not wait, and a waiter that timed
   out eats the unit meant for it. *)
SignalsMatch ==
  /\ signals <= waiting
  /\ signals = wait_sem + Cardinality(Holders) + ToGive

(* The answers each signaller has yet to collect. *)
Signallers == {t \in Thread : pc[t] \in {"give", "collect", "collecting"}}
Collected(t) == IF pc[t] = "give" THEN 0 ELSE i[t]
Open == UNION {{t} \X (Collected(t) .. num_waiting[t] - 1) : t \in Signallers}

(* Every answer a signaller has yet to collect is there already or comes from a
   signal that is not answered yet: no signaller is left without an answer, and
   no answer is left over for the next one. *)
AnswersMatch == Cardinality(Open) = wait_done + signals

(* Signallers get their answers: as long as there are any, one of them returns from
   signal or broadcast and the set of them changes.  (Which one is up to the
   priorities: an answer goes to the highest signaller.) *)
SignalReturns ==
  []<>(Signallers = {}) \/ []<><<Signallers' # Signallers>>_vars

------------------------------------------------------------------------------
(* The inductive invariant, for programs whose deadlines are a tick away or more: where
   the threads are, and what the counters count. *)
NoZeroWait == \A use \in Uses : \A t \in Thread : "zerowait" \notin use[t]

LockHeld == {"eat", "eating", "answer", "give"}
InWait   == {"release", "take", "waiting", "relock", "eat", "eating", "answer"}
Waiters  == {t \in Thread : pc[t] \in InWait}

CtrlInv ==
  /\ TypeOK /\ calls \in Uses
  /\ \A t \in Thread : timed[t] # "zerowait" /\ retval[t] # "RHINO_NO_PEND_WAIT"
  /\ \A t \in Thread : pc[t] \in LockHeld <=> lock = t
  /\ \A t \in Thread : pc[t] = "give" => i[t] <= num_waiting[t] /\ num_waiting[t] > 0
  /\ \A t \in Thread : pc[t] \in {"collect", "collecting"} => i[t] < num_waiting[t]

CountInv ==
  /\ waiting = Cardinality(Waiters)
  /\ SignalsMatch
  /\ IsFiniteSet(Open) /\ AnswersMatch
==============================================================================
