-------------------------- MODULE PthreadCondProofs --------------------------
(***************************************************************************)
(* The counters of a condition variable, for any finite number of threads  *)
(* and any programs without a deadline less than a tick away.              *)
(***************************************************************************)
EXTENDS PthreadCond, FiniteSetTheorems, TLAPS

------------------------------------------------------------------------------
(* Sets of threads. *)

(* Sets of threads are finite and can be counted. *)
LEMMA Threads ==
  ASSUME NEW S, S \subseteq Thread
  PROVE  IsFiniteSet(S) /\ Cardinality(S) \in Nat
BY UsesAssumption, FS_Subset, FS_CardinalityType

(* A thread joins a set. *)
LEMMA OneMore ==
  ASSUME NEW S, S \subseteq Thread, NEW t \in Thread, t \notin S, NEW R, R = S \cup {t}
  PROVE  Cardinality(R) = Cardinality(S) + 1
BY Threads, FS_AddElement

(* A thread leaves a set. *)
LEMMA OneLess ==
  ASSUME NEW S, S \subseteq Thread, NEW t \in S, NEW R, R = S \ {t}
  PROVE  Cardinality(S) = Cardinality(R) + 1
<1>1. IsFiniteSet(S) /\ Cardinality(S) \in Nat
  BY Threads
<1>2. Cardinality(R) = Cardinality(S) - 1
  BY <1>1, FS_RemoveElement
<1> QED BY <1>1, <1>2

(* The counters, and what they count, are numbers. *)
LEMMA CountTypes ==
  ASSUME TypeOK
  PROVE  /\ Waiters \subseteq Thread /\ Holders \subseteq Thread
         /\ Cardinality(Waiters) \in Nat /\ Cardinality(Holders) \in Nat
         /\ waiting \in Nat /\ signals \in Nat /\ wait_sem \in Nat /\ wait_done \in Nat
<1>1. Waiters \subseteq Thread /\ Holders \subseteq Thread
  BY DEF Waiters, Holders
<1>2. waiting \in Nat /\ signals \in Nat /\ wait_sem \in Nat /\ wait_done \in Nat
  BY DEF TypeOK
<1> QED BY <1>1, <1>2, Threads

------------------------------------------------------------------------------
(* The answers to be collected. *)

(* Open, now and after a step, is the pairs of a signaller and an answer it has yet to
   take. *)
LEMMA OpenPairs ==
  ASSUME NEW x
  PROVE  /\ x \in Open <=> \E u \in Signallers :
                             \E k \in Collected(u) .. num_waiting[u] - 1 : x = <<u, k>>
         /\ x \in Open' <=> \E u \in Signallers' :
                              \E k \in Collected(u)' .. num_waiting'[u] - 1 : x = <<u, k>>
BY DEF Open

(* Whether a pair is one of them. *)
LEMMA OpenPair ==
  ASSUME NEW t \in Thread, NEW k \in Int
  PROVE  /\ <<t, k>> \in Open <=> t \in Signallers /\ k \in Collected(t) .. num_waiting[t] - 1
         /\ <<t, k>> \in Open' <=> t \in Signallers' /\ k \in Collected(t)' .. num_waiting'[t] - 1
BY OpenPairs

(* They are pairs of a thread and a number. *)
LEMMA OpenAre ==
  /\ \A x \in Open : \E u \in Thread, k \in Int : x = <<u, k>>
  /\ \A x \in Open' : \E u \in Thread, k \in Int : x = <<u, k>>
BY OpenPairs DEF Signallers

(* Two sets of pairs are equal if they have the same pairs. *)
LEMMA OpenSame ==
  ASSUME \A u \in Thread : /\ u \in Signallers' <=> u \in Signallers
                           /\ u \in Signallers => /\ Collected(u)' = Collected(u)
                                                  /\ num_waiting'[u] = num_waiting[u]
  PROVE  Open' = Open
<1>1. ASSUME NEW u \in Thread, NEW k \in Int
      PROVE  <<u, k>> \in Open' <=> <<u, k>> \in Open
  BY OpenPair
<1> QED BY <1>1, OpenAre

------------------------------------------------------------------------------
(* What the counters say of a thread. *)

(* A broadcast has not given more than it has counted. *)
LEMMA ToGiveType ==
  ASSUME CtrlInv
  PROVE  ToGive \in Nat
<1>1. CASE lock # None /\ pc[lock] = "give"
  <2>1. lock \in Thread
    BY <1>1 DEF CtrlInv, TypeOK
  <2>2. i[lock] \in Nat /\ num_waiting[lock] \in Nat /\ i[lock] <= num_waiting[lock]
    BY <1>1, <2>1 DEF CtrlInv, TypeOK
  <2> QED BY <1>1, <2>2 DEF ToGive
<1>2. CASE ~(lock # None /\ pc[lock] = "give")
  BY <1>2 DEF ToGive
<1> QED BY <1>1, <1>2

(* The same after a step. *)
LEMMA ToGiveNext ==
  ASSUME CtrlInv'
  PROVE  ToGive' \in Nat
<1>1. CASE lock' # None /\ pc'[lock'] = "give"
  <2>1. lock' \in Thread
    BY <1>1 DEF CtrlInv, TypeOK
  <2>2. i'[lock'] \in Nat /\ num_waiting'[lock'] \in Nat /\ i'[lock'] <= num_waiting'[lock']
    BY <1>1, <2>1 DEF CtrlInv, TypeOK
  <2> QED BY <1>1, <2>2 DEF ToGive
<1>2. CASE ~(lock' # None /\ pc'[lock'] = "give")
  BY <1>2 DEF ToGive
<1> QED BY <1>1, <1>2

(* A thread in a wait is counted in waiting, and one that holds a unit in signals. *)
LEMMA Counted ==
  ASSUME CtrlInv, CountInv, NEW t \in Thread
  PROVE  /\ pc[t] \in InWait => waiting > 0
         /\ t \in Holders => signals > 0
<1>1. /\ Waiters \subseteq Thread /\ Holders \subseteq Thread
      /\ Cardinality(Waiters) \in Nat /\ Cardinality(Holders) \in Nat
      /\ waiting \in Nat /\ signals \in Nat /\ wait_sem \in Nat
  BY CountTypes DEF CtrlInv
<1>2. ASSUME NEW S, S \subseteq Thread, t \in S PROVE Cardinality(S) > 0
  <2>1. PICK R : R = S \ {t}
    OBVIOUS
  <2>2. R \subseteq Thread /\ Cardinality(S) = Cardinality(R) + 1
    BY <1>2, <2>1, OneLess
  <2>3. Cardinality(R) \in Nat
    BY <2>2, Threads
  <2> QED BY <2>2, <2>3
<1>3. pc[t] \in InWait => waiting > 0
  <2>1. pc[t] \in InWait => t \in Waiters
    BY DEF Waiters
  <2> QED BY <1>1, <1>2, <2>1 DEF CountInv
<1>4. t \in Holders => signals > 0
  <2>1. signals = wait_sem + Cardinality(Holders) + ToGive
    BY DEF CountInv, SignalsMatch
  <2>2. t \in Holders => Cardinality(Holders) > 0
    BY <1>1, <1>2
  <2>3. PICK c \in Nat, g \in Nat, s \in Nat : c = Cardinality(Holders) /\ g = ToGive /\ s = wait_sem
    BY <1>1, ToGiveType
  <2> QED BY <2>1, <2>2, <2>3
<1> QED BY <1>3, <1>4

(* A signaller and a broadcaster have cond->lock to themselves, so that the
   threads that sleep on wait_sem are those that wait, not one that eats. *)
LEMMA Sleepers ==
  ASSUME CtrlInv, NEW t \in Thread, (pc[t] = "user" /\ lock = None) \/ pc[t] = "give",
         NEW w \in SemWaiters
  PROVE  w \in Thread /\ w # t /\ pc[w] = "waiting" /\ Woken(w) = "relock"
<1>1. w \in Thread /\ pc[w] \in {"waiting", "eating"}
  BY DEF SemWaiters
<1>2. pc[w] # "eating"
  BY <1>1, UsesAssumption DEF CtrlInv, LockHeld
<1>3. pc[w] = "waiting"
  BY <1>1, <1>2
<1> QED BY <1>1, <1>3 DEF Woken

------------------------------------------------------------------------------
(* Where the threads are. *)

(* The steps on the mutex of the application keep CtrlInv. *)
LEMMA CtrlMutex ==
  ASSUME CtrlInv, NEW t \in Thread, UNCHANGED calls,
         LockMutex(t) \/ UnlockMutex(t) \/ WaitRelease(t) \/ WaitReacquire(t)
  PROVE  CtrlInv'
<1> USE DEF LockMutex, UnlockMutex, WaitRelease, WaitReacquire
<1>1. TypeOK'
  BY DEF CtrlInv, TypeOK
<1> QED BY <1>1 DEF CtrlInv, TypeOK, LockHeld

(* So does the registration of a waiter. *)
LEMMA CtrlEnter ==
  ASSUME CtrlInv, NoZeroWait, NEW t \in Thread, UNCHANGED calls, WaitEnter(t)
  PROVE  CtrlInv'
<1>1. PICK w \in WaitCalls \cap calls[t] : timed' = [timed EXCEPT ![t] = w]
  BY DEF WaitEnter
<1>2. w # "zerowait"
  BY <1>1 DEF NoZeroWait, CtrlInv
<1>3. /\ waiting' = waiting + 1 /\ pc' = [pc EXCEPT ![t] = "release"] /\ pc[t] = "user"
      /\ UNCHANGED <<lock, signals, wait_sem, wait_done, mutex, retval, num_waiting, i>>
  BY DEF WaitEnter
<1>4. TypeOK'
  BY <1>1, <1>3 DEF CtrlInv, TypeOK
<1> QED BY <1>1, <1>2, <1>3, <1>4 DEF CtrlInv, TypeOK, LockHeld

(* So does the take of a unit of wait_sem, and its timeout. *)
LEMMA CtrlTake ==
  ASSUME CtrlInv, NEW t \in Thread, UNCHANGED calls, WaitTake(t) \/ WaitTimeout(t) \/ WaitEat(t)
  PROVE  CtrlInv'
<1>1. TypeOK'
  BY DEF CtrlInv, TypeOK, WaitTake, WaitTimeout, WaitEat
<1> QED BY <1>1 DEF CtrlInv, TypeOK, LockHeld, WaitTake, WaitTimeout, WaitEat

(* So does a waiter that has the lock again, and may have a signal to eat. *)
LEMMA CtrlRelock ==
  ASSUME CtrlInv, CountInv, NEW t \in Thread, UNCHANGED calls, WaitRelock(t)
  PROVE  CtrlInv'
<1>1. waiting > 0
  BY Counted DEF WaitRelock, InWait
<1>2. TypeOK'
  BY <1>1 DEF CtrlInv, TypeOK, WaitRelock
<1> QED BY <1>2, UsesAssumption DEF CtrlInv, TypeOK, LockHeld, WaitRelock

(* So does the answer of a waiter. *)
LEMMA CtrlAnswer ==
  ASSUME CtrlInv, CountInv, NEW t \in Thread, UNCHANGED calls, WaitAnswer(t)
  PROVE  CtrlInv'
<1>0. /\ pc[t] = "answer" /\ signals' = signals - 1 /\ waiting' = waiting - 1
      /\ lock' = None /\ UNCHANGED <<wait_sem, mutex, timed, retval, num_waiting>>
      /\ lock = t
  BY DEF WaitAnswer, CtrlInv, LockHeld
<1>1. waiting > 0 /\ signals > 0
  BY <1>0, Counted DEF InWait, Holders
<1>2. CASE /\ wait_done' = wait_done + 1 /\ pc' = [pc EXCEPT ![t] = "reacquire"]
           /\ UNCHANGED i
  <2>1. TypeOK'
    BY <1>0, <1>1, <1>2 DEF CtrlInv, TypeOK
  <2> QED BY <1>0, <1>2, <2>1, UsesAssumption DEF CtrlInv, TypeOK, LockHeld
<1>3. ASSUME NEW w \in DoneWaiters,
             pc' = [[pc EXCEPT ![t] = "reacquire"] EXCEPT ![w] = Woken(w)],
             i' = [i EXCEPT ![w] = i[w] + 1], UNCHANGED wait_done
      PROVE  CtrlInv'
  <2>1. w \in Thread /\ pc[w] = "collecting" /\ w # t
    BY <1>0, <1>3 DEF DoneWaiters
  <2>2. Woken(w) = IF i[w] + 1 < num_waiting[w] THEN "collect" ELSE "user"
    BY <2>1 DEF Woken
  <2>3. TypeOK'
    BY <1>0, <1>1, <1>3, <2>1, <2>2 DEF CtrlInv, TypeOK
  <2> QED BY <1>0, <1>3, <2>1, <2>2, <2>3, UsesAssumption DEF CtrlInv, TypeOK, LockHeld
<1> QED BY <1>2, <1>3 DEF WaitAnswer, GiveWaitDone

(* So does a unit that is given. *)
LEMMA CtrlGive ==
  ASSUME CtrlInv, NEW t \in Thread, UNCHANGED calls, pthread_cond_signal(t) \/ BroadcastGive(t)
  PROVE  CtrlInv'
<1>1. CASE pthread_cond_signal(t)
  <2>0. /\ pc[t] = "user" /\ lock = None /\ signals' = signals + 1
        /\ num_waiting' = [num_waiting EXCEPT ![t] = 1] /\ i' = [i EXCEPT ![t] = 0]
        /\ UNCHANGED <<lock, waiting, wait_done, mutex, timed>>
    BY <1>1 DEF pthread_cond_signal
  <2>1. CASE wait_sem' = wait_sem + 1 /\ pc' = [pc EXCEPT ![t] = "collect"] /\ UNCHANGED retval
    <3>1. TypeOK'
      BY <2>0, <2>1 DEF CtrlInv, TypeOK
    <3> QED BY <2>0, <2>1, <3>1, UsesAssumption DEF CtrlInv, TypeOK, LockHeld
  <2>2. ASSUME NEW w \in SemWaiters,
               pc' = [[pc EXCEPT ![t] = "collect"] EXCEPT ![w] = Woken(w)],
               retval' = [retval EXCEPT ![w] = "RHINO_SUCCESS"], UNCHANGED wait_sem
        PROVE  CtrlInv'
    <3>1. w \in Thread /\ w # t /\ pc[w] = "waiting" /\ Woken(w) = "relock"
      BY <2>0, Sleepers
    <3>2. TypeOK'
      BY <2>0, <2>2, <3>1 DEF CtrlInv, TypeOK
    <3> QED BY <2>0, <2>2, <3>1, <3>2, UsesAssumption DEF CtrlInv, TypeOK, LockHeld
  <2> QED BY <1>1, <2>1, <2>2 DEF pthread_cond_signal, GiveWaitSem
<1>2. CASE BroadcastGive(t)
  <2>0. /\ pc[t] = "give" /\ i[t] < num_waiting[t] /\ i' = [i EXCEPT ![t] = i[t] + 1]
        /\ UNCHANGED <<lock, waiting, signals, wait_done, mutex, timed, num_waiting>>
    BY <1>2 DEF BroadcastGive
  <2>1. CASE wait_sem' = wait_sem + 1 /\ pc' = pc /\ UNCHANGED retval
    <3>1. TypeOK'
      BY <2>0, <2>1 DEF CtrlInv, TypeOK
    <3> QED BY <2>0, <2>1, <3>1 DEF CtrlInv, TypeOK, LockHeld
  <2>2. ASSUME NEW w \in SemWaiters, pc' = [pc EXCEPT ![w] = Woken(w)],
               retval' = [retval EXCEPT ![w] = "RHINO_SUCCESS"], UNCHANGED wait_sem
        PROVE  CtrlInv'
    <3>1. w \in Thread /\ w # t /\ pc[w] = "waiting" /\ Woken(w) = "relock"
      BY <2>0, Sleepers
    <3>2. TypeOK'
      BY <2>0, <2>2, <3>1 DEF CtrlInv, TypeOK
    <3> QED BY <2>0, <2>2, <3>1, <3>2 DEF CtrlInv, TypeOK, LockHeld
  <2> QED BY <1>2, <2>1, <2>2 DEF BroadcastGive, GiveWaitSem
<1> QED BY <1>1, <1>2

(* So do the beginning of a broadcast and the release of its lock. *)
LEMMA CtrlBroadcast ==
  ASSUME CtrlInv, NEW t \in Thread, UNCHANGED calls, BroadcastEnter(t) \/ BroadcastUnlock(t)
  PROVE  CtrlInv'
<1>1. CASE BroadcastEnter(t)
  <2>1. TypeOK'
    BY <1>1 DEF BroadcastEnter, CtrlInv, TypeOK
  <2> QED BY <1>1, <2>1, UsesAssumption DEF BroadcastEnter, CtrlInv, TypeOK, LockHeld
<1>2. CASE BroadcastUnlock(t)
  <2>1. TypeOK'
    BY <1>2 DEF BroadcastUnlock, CtrlInv, TypeOK
  <2> QED BY <1>2, <2>1, UsesAssumption DEF BroadcastUnlock, CtrlInv, TypeOK, LockHeld
<1> QED BY <1>1, <1>2

(* So does an answer that is collected. *)
LEMMA CtrlCollect ==
  ASSUME CtrlInv, NEW t \in Thread, UNCHANGED calls, Collect(t)
  PROVE  CtrlInv'
<1>1. pc[t] = "collect" /\ Woken(t) = IF i[t] + 1 < num_waiting[t] THEN "collect" ELSE "user"
  BY DEF Collect, Woken
<1>2. TypeOK'
  BY <1>1 DEF Collect, CtrlInv, TypeOK
<1> QED BY <1>1, <1>2 DEF Collect, CtrlInv, TypeOK, LockHeld

------------------------------------------------------------------------------
(* What the counters count. *)

(* All counts before and after a step are numbers. *)
LEMMA NumberTypes ==
  ASSUME CtrlInv, CtrlInv'
  PROVE  /\ Cardinality(Waiters) \in Nat /\ Cardinality(Waiters') \in Nat
         /\ Cardinality(Holders) \in Nat /\ Cardinality(Holders') \in Nat
         /\ ToGive \in Nat /\ ToGive' \in Nat
         /\ waiting \in Nat /\ waiting' \in Nat /\ signals \in Nat /\ signals' \in Nat
         /\ wait_sem \in Nat /\ wait_sem' \in Nat /\ wait_done \in Nat /\ wait_done' \in Nat
<1>1. /\ Cardinality(Waiters) \in Nat /\ Cardinality(Holders) \in Nat
      /\ waiting \in Nat /\ signals \in Nat /\ wait_sem \in Nat /\ wait_done \in Nat
  BY CountTypes DEF CtrlInv
<1>2. Waiters' \subseteq Thread /\ Holders' \subseteq Thread
  BY DEF Waiters, Holders
<1>3. Cardinality(Waiters') \in Nat /\ Cardinality(Holders') \in Nat
  BY <1>2, Threads
<1>4. waiting' \in Nat /\ signals' \in Nat /\ wait_sem' \in Nat /\ wait_done' \in Nat
  BY DEF CtrlInv, TypeOK
<1>5. ToGive \in Nat
  BY ToGiveType
<1>6. ToGive' \in Nat
  BY ToGiveNext
<1> QED BY <1>1, <1>3, <1>4, <1>5, <1>6

(* The counters move with what they count. *)
LEMMA CountStep ==
  ASSUME CtrlInv, CountInv, CtrlInv',
         waiting' + Cardinality(Waiters) = waiting + Cardinality(Waiters'),
         signals' <= waiting',
         signals' + (wait_sem + Cardinality(Holders) + ToGive)
           = signals + (wait_sem' + Cardinality(Holders') + ToGive'),
         IsFiniteSet(Open'),
         Cardinality(Open') + (wait_done + signals) = Cardinality(Open) + (wait_done' + signals')
  PROVE  CountInv'
<1>1. PICK w \in Nat, wp \in Nat, cw \in Nat, cwp \in Nat :
         /\ w = waiting /\ wp = waiting' /\ cw = Cardinality(Waiters) /\ cwp = Cardinality(Waiters')
  BY NumberTypes
<1>2. w = cw /\ wp + cw = w + cwp
  BY <1>1 DEF CountInv
<1>3. wp = cwp
  BY <1>2
<1>4. PICK s \in Nat, sp \in Nat, m \in Nat, mp \in Nat, h \in Nat, hp \in Nat, g \in Nat, gp \in Nat :
         /\ s = signals /\ sp = signals' /\ m = wait_sem /\ mp = wait_sem'
         /\ h = Cardinality(Holders) /\ hp = Cardinality(Holders') /\ g = ToGive /\ gp = ToGive'
  BY NumberTypes
<1>5. s = m + h + g /\ sp + (m + h + g) = s + (mp + hp + gp)
  BY <1>4 DEF CountInv, SignalsMatch
<1>6. sp = mp + hp + gp
  BY <1>5
<1>7. PICK o \in Nat, op \in Nat, d \in Nat, dp \in Nat :
         o = Cardinality(Open) /\ op = Cardinality(Open') /\ d = wait_done /\ dp = wait_done'
  BY NumberTypes, FS_CardinalityType DEF CountInv
<1>8. o = d + s /\ op + (d + s) = o + (dp + sp)
  BY <1>4, <1>7 DEF CountInv, AnswersMatch
<1>9. op = dp + sp
  BY <1>8
<1>10. waiting' = Cardinality(Waiters')
  BY <1>1, <1>3
<1>11. signals' = wait_sem' + Cardinality(Holders') + ToGive'
  BY <1>4, <1>6
<1>12. Cardinality(Open') = wait_done' + signals'
  BY <1>4, <1>7, <1>9
<1> QED BY <1>10, <1>11, <1>12 DEF CountInv, SignalsMatch, AnswersMatch

(* A step that changes no count keeps CountInv. *)
LEMMA CountsSame ==
  ASSUME CtrlInv, CountInv, CtrlInv', Waiters' = Waiters, Holders' = Holders, ToGive' = ToGive,
         Open' = Open, UNCHANGED <<waiting, signals, wait_sem, wait_done>>
  PROVE  CountInv'
BY DEF CountInv, SignalsMatch, AnswersMatch

(* The steps on the mutex of the application change no count. *)
LEMMA CountMutex ==
  ASSUME CtrlInv, CountInv, CtrlInv', NEW t \in Thread,
         LockMutex(t) \/ UnlockMutex(t) \/ WaitRelease(t) \/ WaitReacquire(t)
  PROVE  CountInv'
<1>0. /\ \A u \in Thread \ {t} : pc'[u] = pc[u]
      /\ \/ pc'[t] = pc[t]
         \/ pc[t] = "release" /\ pc'[t] = "take"
         \/ pc[t] = "reacquire" /\ pc'[t] = "user"
      /\ UNCHANGED <<lock, waiting, signals, wait_sem, wait_done, retval, num_waiting, i>>
  BY DEF LockMutex, UnlockMutex, WaitRelease, WaitReacquire, CtrlInv, TypeOK
<1>1. Waiters' = Waiters
  BY <1>0 DEF Waiters, InWait
<1>2. Holders' = Holders
  BY <1>0 DEF Holders
<1>3. ToGive' = ToGive
  BY <1>0 DEF ToGive, CtrlInv, TypeOK
<1>4. Open' = Open
  BY <1>0, OpenSame DEF Signallers, Collected
<1> QED BY <1>0, <1>1, <1>2, <1>3, <1>4, CountsSame

(* A waiter that registers is counted. *)
LEMMA CountEnter ==
  ASSUME CtrlInv, CountInv, CtrlInv', NEW t \in Thread, WaitEnter(t)
  PROVE  CountInv'
<1>0. /\ \A u \in Thread \ {t} : pc'[u] = pc[u]
      /\ pc[t] = "user" /\ pc'[t] = "release" /\ waiting' = waiting + 1
      /\ UNCHANGED <<lock, signals, wait_sem, wait_done, retval, num_waiting, i>>
  BY DEF WaitEnter, CtrlInv, TypeOK
<1>1. Waiters' = Waiters \cup {t} /\ t \notin Waiters /\ Waiters \subseteq Thread
  BY <1>0 DEF Waiters, InWait
<1>2. Cardinality(Waiters') = Cardinality(Waiters) + 1
  BY <1>1, OneMore
<1>3. Holders' = Holders
  BY <1>0 DEF Holders
<1>4. ToGive' = ToGive
  BY <1>0 DEF ToGive, CtrlInv, TypeOK
<1>5. Open' = Open
  BY <1>0, OpenSame DEF Signallers, Collected
<1>6. waiting' + Cardinality(Waiters) = waiting + Cardinality(Waiters')
  BY <1>0, <1>2, NumberTypes
<1>7. signals' <= waiting'
  BY <1>0, NumberTypes DEF CountInv, SignalsMatch
<1> QED BY <1>0, <1>3, <1>4, <1>5, <1>6, <1>7, CountStep DEF CountInv

(* A unit of wait_sem goes to t. *)
LEMMA UnitTaken ==
  ASSUME CtrlInv, CountInv, CtrlInv', NEW t \in Thread, t \notin Holders,
         Holders' = Holders \cup {t}, wait_sem = wait_sem' + 1,
         Waiters' = Waiters, ToGive' = ToGive, Open' = Open,
         UNCHANGED <<waiting, signals, wait_done>>
  PROVE  CountInv'
<1>1. Holders \subseteq Thread
  BY DEF Holders
<1>2. Cardinality(Holders') = Cardinality(Holders) + 1
  BY <1>1, OneMore
<1>3. PICK m \in Nat, mp \in Nat, h \in Nat, hp \in Nat, g \in Nat :
         /\ m = wait_sem /\ mp = wait_sem' /\ h = Cardinality(Holders) /\ hp = Cardinality(Holders')
         /\ g = ToGive
  BY NumberTypes
<1>4. m = mp + 1 /\ hp = h + 1
  BY <1>2, <1>3
<1>5. m + h + g = mp + hp + g
  BY <1>4
<1>6. wait_sem' + Cardinality(Holders') + ToGive' = wait_sem + Cardinality(Holders) + ToGive
  BY <1>3, <1>5
<1> QED BY <1>6 DEF CountInv, SignalsMatch, AnswersMatch

(* A unit that is taken is in the hands of its waiter; a timeout takes none. *)
LEMMA CountTake ==
  ASSUME CtrlInv, CountInv, CtrlInv', NEW t \in Thread, WaitTake(t) \/ WaitTimeout(t) \/ WaitEat(t)
  PROVE  CountInv'
<1>0. /\ \A u \in Thread \ {t} : pc'[u] = pc[u] /\ retval'[u] = retval[u]
      /\ UNCHANGED <<lock, waiting, signals, wait_done, num_waiting, i>>
      /\ \/ /\ pc[t] = "take" /\ pc'[t] = "relock" /\ retval'[t] = "RHINO_SUCCESS"
            /\ wait_sem = wait_sem' + 1
         \/ /\ pc[t] = "eat" /\ pc'[t] = "answer" /\ wait_sem = wait_sem' + 1
         \/ /\ pc[t] = "take" /\ pc'[t] = "waiting" /\ wait_sem' = wait_sem
         \/ /\ pc[t] = "eat" /\ pc'[t] = "eating" /\ wait_sem' = wait_sem
         \/ /\ pc[t] = "waiting" /\ pc'[t] = "relock" /\ retval'[t] = "RHINO_BLK_TIMEOUT"
            /\ wait_sem' = wait_sem
  BY DEF WaitTake, WaitTimeout, WaitEat, CtrlInv, TypeOK
<1>1. Waiters' = Waiters
  BY <1>0 DEF Waiters, InWait
<1>2. ToGive' = ToGive
  BY <1>0 DEF ToGive, CtrlInv, TypeOK
<1>3. Open' = Open
  BY <1>0, OpenSame DEF Signallers, Collected
<1>4. t \notin Holders
  BY <1>0 DEF Holders
<1>5. CASE wait_sem = wait_sem' + 1
  <2>1. pc'[t] = "answer" \/ (pc'[t] = "relock" /\ retval'[t] = "RHINO_SUCCESS")
    BY <1>0, <1>5, NumberTypes
  <2>2. Holders' = Holders \cup {t}
    BY <1>0, <2>1 DEF Holders
  <2> QED BY <1>0, <1>1, <1>2, <1>3, <1>4, <1>5, <2>2, UnitTaken
<1>6. CASE wait_sem # wait_sem' + 1
  <2>1. wait_sem' = wait_sem /\ \/ pc'[t] \in {"waiting", "eating"}
                                \/ pc'[t] = "relock" /\ retval'[t] = "RHINO_BLK_TIMEOUT"
    BY <1>0, <1>6
  <2>2. Holders' = Holders
    BY <1>0, <1>4, <2>1 DEF Holders
  <2> QED BY <1>0, <1>1, <1>2, <1>3, <2>1, <2>2, CountsSame
<1> QED BY <1>5, <1>6

(* A waiter that was not signalled leaves, and one that was has a unit to eat or an
   answer to give. *)
LEMMA CountRelock ==
  ASSUME CtrlInv, CountInv, CtrlInv', NEW t \in Thread, WaitRelock(t)
  PROVE  CountInv'
<1>0. /\ \A u \in Thread \ {t} : pc'[u] = pc[u]
      /\ pc[t] = "relock" /\ lock = None
      /\ UNCHANGED <<signals, wait_sem, wait_done, retval, num_waiting, i>>
      /\ \/ /\ signals = 0 /\ waiting' = waiting - 1 /\ pc'[t] = "reacquire" /\ lock' = None
         \/ /\ waiting' = waiting /\ lock' = t
            /\ pc'[t] = IF retval[t] = "RHINO_BLK_TIMEOUT" THEN "eat" ELSE "answer"
  BY DEF WaitRelock, CtrlInv, TypeOK
<1>1. Open' = Open
  BY <1>0, OpenSame DEF Signallers, Collected
<1>2. ToGive = 0 /\ ToGive' = 0
  BY <1>0 DEF ToGive
<1>3. CASE signals = 0 /\ waiting' = waiting - 1 /\ pc'[t] = "reacquire"
  <2>1. Waiters' = Waiters \ {t} /\ t \in Waiters /\ Waiters \subseteq Thread
    BY <1>0, <1>3 DEF Waiters, InWait
  <2>2. Cardinality(Waiters) = Cardinality(Waiters') + 1
    BY <2>1, OneLess
  <2>3. t \notin Holders
    BY <1>3, Counted
  <2>4. Holders' = Holders
    BY <1>0, <1>3, <2>3 DEF Holders
  <2>5. waiting' + Cardinality(Waiters) = waiting + Cardinality(Waiters')
    BY <1>3, <2>2, NumberTypes
  <2>6. signals' <= waiting'
    BY <1>0, <1>3, NumberTypes
  <2> QED BY <1>0, <1>1, <1>2, <2>4, <2>5, <2>6, CountStep DEF CountInv
<1>4. CASE waiting' = waiting /\ pc'[t] = IF retval[t] = "RHINO_BLK_TIMEOUT" THEN "eat" ELSE "answer"
  <2>1. Waiters' = Waiters
    BY <1>0, <1>4 DEF Waiters, InWait
  <2>2. retval[t] = "RHINO_SUCCESS" \/ retval[t] = "RHINO_BLK_TIMEOUT"
    BY DEF CtrlInv, TypeOK
  <2>3. Holders' = Holders
    BY <1>0, <1>4, <2>2 DEF Holders
  <2> QED BY <1>0, <1>1, <1>2, <1>4, <2>1, <2>3, CountsSame
<1> QED BY <1>0, <1>3, <1>4

(* A signaller collects an answer. *)
LEMMA OpenCollected ==
  ASSUME CtrlInv, IsFiniteSet(Open), NEW w \in Thread, pc[w] \in {"collect", "collecting"},
         i' = [i EXCEPT ![w] = i[w] + 1], num_waiting' = num_waiting,
         pc'[w] = IF i[w] + 1 < num_waiting[w] THEN "collect" ELSE "user",
         \A u \in Thread \ {w} : /\ u \in Signallers' <=> u \in Signallers
                                 /\ u \in Signallers => (pc'[u] = "give" <=> pc[u] = "give")
  PROVE  IsFiniteSet(Open') /\ Cardinality(Open) = Cardinality(Open') + 1
<1>1. i \in [Thread -> Nat] /\ num_waiting \in [Thread -> Nat] /\ i[w] < num_waiting[w]
  BY DEF CtrlInv, TypeOK
<1>2. PICK n \in Nat, c \in Nat : n = num_waiting[w] /\ c = i[w]
  BY <1>1
<1>3. w \in Signallers /\ Collected(w) = c
  BY <1>2 DEF Signallers, Collected
<1>4. /\ w \in Signallers' <=> c + 1 < n
      /\ w \in Signallers' => Collected(w)' = c + 1
  BY <1>1, <1>2 DEF Signallers, Collected
<1>5. ASSUME NEW k \in Int
      PROVE  <<w, k>> \in Open' <=> <<w, k>> \in Open /\ k # c
  <2>1. <<w, k>> \in Open <=> k \in c .. n - 1
    BY <1>2, <1>3, OpenPair
  <2>2. <<w, k>> \in Open' <=> c + 1 < n /\ k \in c + 1 .. n - 1
    BY <1>2, <1>4, OpenPair
  <2>3. c + 1 < n /\ k \in c + 1 .. n - 1 <=> k \in c .. n - 1 /\ k # c
    BY <1>1, <1>2
  <2> QED BY <2>1, <2>2, <2>3
<1>6. ASSUME NEW u \in Thread \ {w}, NEW k \in Int
      PROVE  <<u, k>> \in Open' <=> <<u, k>> \in Open
  <2>1. u \in Signallers => Collected(u)' = Collected(u) /\ num_waiting'[u] = num_waiting[u]
    BY <1>1 DEF Collected
  <2> QED BY <2>1, OpenPair
<1>7. Open' = Open \ {<<w, c>>}
  <2>1. ASSUME NEW x PROVE x \in Open' <=> x \in Open /\ x # <<w, c>>
    <3>1. CASE \E u \in Thread, k \in Int : x = <<u, k>>
      BY <1>5, <1>6, <3>1
    <3>2. CASE ~ \E u \in Thread, k \in Int : x = <<u, k>>
      BY <3>2, OpenAre
    <3> QED BY <3>1, <3>2
  <2> QED BY <2>1
<1>8. <<w, c>> \in Open
  <2>1. c \in c .. n - 1
    BY <1>1, <1>2
  <2> QED BY <1>2, <1>3, <2>1, OpenPair
<1>9. IsFiniteSet(Open') /\ Cardinality(Open') = Cardinality(Open) - 1
  BY <1>7, <1>8, FS_RemoveElement
<1>10. Cardinality(Open) \in Nat
  BY FS_CardinalityType
<1> QED BY <1>9, <1>10

(* A signaller takes an answer that was there. *)
LEMMA CountCollect ==
  ASSUME CtrlInv, CountInv, CtrlInv', NEW t \in Thread, Collect(t)
  PROVE  CountInv'
<1>0. /\ pc[t] = "collect" /\ \A u \in Thread \ {t} : pc'[u] = pc[u]
      /\ pc'[t] \in {"collect", "collecting", "user"}
      /\ UNCHANGED <<lock, waiting, signals, wait_sem, retval, num_waiting>>
      /\ pc \in [Thread -> {"user", "release", "take", "waiting", "relock", "eat",
                            "eating", "answer", "reacquire", "give", "collect", "collecting"}]
  BY DEF Collect, Woken, CtrlInv, TypeOK
<1>1. Waiters' = Waiters
  BY <1>0 DEF Waiters, InWait
<1>2. Holders' = Holders
  BY <1>0 DEF Holders
<1>3. ToGive' = ToGive
  <2>1. lock # t
    BY <1>0 DEF CtrlInv, LockHeld
  <2>2. CASE lock = None
    BY <1>0, <2>2 DEF ToGive
  <2>3. CASE lock \in Thread \ {t}
    <3>1. pc'[lock] = pc[lock] /\ i'[lock] = i[lock]
      BY <1>0, <2>3 DEF Collect, CtrlInv, TypeOK
    <3> QED BY <1>0, <3>1 DEF ToGive
  <2> QED BY <2>1, <2>2, <2>3 DEF CtrlInv, TypeOK
<1>4. CASE pc'[t] = "collecting" /\ UNCHANGED <<wait_done, i>>
  <2>1. Open' = Open
    BY <1>0, <1>4, OpenSame DEF Signallers, Collected
  <2> QED BY <1>0, <1>1, <1>2, <1>3, <1>4, <2>1, CountsSame
<1>5. CASE /\ wait_done > 0 /\ wait_done' = wait_done - 1 /\ i' = [i EXCEPT ![t] = i[t] + 1]
           /\ pc'[t] = Woken(t)
  <2>1. Woken(t) = IF i[t] + 1 < num_waiting[t] THEN "collect" ELSE "user"
    BY <1>0 DEF Woken
  <2>2. \A u \in Thread \ {t} : /\ u \in Signallers' <=> u \in Signallers
                                /\ u \in Signallers => (pc'[u] = "give" <=> pc[u] = "give")
    BY <1>0 DEF Signallers
  <2>3. IsFiniteSet(Open') /\ Cardinality(Open) = Cardinality(Open') + 1
    BY <1>0, <1>5, <2>1, <2>2, OpenCollected DEF CountInv
  <2>4. Cardinality(Open') + (wait_done + signals) = Cardinality(Open) + (wait_done' + signals')
    <3>1. PICK o \in Nat, op \in Nat, d \in Nat, dp \in Nat, s \in Nat :
             /\ o = Cardinality(Open) /\ op = Cardinality(Open')
             /\ d = wait_done /\ dp = wait_done' /\ s = signals
      BY <2>3, NumberTypes, FS_CardinalityType DEF CountInv
    <3>2. o = op + 1 /\ dp = d - 1
      BY <1>5, <2>3, <3>1
    <3>3. op + (d + s) = o + (dp + s)
      BY <3>2
    <3> QED BY <1>0, <3>1, <3>3
  <2> QED BY <1>0, <1>1, <1>2, <1>3, <2>3, <2>4, CountStep DEF CountInv, SignalsMatch
<1>6. pc \in [Thread -> {"user", "release", "take", "waiting", "relock", "eat",
                         "eating", "answer", "reacquire", "give", "collect", "collecting"}]
  BY <1>0
<1> QED BY <1>4, <1>5, <1>6 DEF Collect

(* A waiter answers: its signal is no more, and there is an answer instead. *)
LEMMA CountAnswer ==
  ASSUME CtrlInv, CountInv, CtrlInv', NEW t \in Thread, WaitAnswer(t)
  PROVE  CountInv'
<1>0. /\ pc[t] = "answer" /\ signals' = signals - 1 /\ waiting' = waiting - 1
      /\ lock' = None /\ lock = t
      /\ UNCHANGED <<wait_sem, retval, num_waiting>>
  BY DEF WaitAnswer, CtrlInv, LockHeld
<1>t. /\ pc \in [Thread -> {"user", "release", "take", "waiting", "relock", "eat",
                            "eating", "answer", "reacquire", "give", "collect", "collecting"}]
      /\ i \in [Thread -> Nat]
  BY DEF CtrlInv, TypeOK
<1>1. ToGive = 0 /\ ToGive' = 0
  BY <1>0 DEF ToGive
<1>2. \/ /\ wait_done' = wait_done + 1 /\ pc' = [pc EXCEPT ![t] = "reacquire"] /\ UNCHANGED i
      \/ \E w \in Thread \ {t} :
           /\ pc[w] = "collecting" /\ i' = [i EXCEPT ![w] = i[w] + 1] /\ UNCHANGED wait_done
           /\ pc' = [[pc EXCEPT ![t] = "reacquire"] EXCEPT
                       ![w] = IF i[w] + 1 < num_waiting[w] THEN "collect" ELSE "user"]
  <2>1. \A w \in DoneWaiters : /\ w \in Thread \ {t} /\ pc[w] = "collecting"
                               /\ Woken(w) = IF i[w] + 1 < num_waiting[w] THEN "collect" ELSE "user"
    BY <1>0 DEF DoneWaiters, Woken
  <2> QED BY <2>1 DEF WaitAnswer, GiveWaitDone
<1>3. Waiters' = Waiters \ {t} /\ t \in Waiters /\ Waiters \subseteq Thread
  BY <1>0, <1>2, <1>t DEF Waiters, InWait
<1>4. Holders' = Holders \ {t} /\ t \in Holders /\ Holders \subseteq Thread
  BY <1>0, <1>2, <1>t DEF Holders
<1>5. /\ Cardinality(Waiters) = Cardinality(Waiters') + 1
      /\ Cardinality(Holders) = Cardinality(Holders') + 1
  BY <1>3, <1>4, OneLess
<1>6. waiting' + Cardinality(Waiters) = waiting + Cardinality(Waiters')
  BY <1>0, <1>5, NumberTypes
<1>7. signals' <= waiting'
  BY <1>0, NumberTypes DEF CountInv, SignalsMatch
<1>8. signals' + (wait_sem + Cardinality(Holders) + ToGive)
      = signals + (wait_sem' + Cardinality(Holders') + ToGive')
  <2>1. PICK s \in Nat, sp \in Nat, m \in Nat, h \in Nat, hp \in Nat :
           /\ s = signals /\ sp = signals' /\ m = wait_sem
           /\ h = Cardinality(Holders) /\ hp = Cardinality(Holders')
    BY NumberTypes
  <2>2. sp = s - 1 /\ h = hp + 1
    BY <1>0, <1>5, <2>1
  <2>3. sp + (m + h + 0) = s + (m + hp + 0)
    BY <2>2
  <2> QED BY <1>0, <1>1, <2>1, <2>3
<1>9. IsFiniteSet(Open') /\ Cardinality(Open') + (wait_done + signals) = Cardinality(Open) + (wait_done' + signals')
  <2>1. PICK o \in Nat, d \in Nat, s \in Nat, dp \in Nat, sp \in Nat :
           /\ o = Cardinality(Open) /\ d = wait_done /\ s = signals
           /\ dp = wait_done' /\ sp = signals'
    BY NumberTypes, FS_CardinalityType DEF CountInv
  <2>2. sp = s - 1
    BY <1>0, <2>1
  <2>3. CASE wait_done' = wait_done + 1 /\ pc' = [pc EXCEPT ![t] = "reacquire"] /\ UNCHANGED i
    <3>1. Open' = Open
      BY <1>0, <1>t, <2>3, OpenSame DEF Signallers, Collected
    <3>2. dp = d + 1
      BY <2>1, <2>3
    <3>3. o + (d + s) = o + (dp + sp)
      BY <2>2, <3>2
    <3> QED BY <2>1, <3>1, <3>3 DEF CountInv
  <2>4. ASSUME NEW w \in Thread \ {t}, pc[w] = "collecting",
               i' = [i EXCEPT ![w] = i[w] + 1], UNCHANGED wait_done,
               pc' = [[pc EXCEPT ![t] = "reacquire"] EXCEPT
                        ![w] = IF i[w] + 1 < num_waiting[w] THEN "collect" ELSE "user"]
        PROVE  IsFiniteSet(Open') /\ Cardinality(Open') + (wait_done + signals)
                                     = Cardinality(Open) + (wait_done' + signals')
    <3>1. pc'[w] = IF i[w] + 1 < num_waiting[w] THEN "collect" ELSE "user"
      BY <1>t, <2>4
    <3>2. \A u \in Thread \ {w} : /\ u \in Signallers' <=> u \in Signallers
                                  /\ u \in Signallers => (pc'[u] = "give" <=> pc[u] = "give")
      BY <1>0, <1>t, <2>4 DEF Signallers
    <3>3. IsFiniteSet(Open') /\ Cardinality(Open) = Cardinality(Open') + 1
      BY <1>0, <2>4, <3>1, <3>2, OpenCollected DEF CountInv
    <3>4. PICK op \in Nat : op = Cardinality(Open')
      BY <3>3, FS_CardinalityType
    <3>5. o = op + 1 /\ dp = d
      BY <2>1, <2>4, <3>3, <3>4
    <3>6. op + (d + s) = o + (dp + sp)
      BY <2>2, <3>5
    <3> QED BY <2>1, <3>3, <3>4, <3>6
  <2> QED BY <1>2, <2>3, <2>4
<1> QED BY <1>6, <1>7, <1>8, <1>9, CountStep

(* A unit of wait_sem is given: it is there, or a waiter has it. *)
LEMMA UnitGiven ==
  ASSUME CtrlInv, CtrlInv', NEW t \in Thread, NEW p,
         (pc[t] = "user" /\ lock = None) \/ pc[t] = "give",
         p \in [Thread -> {"user", "release", "take", "waiting", "relock", "eat",
                           "eating", "answer", "reacquire", "give", "collect", "collecting"}],
         \A u \in Thread \ {t} : p[u] = pc[u], p[t] \in {"collect", "give"}, GiveWaitSem(p)
  PROVE  /\ Waiters' = Waiters
         /\ wait_sem' + Cardinality(Holders') = wait_sem + Cardinality(Holders) + 1
         /\ pc'[t] = p[t]
         /\ \A u \in Thread \ {t} : \/ pc'[u] = pc[u]
                                    \/ pc[u] = "waiting" /\ pc'[u] = "relock"
<1>1. CASE wait_sem' = wait_sem + 1 /\ pc' = p /\ UNCHANGED retval
  <2>1. Waiters' = Waiters
    BY <1>1 DEF Waiters, InWait
  <2>2. Holders' = Holders
    BY <1>1 DEF Holders
  <2>3. wait_sem' + Cardinality(Holders') = wait_sem + Cardinality(Holders) + 1
    BY <1>1, <2>2, NumberTypes
  <2> QED BY <1>1, <2>1, <2>3
<1>2. ASSUME NEW w \in SemWaiters, pc' = [p EXCEPT ![w] = Woken(w)],
             retval' = [retval EXCEPT ![w] = "RHINO_SUCCESS"], UNCHANGED wait_sem
      PROVE  /\ Waiters' = Waiters
             /\ wait_sem' + Cardinality(Holders') = wait_sem + Cardinality(Holders) + 1
             /\ pc'[t] = p[t]
             /\ \A u \in Thread \ {t} : \/ pc'[u] = pc[u]
                                        \/ pc[u] = "waiting" /\ pc'[u] = "relock"
  <2>1. w \in Thread /\ w # t /\ pc[w] = "waiting" /\ Woken(w) = "relock"
    BY Sleepers
  <2>2. /\ pc'[w] = "relock" /\ pc'[t] = p[t] /\ \A u \in Thread \ {t, w} : pc'[u] = pc[u]
        /\ retval'[w] = "RHINO_SUCCESS" /\ \A u \in Thread \ {w} : retval'[u] = retval[u]
    BY <1>2, <2>1 DEF CtrlInv, TypeOK
  <2>3. Waiters' = Waiters
    BY <2>1, <2>2 DEF Waiters, InWait
  <2>4. Holders' = Holders \cup {w} /\ w \notin Holders /\ Holders \subseteq Thread
    BY <2>1, <2>2 DEF Holders
  <2>5. Cardinality(Holders') = Cardinality(Holders) + 1
    BY <2>1, <2>4, OneMore
  <2>6. wait_sem' + Cardinality(Holders') = wait_sem + Cardinality(Holders) + 1
    BY <1>2, <2>5, NumberTypes
  <2> QED BY <2>1, <2>2, <2>3, <2>6
<1> QED BY <1>1, <1>2 DEF GiveWaitSem

(* A signal is counted, and its unit given, when a waiter is left that has none. *)
LEMMA CountSignal ==
  ASSUME CtrlInv, CountInv, CtrlInv', NEW t \in Thread, pthread_cond_signal(t)
  PROVE  CountInv'
<1>0. /\ pc[t] = "user" /\ lock = None /\ waiting > signals /\ signals' = signals + 1
      /\ num_waiting' = [num_waiting EXCEPT ![t] = 1] /\ i' = [i EXCEPT ![t] = 0]
      /\ GiveWaitSem([pc EXCEPT ![t] = "collect"])
      /\ UNCHANGED <<lock, waiting, wait_done>>
  BY DEF pthread_cond_signal
<1>t. i \in [Thread -> Nat] /\ num_waiting \in [Thread -> Nat]
  BY DEF CtrlInv, TypeOK
<1>1. PICK p : p = [pc EXCEPT ![t] = "collect"]
  OBVIOUS
<1>2. /\ p \in [Thread -> {"user", "release", "take", "waiting", "relock", "eat",
                           "eating", "answer", "reacquire", "give", "collect", "collecting"}]
      /\ \A u \in Thread \ {t} : p[u] = pc[u]
      /\ p[t] = "collect"
  BY <1>1 DEF CtrlInv, TypeOK
<1>3. /\ Waiters' = Waiters
      /\ wait_sem' + Cardinality(Holders') = wait_sem + Cardinality(Holders) + 1
      /\ pc'[t] = "collect"
      /\ \A u \in Thread \ {t} : \/ pc'[u] = pc[u]
                                 \/ pc[u] = "waiting" /\ pc'[u] = "relock"
  BY <1>0, <1>1, <1>2, UnitGiven
<1>4. ToGive = 0 /\ ToGive' = 0
  BY <1>0 DEF ToGive
<1>5. Open' = Open \cup {<<t, 0>>} /\ <<t, 0>> \notin Open
  <2>1. t \notin Signallers /\ t \in Signallers' /\ Collected(t)' = 0 /\ num_waiting'[t] = 1
    BY <1>0, <1>3, <1>t DEF Signallers, Collected
  <2>2. ASSUME NEW u \in Thread \ {t}
        PROVE  /\ u \in Signallers' <=> u \in Signallers
               /\ u \in Signallers => /\ Collected(u)' = Collected(u)
                                      /\ num_waiting'[u] = num_waiting[u]
    BY <1>0, <1>3, <1>t DEF Signallers, Collected
  <2>3. ASSUME NEW k \in Int
        PROVE  <<t, k>> \notin Open /\ (<<t, k>> \in Open' <=> k = 0)
    <3>1. <<t, k>> \notin Open
      BY <2>1, OpenPair
    <3>2. <<t, k>> \in Open' <=> k \in 0 .. 1 - 1
      BY <2>1, OpenPair
    <3> QED BY <3>1, <3>2
  <2>4. ASSUME NEW u \in Thread \ {t}, NEW k \in Int
        PROVE  <<u, k>> \in Open' <=> <<u, k>> \in Open
    BY <2>2, OpenPair
  <2>5. ASSUME NEW x PROVE x \in Open' <=> x \in Open \/ x = <<t, 0>>
    <3>1. CASE \E u \in Thread, k \in Int : x = <<u, k>>
      BY <2>3, <2>4, <3>1
    <3>2. CASE ~ \E u \in Thread, k \in Int : x = <<u, k>>
      BY <3>2, OpenAre
    <3> QED BY <3>1, <3>2
  <2> QED BY <2>3, <2>5
<1>6. IsFiniteSet(Open') /\ Cardinality(Open') = Cardinality(Open) + 1
  BY <1>5, FS_AddElement DEF CountInv
<1>7. PICK s \in Nat, sp \in Nat, m \in Nat, mp \in Nat, h \in Nat, hp \in Nat, o \in Nat, op \in Nat,
           d \in Nat :
         /\ s = signals /\ sp = signals' /\ m = wait_sem /\ mp = wait_sem'
         /\ h = Cardinality(Holders) /\ hp = Cardinality(Holders')
         /\ o = Cardinality(Open) /\ op = Cardinality(Open') /\ d = wait_done
  BY <1>6, NumberTypes, FS_CardinalityType DEF CountInv
<1>8. sp = s + 1 /\ mp + hp = m + h + 1 /\ op = o + 1
  BY <1>0, <1>3, <1>6, <1>7
<1>9. sp + (m + h + 0) = s + (mp + hp + 0) /\ op + (d + s) = o + (d + sp)
  BY <1>8
<1>10. signals' <= waiting'
  BY <1>0, NumberTypes
<1>11. signals' + (wait_sem + Cardinality(Holders) + ToGive)
       = signals + (wait_sem' + Cardinality(Holders') + ToGive')
  BY <1>4, <1>7, <1>9
<1>12. Cardinality(Open') + (wait_done + signals) = Cardinality(Open) + (wait_done' + signals')
  BY <1>0, <1>7, <1>9
<1>13. waiting' + Cardinality(Waiters) = waiting + Cardinality(Waiters')
  BY <1>0, <1>3
<1> QED BY <1>6, <1>10, <1>11, <1>12, <1>13, CountStep

(* A broadcast gives one unit more of those it has counted. *)
LEMMA CountGive ==
  ASSUME CtrlInv, CountInv, CtrlInv', NEW t \in Thread, BroadcastGive(t)
  PROVE  CountInv'
<1>0. /\ pc[t] = "give" /\ i[t] < num_waiting[t] /\ i' = [i EXCEPT ![t] = i[t] + 1]
      /\ GiveWaitSem(pc) /\ lock = t
      /\ UNCHANGED <<lock, waiting, signals, wait_done, num_waiting>>
  BY DEF BroadcastGive, CtrlInv, LockHeld
<1>t. i \in [Thread -> Nat] /\ num_waiting \in [Thread -> Nat]
  BY DEF CtrlInv, TypeOK
<1>1. PICK p : p = pc
  OBVIOUS
<1>2. /\ p \in [Thread -> {"user", "release", "take", "waiting", "relock", "eat",
                           "eating", "answer", "reacquire", "give", "collect", "collecting"}]
      /\ \A u \in Thread \ {t} : p[u] = pc[u]
      /\ p[t] = "give"
  BY <1>0, <1>1 DEF CtrlInv, TypeOK
<1>3. /\ Waiters' = Waiters
      /\ wait_sem' + Cardinality(Holders') = wait_sem + Cardinality(Holders) + 1
      /\ pc'[t] = "give"
      /\ \A u \in Thread \ {t} : \/ pc'[u] = pc[u]
                                 \/ pc[u] = "waiting" /\ pc'[u] = "relock"
  BY <1>0, <1>1, <1>2, UnitGiven
<1>4. ToGive = num_waiting[t] - i[t] /\ ToGive' = num_waiting[t] - (i[t] + 1)
  BY <1>0, <1>3, <1>t, UsesAssumption DEF ToGive
<1>5. Open' = Open
  <2>1. ASSUME NEW u \in Thread
        PROVE  /\ u \in Signallers' <=> u \in Signallers
               /\ u \in Signallers => /\ Collected(u)' = Collected(u)
                                      /\ num_waiting'[u] = num_waiting[u]
    BY <1>0, <1>3, <1>t DEF Signallers, Collected
  <2> QED BY <2>1, OpenSame
<1>6. PICK s \in Nat, m \in Nat, mp \in Nat, h \in Nat, hp \in Nat, n \in Nat, c \in Nat :
         /\ s = signals /\ m = wait_sem /\ mp = wait_sem'
         /\ h = Cardinality(Holders) /\ hp = Cardinality(Holders')
         /\ n = num_waiting[t] /\ c = i[t]
  BY <1>t, NumberTypes
<1>7. mp + hp = m + h + 1
  BY <1>3, <1>6
<1>8. s + (m + h + (n - c)) = s + (mp + hp + (n - (c + 1)))
  BY <1>7
<1>9. signals' + (wait_sem + Cardinality(Holders) + ToGive)
      = signals + (wait_sem' + Cardinality(Holders') + ToGive')
  BY <1>0, <1>4, <1>6, <1>8
<1> QED BY <1>0, <1>3, <1>5, <1>9, CountStep DEF CountInv, SignalsMatch

(* A broadcast counts a signal for every waiter that has none. *)
LEMMA CountBroadcast ==
  ASSUME CtrlInv, CountInv, CtrlInv', NEW t \in Thread, BroadcastEnter(t)
  PROVE  CountInv'
<1>0. /\ pc[t] = "user" /\ lock = None /\ waiting > signals /\ lock' = t
      /\ num_waiting' = [num_waiting EXCEPT ![t] = waiting - signals]
      /\ i' = [i EXCEPT ![t] = 0] /\ signals' = waiting
      /\ pc' = [pc EXCEPT ![t] = "give"]
      /\ UNCHANGED <<waiting, wait_sem, wait_done, retval>>
  BY DEF BroadcastEnter
<1>t. /\ i \in [Thread -> Nat] /\ num_waiting \in [Thread -> Nat]
      /\ pc \in [Thread -> {"user", "release", "take", "waiting", "relock", "eat",
                            "eating", "answer", "reacquire", "give", "collect", "collecting"}]
  BY DEF CtrlInv, TypeOK
<1>1. PICK w \in Nat, s \in Nat, n \in Nat : w = waiting /\ s = signals /\ n = w - s
  <2>1. waiting \in Nat /\ signals \in Nat /\ waiting - signals \in Nat
    BY <1>0, NumberTypes
  <2> QED BY <2>1
<1>2. Waiters' = Waiters /\ Holders' = Holders
  BY <1>0, <1>t DEF Waiters, InWait, Holders
<1>3. ToGive = 0 /\ ToGive' = n
  <2>1. pc'[t] = "give" /\ num_waiting'[t] = n /\ i'[t] = 0
    BY <1>0, <1>1, <1>t
  <2>2. ToGive' = n - 0
    BY <1>0, <2>1, UsesAssumption DEF ToGive
  <2>3. ToGive = 0
    BY <1>0 DEF ToGive
  <2> QED BY <2>2, <2>3
<1>4. PICK new : new = {t} \X (0 .. n - 1)
  OBVIOUS
<1>5. IsFiniteSet(new) /\ Cardinality(new) = n
  <2>1. IsFiniteSet(0 .. n - 1) /\ Cardinality(0 .. n - 1) = n
    <3>1. IsFiniteSet(0 .. n - 1) /\ Cardinality(0 .. n - 1) = IF 0 > n - 1 THEN 0 ELSE n - 1 - 0 + 1
      BY FS_Interval
    <3> QED BY <3>1
  <2>2. IsFiniteSet({t}) /\ Cardinality({t}) = 1
    BY FS_Singleton
  <2>3. IsFiniteSet({t} \X (0 .. n - 1)) /\ Cardinality({t} \X (0 .. n - 1)) = 1 * n
    BY <2>1, <2>2, FS_Product
  <2> QED BY <1>4, <2>3
<1>6. Open' = Open \cup new /\ Open \cap new = {}
  <2>1. t \notin Signallers /\ t \in Signallers' /\ Collected(t)' = 0 /\ num_waiting'[t] = n
    BY <1>0, <1>1, <1>t DEF Signallers, Collected
  <2>2. ASSUME NEW u \in Thread \ {t}
        PROVE  /\ u \in Signallers' <=> u \in Signallers
               /\ u \in Signallers => /\ Collected(u)' = Collected(u)
                                      /\ num_waiting'[u] = num_waiting[u]
    BY <1>0, <1>t DEF Signallers, Collected
  <2>3. ASSUME NEW k \in Int
        PROVE  <<t, k>> \notin Open /\ (<<t, k>> \in Open' <=> <<t, k>> \in new)
    <3>1. <<t, k>> \notin Open
      BY <2>1, OpenPair
    <3>2. <<t, k>> \in Open' <=> k \in 0 .. n - 1
      BY <2>1, OpenPair
    <3> QED BY <1>4, <3>1, <3>2
  <2>4. ASSUME NEW u \in Thread \ {t}, NEW k \in Int
        PROVE  /\ <<u, k>> \in Open' <=> <<u, k>> \in Open
               /\ <<u, k>> \notin new
    BY <1>4, <2>2, OpenPair
  <2>5. \A x \in new : \E k \in Int : x = <<t, k>>
    BY <1>4
  <2>6. ASSUME NEW x PROVE /\ x \in Open' <=> x \in Open \/ x \in new
                           /\ ~(x \in Open /\ x \in new)
    <3>1. CASE \E u \in Thread, k \in Int : x = <<u, k>>
      BY <2>3, <2>4, <3>1
    <3>2. CASE ~ \E u \in Thread, k \in Int : x = <<u, k>>
      BY <2>5, <3>2, OpenAre
    <3> QED BY <3>1, <3>2
  <2> QED BY <2>6
<1>7. PICK o \in Nat, d \in Nat, m \in Nat, h \in Nat :
         o = Cardinality(Open) /\ d = wait_done /\ m = wait_sem /\ h = Cardinality(Holders)
  BY NumberTypes, FS_CardinalityType DEF CountInv
<1>8. IsFiniteSet(Open') /\ Cardinality(Open') = o + n
  <2>1. Cardinality({}) = 0
    BY FS_EmptySet
  <2>2. /\ IsFiniteSet(Open \cup new)
        /\ Cardinality(Open \cup new) = Cardinality(Open) + Cardinality(new) - Cardinality(Open \cap new)
    BY <1>5, FS_Union DEF CountInv
  <2>3. Cardinality(Open \cup new) = o + n - 0
    BY <1>5, <1>6, <1>7, <2>1, <2>2
  <2> QED BY <1>6, <2>2, <2>3
<1>9. w + (m + h + 0) = s + (m + h + n) /\ (o + n) + (d + s) = o + (d + w)
  BY <1>1
<1>10. signals' + (wait_sem + Cardinality(Holders) + ToGive)
       = signals + (wait_sem' + Cardinality(Holders') + ToGive')
  BY <1>0, <1>1, <1>2, <1>3, <1>7, <1>9
<1>11. Cardinality(Open') + (wait_done + signals) = Cardinality(Open) + (wait_done' + signals')
  BY <1>0, <1>1, <1>7, <1>8, <1>9
<1>12. signals' <= waiting'
  BY <1>0, NumberTypes
<1> QED BY <1>0, <1>2, <1>8, <1>10, <1>11, <1>12, CountStep

(* A broadcast that has given all its units has answers to collect. *)
LEMMA CountUnlock ==
  ASSUME CtrlInv, CountInv, CtrlInv', NEW t \in Thread, BroadcastUnlock(t)
  PROVE  CountInv'
<1>0. /\ pc[t] = "give" /\ i[t] = num_waiting[t] /\ lock' = None /\ lock = t
      /\ i' = [i EXCEPT ![t] = 0] /\ pc' = [pc EXCEPT ![t] = "collect"]
      /\ UNCHANGED <<waiting, signals, wait_sem, wait_done, retval, num_waiting>>
  BY DEF BroadcastUnlock, CtrlInv, LockHeld
<1>t. /\ i \in [Thread -> Nat] /\ num_waiting \in [Thread -> Nat]
      /\ pc \in [Thread -> {"user", "release", "take", "waiting", "relock", "eat",
                            "eating", "answer", "reacquire", "give", "collect", "collecting"}]
  BY DEF CtrlInv, TypeOK
<1>1. Waiters' = Waiters /\ Holders' = Holders
  BY <1>0, <1>t DEF Waiters, InWait, Holders
<1>2. ToGive = 0 /\ ToGive' = 0
  BY <1>0, <1>t, UsesAssumption DEF ToGive
<1>3. Open' = Open
  BY <1>0, <1>t, OpenSame DEF Signallers, Collected
<1> QED BY <1>0, <1>1, <1>2, <1>3, CountsSame

------------------------------------------------------------------------------
(* The properties. *)

(* In the beginning nobody waits and nothing is signalled. *)
LEMMA CondInit ==
  ASSUME NoZeroWait, Init PROVE CtrlInv /\ CountInv
<1>1. TypeOK
  BY DEF Init, TypeOK, WaitCalls
<1>2. CtrlInv
  BY <1>1, UsesAssumption DEF Init, CtrlInv, LockHeld
<1>3. Waiters = {} /\ Holders = {} /\ Signallers = {} /\ ToGive = 0
  BY DEF Init, Waiters, InWait, Holders, Signallers, ToGive
<1>4. Open = {}
  BY <1>3, OpenPairs
<1>5. Cardinality({}) = 0 /\ IsFiniteSet({})
  BY FS_EmptySet
<1> QED BY <1>2, <1>3, <1>4, <1>5 DEF Init, CountInv, SignalsMatch, AnswersMatch

(* Every step keeps both parts of the invariant. *)
LEMMA CondStep ==
  ASSUME NoZeroWait, CtrlInv, CountInv, [Next]_vars
  PROVE  CtrlInv' /\ CountInv'
<1>1. CASE UNCHANGED vars
  <2>1. CtrlInv'
    BY <1>1 DEF vars, CtrlInv, TypeOK
  <2>2. Waiters' = Waiters /\ Holders' = Holders /\ ToGive' = ToGive
    BY <1>1 DEF vars, Waiters, Holders, ToGive
  <2>3. Open' = Open
    BY <1>1, OpenSame DEF vars, Signallers, Collected
  <2> QED BY <1>1, <2>1, <2>2, <2>3, CountsSame DEF vars
<1>2. ASSUME NEW t \in Thread, UNCHANGED calls,
             LockMutex(t) \/ UnlockMutex(t) \/ WaitRelease(t) \/ WaitReacquire(t)
      PROVE  CtrlInv' /\ CountInv'
  BY <1>2, CtrlMutex, CountMutex
<1>3. ASSUME NEW t \in Thread, UNCHANGED calls, WaitEnter(t) PROVE CtrlInv' /\ CountInv'
  BY <1>3, CtrlEnter, CountEnter
<1>4. ASSUME NEW t \in Thread, UNCHANGED calls, WaitTake(t) \/ WaitTimeout(t) \/ WaitEat(t)
      PROVE  CtrlInv' /\ CountInv'
  BY <1>4, CtrlTake, CountTake
<1>5. ASSUME NEW t \in Thread, UNCHANGED calls, WaitRelock(t) PROVE CtrlInv' /\ CountInv'
  BY <1>5, CtrlRelock, CountRelock
<1>6. ASSUME NEW t \in Thread, UNCHANGED calls, WaitAnswer(t) PROVE CtrlInv' /\ CountInv'
  BY <1>6, CtrlAnswer, CountAnswer
<1>7. ASSUME NEW t \in Thread, UNCHANGED calls, pthread_cond_signal(t) PROVE CtrlInv' /\ CountInv'
  BY <1>7, CtrlGive, CountSignal
<1>8. ASSUME NEW t \in Thread, UNCHANGED calls, BroadcastGive(t) PROVE CtrlInv' /\ CountInv'
  BY <1>8, CtrlGive, CountGive
<1>9. ASSUME NEW t \in Thread, UNCHANGED calls, BroadcastEnter(t) PROVE CtrlInv' /\ CountInv'
  BY <1>9, CtrlBroadcast, CountBroadcast
<1>10. ASSUME NEW t \in Thread, UNCHANGED calls, BroadcastUnlock(t) PROVE CtrlInv' /\ CountInv'
  BY <1>10, CtrlBroadcast, CountUnlock
<1>11. ASSUME NEW t \in Thread, UNCHANGED calls, Collect(t) PROVE CtrlInv' /\ CountInv'
  BY <1>11, CtrlCollect, CountCollect
<1>12. CASE Next
  <2>1. PICK t \in Thread :
          /\ \/ AppNext(t)
             \/ WaitEnter(t) \/ pthread_cond_signal(t) \/ BroadcastEnter(t)
             \/ WaitTimeout(t) \/ WaitReacquire(t)
             \/ CallNext(t)
          /\ UNCHANGED calls
    BY <1>12 DEF Next
  <2> QED BY <2>1, <1>2, <1>3, <1>4, <1>5, <1>6, <1>7, <1>8, <1>9, <1>10, <1>11
      DEF AppNext, CallNext
<1> QED BY <1>1, <1>12

(* So they hold in every state. *)
LEMMA CondInvariant ==
  ASSUME NoZeroWait PROVE Spec => [](CtrlInv /\ CountInv)
<1>1. Init => CtrlInv /\ CountInv
  BY CondInit
<1>2. (CtrlInv /\ CountInv) /\ [Next]_vars => (CtrlInv /\ CountInv)'
  BY CondStep
<1> QED BY <1>1, <1>2, PTL DEF Spec

(* Every variable keeps its type: in particular no counter of the condition
   variable and no count of its semaphores goes below zero. *)
THEOREM CondTypeCorrect ==
  ASSUME NoZeroWait PROVE Spec => []TypeOK
<1>1. CtrlInv /\ CountInv => TypeOK
  BY DEF CtrlInv
<1> QED BY <1>1, CondInvariant, PTL

(* Every signal that pthread_cond_signal and pthread_cond_broadcast count is one
   unit of wait_sem, to be given, there, or with a waiter that has not answered
   yet, and never more are signalled than wait, however waits, timeouts, signals
   and broadcasts interleave. *)
THEOREM SignalsAreUnits ==
  ASSUME NoZeroWait PROVE Spec => []SignalsMatch
<1>1. CtrlInv /\ CountInv => SignalsMatch
  BY DEF CountInv
<1> QED BY <1>1, CondInvariant, PTL

(* Every answer that signallers have yet to take from wait_done is there or comes
   from a waiter that is signalled and has not answered yet. *)
THEOREM AnswersCome ==
  ASSUME NoZeroWait PROVE Spec => []AnswersMatch
<1>1. CtrlInv /\ CountInv => AnswersMatch
  BY DEF CountInv
<1> QED BY <1>1, CondInvariant, PTL

==============================================================================
