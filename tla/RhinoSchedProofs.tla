-------------------------- MODULE RhinoSchedProofs ---------------------------
(***************************************************************************)
(* What the operations on the run queue, the wait lists and the tick list  *)
(* preserve, and that the scheduler, the interrupts, the tick and the      *)
(* semaphores keep KernelInv.                                              *)
(***************************************************************************)
EXTENDS RhinoKernel, RhinoListProofs

RqType == [list : [Prio -> Seq(AllTask)], highest_pri : Prio]

(* The priority after priority inheritance is a priority. *)
LEMMA PriLimitType ==
  ASSUME NEW pri \in Prio, NEW ml \in Seq(Mutex), NEW bl \in [Obj -> Seq(Task)],
         NEW pr \in [AllTask -> Prio]
  PROVE  mutex_pri_limit(pri, ml, bl, pr) \in Prio
<1> DEFINE S == {pri} \cup {pr[Head(bl[m])] : m \in {x \in ToSet(ml) : bl[x] # <<>>}}
<1>1. ASSUME NEW m \in ToSet(ml), bl[m] # <<>> PROVE pr[Head(bl[m])] \in Prio
  <2>1. m \in Mutex
    BY EntrySet
  <2>2. bl[m] \in Seq(Task)
    BY <2>1 DEF Obj
  <2>3. Head(bl[m]) \in Task
    BY <2>2, <1>1, FirstEntry
  <2> QED BY <2>3 DEF AllTask
<1>2. S \in SUBSET Prio /\ S # {}
  BY <1>1
<1>3. S \in SUBSET Nat
  BY <1>2, NumberAssumption DEF Prio
<1>4. \E p \in S : \A r \in S : p <= r
  BY <1>2, <1>3, LeastNat
<1>5. (CHOOSE p \in S : \A r \in S : p <= r) \in S
  BY <1>4
<1> QED BY <1>2, <1>5 DEF mutex_pri_limit

(* A task that becomes ready is queued, at either end of its list. *)
LEMMA QueueAdd ==
  ASSUME NEW q \in RqType, NEW st \in [AllTask -> TaskStates],
         NEW pr \in [AllTask -> Prio], NEW t \in AllTask,
         Queued(q, st, pr), st[t] # "K_RDY",
         NEW st2, st2[t] = "K_RDY", \A u \in AllTask : u # t => st2[u] = st[u],
         NEW r, r = ready_list_add_tail(q, t, pr[t]) \/ r = ready_list_add_head(q, t, pr[t])
  PROVE  r \in RqType /\ Queued(r, st2, pr)
<1> DEFINE p == pr[t]
           s == q.list[p]
<1>1. p \in Prio /\ s \in Seq(AllTask) /\ q.highest_pri \in Prio
  BY DEF RqType
<1>2. t \notin ToSet(s) /\ Linear(s)
  BY <1>1 DEF Queued
<1> DEFINE R(n) == [list |-> [q.list EXCEPT ![p] = n],
                    highest_pri |-> IF s = <<>> /\ p < q.highest_pri
                                    THEN p ELSE q.highest_pri]
<1>3. PICK n \in {Append(s, t), <<t>> \o s} : r = R(n)
  <2>1. CASE r = ready_list_add_tail(q, t, p)
    <3>1. r = R(Append(s, t))
      BY <2>1 DEF ready_list_add_tail
    <3> QED BY <3>1
  <2>2. CASE r = ready_list_add_head(q, t, p)
    <3>1. r = R(<<t>> \o s)
      BY <2>2 DEF ready_list_add_head
    <3> QED BY <3>1
  <2> QED BY <2>1, <2>2
<1>4. n \in Seq(AllTask) /\ n # <<>> /\ ToSet(n) = ToSet(s) \cup {t} /\ Linear(n)
  <2>1. CASE n = Append(s, t)
    BY <2>1, <1>1, <1>2, AppendEntry
  <2>2. CASE n = <<t>> \o s
    BY <2>2, <1>1, <1>2, PutInFront
  <2> QED BY <2>1, <2>2
<1>5. r.list = [q.list EXCEPT ![p] = n] /\ q.list \in [Prio -> Seq(AllTask)]
  BY <1>3 DEF RqType
<1>6. r \in RqType
  BY <1>1, <1>3, <1>4, <1>5 DEF RqType
<1>7. ASSUME NEW x \in Prio
      PROVE  /\ ToSet(r.list[x]) = {u \in AllTask : st2[u] = "K_RDY" /\ pr[u] = x}
             /\ Linear(r.list[x])
  <2>1. CASE x = p
    <3>1. ToSet(s) = {u \in AllTask : st[u] = "K_RDY" /\ pr[u] = p}
      BY <1>1 DEF Queued
    <3> QED BY <2>1, <3>1, <1>4, <1>5
  <2>2. CASE x # p
    <3>1. ToSet(q.list[x]) = {u \in AllTask : st[u] = "K_RDY" /\ pr[u] = x} /\ Linear(q.list[x])
      BY DEF Queued
    <3> QED BY <2>2, <3>1, <1>5
  <2> QED BY <2>1, <2>2
<1>8. /\ r.list[r.highest_pri] # <<>>
      /\ \A x \in Prio : r.list[x] # <<>> => r.highest_pri <= x
  <2>1. q.list[q.highest_pri] # <<>> /\ \A x \in Prio : q.list[x] # <<>> => q.highest_pri <= x
    BY DEF Queued
  <2>2. r.highest_pri = IF s = <<>> /\ p < q.highest_pri THEN p ELSE q.highest_pri
    BY <1>3
  <2>3. Prio \subseteq Nat
    BY NumberAssumption DEF Prio
  <2>4. \A x \in Prio : r.list[x] = IF x = p THEN n ELSE q.list[x]
    BY <1>5
  <2>5. \A x \in Prio : x \in Int
    BY <2>3
  <2>6. CASE s = <<>> /\ p < q.highest_pri
    BY <2>6, <1>1, <1>4, <2>1, <2>2, <2>4, <2>5
  <2>7. CASE s = <<>> /\ ~(p < q.highest_pri)
    BY <2>7, <1>1, <1>4, <2>1, <2>2, <2>4, <2>5
  <2>8. CASE s # <<>>
    BY <2>8, <1>1, <1>4, <2>1, <2>2, <2>4, <2>5
  <2> QED BY <2>6, <2>7, <2>8
<1>9. st2[Idle] = "K_RDY"
  BY DEF Queued, AllTask
<1> QED BY <1>6, <1>7, <1>8, <1>9 DEF Queued

(* The highest set bit of the priority bitmap. *)
LEMMA FirstBit ==
  ASSUME NEW list \in [Prio -> Seq(AllTask)], \E p \in Prio : list[p] # <<>>
  PROVE  /\ find_first_bit(list) \in Prio
         /\ list[find_first_bit(list)] # <<>>
         /\ \A p \in Prio : list[p] # <<>> => find_first_bit(list) <= p
<1> DEFINE S == {p \in Prio : list[p] # <<>>}
<1>1. Prio \subseteq Nat
  BY NumberAssumption DEF Prio
<1>2. PICK n \in S : \A m \in S : n <= m
  BY <1>1, LeastNat
<1>3. ASSUME NEW r \in 0 .. n - 1 PROVE list[r] = <<>>
  <2>1. r \in Prio /\ r < n
    BY <1>1, NumberAssumption DEF Prio
  <2> QED BY <2>1, <1>1, <1>2
<1>4. \E p \in Prio : list[p] # <<>> /\ \A r \in 0 .. p - 1 : list[r] = <<>>
  BY <1>2, <1>3
<1> DEFINE f == find_first_bit(list)
<1>5. f \in Prio /\ list[f] # <<>> /\ \A r \in 0 .. f - 1 : list[r] = <<>>
  BY <1>4 DEF find_first_bit
<1> HIDE DEF f
<1>6. ASSUME NEW p \in Prio, list[p] # <<>> PROVE f <= p
  <2>1. p < f => p \in 0 .. f - 1
    BY <1>1, <1>5
  <2> QED BY <2>1, <1>1, <1>5, <1>6
<1> QED BY <1>5, <1>6 DEF f

(* A ready task that stops being ready leaves its list; the idle task is still
   ready, so there is a next highest priority. *)
LEMMA QueueRm ==
  ASSUME NEW q \in RqType, NEW st \in [AllTask -> TaskStates],
         prio \in [AllTask -> Prio], NEW t \in Task,
         Queued(q, st, prio), st[t] = "K_RDY",
         NEW st2, st2[t] # "K_RDY", \A u \in AllTask : u # t => st2[u] = st[u]
  PROVE  /\ ready_list_rm(q, t) \in RqType
         /\ Queued(ready_list_rm(q, t), st2, prio)
<1> DEFINE p == prio[t]
           s == q.list[p]
           n == klist_rm(s, t)
           list == [q.list EXCEPT ![p] = n]
           r == ready_list_rm(q, t)
<1>1. p \in Prio /\ s \in Seq(AllTask) /\ q.highest_pri \in Prio /\ t \in AllTask
      /\ q.list \in [Prio -> Seq(AllTask)]
  BY DEF RqType, AllTask
<1>2. t \in ToSet(s) /\ Linear(s)
  BY <1>1 DEF Queued
<1>3. n \in Seq(AllTask) /\ ToSet(n) = ToSet(s) \ {t} /\ Linear(n)
  BY <1>1, <1>2, KlistRm
<1> HIDE DEF n
<1>4. list \in [Prio -> Seq(AllTask)]
  BY <1>1, <1>3
<1>5. Idle # t /\ Idle \in AllTask /\ prio[Idle] \in Prio
  BY TaskAssumption DEF AllTask
<1>6. ASSUME NEW y \in Prio
      PROVE  /\ ToSet(list[y]) = {u \in AllTask : st2[u] = "K_RDY" /\ prio[u] = y}
             /\ Linear(list[y])
  <2>1. ToSet(q.list[y]) = {u \in AllTask : st[u] = "K_RDY" /\ prio[u] = y} /\ Linear(q.list[y])
    BY DEF Queued
  <2>2. CASE y = p
    BY <2>1, <2>2, <1>1, <1>3
  <2>3. CASE y # p
    BY <2>1, <2>3, <1>1
  <2> QED BY <2>2, <2>3
<1>7. st2[Idle] = "K_RDY"
  BY <1>5 DEF Queued
<1>8. list[prio[Idle]] # <<>>
  <2>1. Idle \in ToSet(list[prio[Idle]])
    BY <1>5, <1>6, <1>7
  <2> QED BY <2>1, <1>4, <1>5, EntrySet
<1>9. /\ find_first_bit(list) \in Prio
      /\ list[find_first_bit(list)] # <<>>
      /\ \A y \in Prio : list[y] # <<>> => find_first_bit(list) <= y
  BY <1>4, <1>5, <1>8, FirstBit
<1>10. r = [list |-> list,
            highest_pri |-> IF list[p] = <<>> /\ p = q.highest_pri
                            THEN find_first_bit(list) ELSE q.highest_pri]
  BY DEF ready_list_rm, n
<1> HIDE DEF r
<1>11. r \in RqType
  BY <1>1, <1>4, <1>9, <1>10 DEF RqType
<1>12. /\ r.list[r.highest_pri] # <<>>
       /\ \A y \in Prio : r.list[y] # <<>> => r.highest_pri <= y
  <2>1. q.list[q.highest_pri] # <<>> /\ \A y \in Prio : q.list[y] # <<>> => q.highest_pri <= y
    BY DEF Queued
  <2>2. \A y \in Prio : list[y] # <<>> => q.list[y] # <<>>
    BY <1>1, <1>2, EntrySet
  <2>3. CASE list[p] = <<>> /\ p = q.highest_pri
    BY <2>3, <1>9, <1>10
  <2>4. CASE list[p] # <<>> /\ p = q.highest_pri
    BY <2>1, <2>2, <2>4, <1>1, <1>10
  <2>5. CASE p # q.highest_pri
    BY <2>1, <2>2, <2>5, <1>1, <1>10
  <2> QED BY <2>3, <2>4, <2>5
<1> QED BY <1>6, <1>7, <1>10, <1>11, <1>12 DEF Queued, r

(* What the run queue depends on: who is ready, and at which priority. *)
LEMMA QueueSame ==
  ASSUME NEW q \in RqType, NEW st, NEW st2, NEW pr, NEW pr2, Queued(q, st, pr),
         \A t \in AllTask : st2[t] = "K_RDY" <=> st[t] = "K_RDY",
         \A t \in AllTask : st[t] = "K_RDY" => pr2[t] = pr[t]
  PROVE  Queued(q, st2, pr2)
<1>1. ASSUME NEW p \in Prio
      PROVE  ToSet(q.list[p]) = {t \in AllTask : st2[t] = "K_RDY" /\ pr2[t] = p}
  BY DEF Queued
<1>2. st2[Idle] = "K_RDY"
  BY DEF Queued, AllTask
<1> QED BY <1>1, <1>2 DEF Queued

(* Round robin and yield turn a list of the run queue. *)
LEMMA QueueRotate ==
  ASSUME NEW q \in RqType, NEW st, NEW pr, Queued(q, st, pr),
         NEW p \in Prio, q.list[p] # <<>>
  PROVE  /\ ready_list_head_to_tail(q, p) \in RqType
         /\ Queued(ready_list_head_to_tail(q, p), st, pr)
<1> DEFINE s == q.list[p]
           n == Append(Tail(s), Head(s))
           r == ready_list_head_to_tail(q, p)
<1>1. q.list \in [Prio -> Seq(AllTask)] /\ q.highest_pri \in Prio
      /\ s \in Seq(AllTask) /\ s # <<>> /\ Linear(s)
  BY DEF RqType, Queued
<1>2. n \in Seq(AllTask) /\ n # <<>> /\ ToSet(n) = ToSet(s) /\ Linear(n)
  BY <1>1, HeadToTail
<1>3. r = [q EXCEPT !.list = [q.list EXCEPT ![p] = n]]
  BY <1>1 DEF ready_list_head_to_tail, RqType
<1> HIDE DEF n, r
<1>4. r \in RqType
  BY <1>1, <1>2, <1>3 DEF RqType
<1>5. r.list = [q.list EXCEPT ![p] = n] /\ r.highest_pri = q.highest_pri
  BY <1>3 DEF RqType
<1>6. \A x \in Prio : /\ ToSet(r.list[x]) = ToSet(q.list[x])
                      /\ Linear(q.list[x]) => Linear(r.list[x])
                      /\ r.list[x] = <<>> <=> q.list[x] = <<>>
  BY <1>1, <1>2, <1>5
<1>7. Queued(r, st, pr)
  BY <1>1, <1>5, <1>6 DEF Queued
<1> QED BY <1>4, <1>7 DEF r

(* What the wait lists depend on: who waits, for what, at which priority. *)
LEMMA WaitSame ==
  ASSUME NEW bl \in [Obj -> Seq(Task)], NEW st, NEW bo, NEW pr,
         NEW st2, NEW bo2, NEW pr2, Waiting(bl, st, bo, pr),
         \A t \in AllTask : st2[t] \in PendStates <=> st[t] \in PendStates,
         \A t \in AllTask : st[t] \in PendStates => bo2[t] = bo[t] /\ pr2[t] = pr[t]
  PROVE  Waiting(bl, st2, bo2, pr2)
<1>1. Task \subseteq AllTask
  BY DEF AllTask
<1>2. ASSUME NEW o \in Obj
      PROVE  /\ ToSet(bl[o]) = {t \in Task : st2[t] \in PendStates /\ bo2[t] = o}
             /\ Linear(bl[o])
             /\ Sorted(bl[o], pr2)
  <2>1. /\ ToSet(bl[o]) = {t \in Task : st[t] \in PendStates /\ bo[t] = o}
        /\ Linear(bl[o]) /\ Sorted(bl[o], pr)
    BY DEF Waiting
  <2>2. \A i \in 1 .. Len(bl[o]) : bl[o][i] \in ToSet(bl[o])
    BY LenProperties DEF ToSet
  <2>3. \A i \in 1 .. Len(bl[o]) : pr2[bl[o][i]] = pr[bl[o][i]]
    BY <1>1, <2>1, <2>2
  <2>4. Sorted(bl[o], pr2)
    BY <2>1, <2>3 DEF Sorted
  <2> QED BY <1>1, <2>1, <2>4
<1>3. \A t \in AllTask : st2[t] \in PendStates => bo2[t] \in Obj
  BY DEF Waiting
<1> QED BY <1>2, <1>3 DEF Waiting

(* A pending task is on the wait list of the object it is blocked on. *)
LEMMA PendEntry ==
  ASSUME NEW bl \in [Obj -> Seq(Task)], NEW st, NEW bo, NEW pr, NEW t \in Task,
         Waiting(bl, st, bo, pr), st[t] \in PendStates
  PROVE  /\ bo[t] \in Obj
         /\ t \in ToSet(bl[bo[t]])
         /\ Linear(bl[bo[t]])
         /\ klist_rm(bl[bo[t]], t) \in Seq(Task)
<1>1. t \in AllTask
  BY DEF AllTask
<1>2. bo[t] \in Obj /\ t \in ToSet(bl[bo[t]]) /\ Linear(bl[bo[t]])
  BY <1>1 DEF Waiting
<1> QED BY <1>2, KlistRm

(* The wait of t ends: from bl, st and bo to bl2, st2 and bo2. *)
WaitEnds(t, bl, st, bo, bl2, st2, bo2) ==
  /\ st[t] \in PendStates
  /\ st2[t] \notin PendStates
  /\ \A u \in AllTask : u # t => st2[u] = st[u] /\ bo2[u] = bo[u]
  /\ bl2[bo[t]] = klist_rm(bl[bo[t]], t)
  /\ \A o \in Obj : o # bo[t] => bl2[o] = bl[o]

(* A task that stops waiting leaves the list it is on. *)
LEMMA WaitRm ==
  ASSUME NEW bl \in [Obj -> Seq(Task)], NEW st, NEW bo, NEW pr, NEW t \in Task,
         NEW bl2 \in [Obj -> Seq(Task)], NEW st2, NEW bo2,
         Waiting(bl, st, bo, pr), WaitEnds(t, bl, st, bo, bl2, st2, bo2)
  PROVE  Waiting(bl2, st2, bo2, pr)
<1> USE DEF WaitEnds
<1> DEFINE o0 == bo[t]
           s == bl[o0]
           n == klist_rm(s, t)
<1>1. t \in AllTask /\ Task \subseteq AllTask
  BY DEF AllTask
<1>2. o0 \in Obj /\ s \in Seq(Task) /\ t \in ToSet(s) /\ Linear(s) /\ Sorted(s, pr)
  BY <1>1 DEF Waiting
<1>3. n \in Seq(Task) /\ ToSet(n) = ToSet(s) \ {t} /\ Linear(n) /\ Sorted(n, pr)
  BY <1>2, KlistRm, KlistRmSorted
<1> HIDE DEF n
<1>4. bl2[o0] = n /\ \A o \in Obj : o # o0 => bl2[o] = bl[o]
  BY DEF n
<1>6. ASSUME NEW o \in Obj
      PROVE  /\ ToSet(bl2[o]) = {u \in Task : st2[u] \in PendStates /\ bo2[u] = o}
             /\ Linear(bl2[o])
             /\ Sorted(bl2[o], pr)
  <2>1. /\ ToSet(bl[o]) = {u \in Task : st[u] \in PendStates /\ bo[u] = o}
        /\ Linear(bl[o]) /\ Sorted(bl[o], pr)
    BY DEF Waiting
  <2>2. ToSet(bl2[o]) = ToSet(bl[o]) \ {t} /\ Linear(bl2[o]) /\ Sorted(bl2[o], pr)
    BY <1>2, <1>3, <1>4, <2>1
  <2>3. \A u \in Task : st2[u] \in PendStates /\ bo2[u] = o
                          <=> st[u] \in PendStates /\ bo[u] = o /\ u # t
    BY <1>1
  <2> QED BY <2>1, <2>2, <2>3
<1>7. \A u \in AllTask : st2[u] \in PendStates => bo2[u] \in Obj
  BY <1>1 DEF Waiting
<1> QED BY <1>6, <1>7 DEF Waiting

(* ... and then every list has the waiters it had, or fewer. *)
LEMMA WaitFewer ==
  ASSUME NEW bl \in [Obj -> Seq(Task)], NEW o0 \in Obj, NEW t \in ToSet(bl[o0]),
         Linear(bl[o0]), NEW bl2 \in [Obj -> Seq(Task)],
         bl2[o0] = klist_rm(bl[o0], t), \A o \in Obj : o # o0 => bl2[o] = bl[o]
  PROVE  \A o \in Obj : /\ ToSet(bl2[o]) \subseteq ToSet(bl[o])
                        /\ bl[o] = <<>> => bl2[o] = <<>>
<1> TAKE o \in Obj
<1>1. ToSet(klist_rm(bl[o0], t)) = ToSet(bl[o0]) \ {t}
  BY KlistRm
<1>2. ToSet(bl2[o]) \subseteq ToSet(bl[o])
  BY <1>1
<1> QED BY <1>2, EntrySet

(* pend_list_add adds the task to the list. *)
LEMMA PendListType ==
  ASSUME NEW s \in Seq(Task), NEW t \in Task, NEW pr \in [AllTask -> Prio]
  PROVE  /\ pend_list_add(s, t, pr) \in Seq(Task)
         /\ ToSet(pend_list_add(s, t, pr)) = ToSet(s) \cup {t}
<1>1. \A u \in Task : pr[u] \in Int
  BY NumberAssumption DEF Prio, AllTask
<1> QED BY <1>1, SortedInsertProperties DEF pend_list_add

(* The wait of t for o0 begins. *)
WaitBegins(t, o0, pr, bl, st, bo, bl2, st2, bo2) ==
  /\ st[t] \notin PendStates
  /\ st2[t] \in PendStates
  /\ bo2[t] = o0
  /\ \A u \in AllTask : u # t => st2[u] = st[u] /\ bo2[u] = bo[u]
  /\ bl2[o0] = pend_list_add(bl[o0], t, pr)
  /\ \A o \in Obj : o # o0 => bl2[o] = bl[o]

(* A task that starts to wait is put in its place by priority. *)
LEMMA WaitAdd ==
  ASSUME NEW bl \in [Obj -> Seq(Task)], NEW st, NEW bo, NEW pr \in [AllTask -> Prio],
         NEW t \in Task, NEW o0 \in Obj,
         NEW bl2 \in [Obj -> Seq(Task)], NEW st2, NEW bo2,
         Waiting(bl, st, bo, pr), WaitBegins(t, o0, pr, bl, st, bo, bl2, st2, bo2)
  PROVE  Waiting(bl2, st2, bo2, pr)
<1> USE DEF WaitBegins
<1> DEFINE s == bl[o0]
           n == SortedInsert(s, t, pr)
<1>1. t \in AllTask /\ Task \subseteq AllTask
  BY DEF AllTask
<1>2. s \in Seq(Task) /\ t \notin ToSet(s) /\ Linear(s) /\ Sorted(s, pr)
  BY <1>1 DEF Waiting
<1>3. \A u \in Task : pr[u] \in Int
  BY <1>1, NumberAssumption DEF Prio
<1>4. n \in Seq(Task) /\ ToSet(n) = ToSet(s) \cup {t} /\ Linear(n) /\ Sorted(n, pr)
  BY <1>2, <1>3, SortedInsertProperties
<1> HIDE DEF n
<1>5. bl2[o0] = n /\ \A o \in Obj : o # o0 => bl2[o] = bl[o]
  BY DEF n, pend_list_add
<1>7. \A o \in Obj : ToSet(bl2[o]) = IF o = o0 THEN ToSet(bl[o]) \cup {t}
                                     ELSE ToSet(bl[o])
  BY <1>4, <1>5
<1>8. ASSUME NEW o \in Obj
      PROVE  /\ ToSet(bl2[o]) = {u \in Task : st2[u] \in PendStates /\ bo2[u] = o}
             /\ Linear(bl2[o])
             /\ Sorted(bl2[o], pr)
  <2>1. /\ ToSet(bl[o]) = {u \in Task : st[u] \in PendStates /\ bo[u] = o}
        /\ Linear(bl[o]) /\ Sorted(bl[o], pr)
    BY DEF Waiting
  <2>2. Linear(bl2[o]) /\ Sorted(bl2[o], pr)
    BY <1>4, <1>5, <2>1
  <2>3. \A u \in Task : st2[u] \in PendStates /\ bo2[u] = o
                          <=> (u = t /\ o = o0) \/ (st[u] \in PendStates /\ bo[u] = o)
    BY <1>1
  <2>4. \A u \in Task : u \in ToSet(bl2[o]) <=> st2[u] \in PendStates /\ bo2[u] = o
    <3>1. CASE o = o0
      BY <3>1, <1>7, <2>1, <2>3
    <3>2. CASE o # o0
      BY <3>2, <1>7, <2>1, <2>3
    <3> QED BY <3>1, <3>2
  <2>5. ToSet(bl2[o]) \subseteq Task
    BY <1>7, <2>1
  <2> QED BY <2>2, <2>4, <2>5
<1>9. \A u \in AllTask : st2[u] \in PendStates => bo2[u] \in Obj
  BY <1>1 DEF Waiting
<1> QED BY <1>8, <1>9 DEF Waiting

(* The order of a list is a matter of the keys of its entries only. *)
LEMMA SortedSame ==
  ASSUME NEW S, NEW s \in Seq(S), NEW k1, NEW k2, Sorted(s, k1),
         \A e \in ToSet(s) : k2[e] = k1[e]
  PROVE  Sorted(s, k2)
<1>1. \A i \in 1 .. Len(s) : s[i] \in ToSet(s)
  BY LenProperties DEF ToSet
<1> QED BY <1>1 DEF Sorted

(* What the tick list depends on. *)
LEMMA TimedSame ==
  ASSUME NEW tl \in Seq(Task), NEW tr, NEW st, NEW st2, Timed(tl, tr, st),
         \A t \in AllTask : st[t] \in PendStates \cup SleepStates
                              => st2[t] \in PendStates \cup SleepStates,
         \A t \in AllTask : st2[t] \in SleepStates => st[t] \in SleepStates
  PROVE  Timed(tl, tr, st2)
<1>1. ToSet(tl) \subseteq AllTask
  BY EntrySet DEF AllTask
<1> QED BY <1>1 DEF Timed

(* tick_list_rm: the task is on the tick list no more, the others stay. *)
LEMMA TickRm ==
  ASSUME tick_list \in Seq(Task), tick_remain \in [AllTask -> Ticks],
         Timed(tick_list, tick_remain, task_state), NEW t \in Task,
         NEW st2, \A u \in AllTask : u # t => st2[u] = task_state[u],
         st2[t] \notin SleepStates, tick_list_rm(t)
  PROVE  /\ tick_list' \in Seq(Task)
         /\ tick_remain' \in [AllTask -> Ticks]
         /\ Timed(tick_list', tick_remain', st2)
         /\ \A u \in ToSet(tick_list') : /\ u \in ToSet(tick_list)
                                         /\ tick_remain'[u] = tick_remain[u]
<1>1. ToSet(tick_list) \subseteq Task /\ (Contains(tick_list, t) <=> t \in ToSet(tick_list))
  BY EntrySet
<1>2. t \in AllTask /\ Task \subseteq AllTask
  BY DEF AllTask
<1>3. CASE t \in ToSet(tick_list)
  <2>1. /\ tick_list' = klist_rm(tick_list, t)
        /\ tick_remain' = [tick_remain EXCEPT ![t] = 0]
    BY <1>1, <1>3 DEF tick_list_rm
  <2>2. Linear(tick_list) /\ Sorted(tick_list, tick_remain)
    BY DEF Timed
  <2>3. /\ tick_list' \in Seq(Task) /\ Linear(tick_list')
        /\ ToSet(tick_list') = ToSet(tick_list) \ {t}
    BY <1>3, <2>1, <2>2, KlistRm
  <2>4. Sorted(tick_list', tick_remain)
    BY <1>3, <2>1, <2>2, KlistRmSorted
  <2>5. tick_remain' \in [AllTask -> Ticks]
    BY <2>1, <1>2, NumberAssumption DEF Ticks
  <2>6. \A u \in ToSet(tick_list') : tick_remain'[u] = tick_remain[u]
    BY <1>1, <1>2, <2>1, <2>3
  <2>7. Sorted(tick_list', tick_remain')
    BY <2>3, <2>4, <2>6, SortedSame
  <2>8. Timed(tick_list', tick_remain', st2)
    BY <1>1, <1>2, <2>3, <2>7 DEF Timed
  <2> QED BY <2>3, <2>5, <2>6, <2>8
<1>4. CASE t \notin ToSet(tick_list)
  <2>1. tick_list' = tick_list /\ tick_remain' = tick_remain
    BY <1>1, <1>4 DEF tick_list_rm, tickVars
  <2>2. Timed(tick_list, tick_remain, st2)
    BY <1>1, <1>2, <1>4 DEF Timed
  <2> QED BY <2>1, <2>2
<1> QED BY <1>3, <1>4

(* tick_list_insert of a task that starts a sleep or a timed wait. *)
LEMMA TickInsert ==
  ASSUME tick_list \in Seq(Task), tick_remain \in [AllTask -> Ticks],
         task_state \in [AllTask -> TaskStates],
         Timed(tick_list, tick_remain, task_state), NEW t \in Task,
         task_state[t] \notin PendStates \cup SleepStates,
         NEW ticks \in Ticks \ {0}, tick_list_insert(t, ticks),
         NEW st2, st2[t] \in PendStates \cup SleepStates,
         \A u \in AllTask : u # t => st2[u] = task_state[u]
  PROVE  /\ tick_list' \in Seq(Task)
         /\ tick_remain' \in [AllTask -> Ticks]
         /\ Timed(tick_list', tick_remain', st2)
         /\ \A u \in ToSet(tick_list') :
              tick_remain'[u] = ticks \/ (u \in ToSet(tick_list) /\ tick_remain'[u] = tick_remain[u])
<1>1. ToSet(tick_list) \subseteq Task
  BY EntrySet
<1>2. t \in AllTask /\ Task \subseteq AllTask
  BY DEF AllTask
<1>3. t \notin ToSet(tick_list) /\ Linear(tick_list) /\ Sorted(tick_list, tick_remain)
  BY DEF Timed
<1>4. ticks > 0
  BY NumberAssumption DEF Ticks
<1>5. /\ tick_remain' = [tick_remain EXCEPT ![t] = ticks]
      /\ tick_list' = SortedInsert(tick_list, t, tick_remain')
  BY <1>4 DEF tick_list_insert
<1>6. tick_remain' \in [AllTask -> Ticks]
  BY <1>5
<1>7. \A u \in Task : tick_remain'[u] \in Int
  BY <1>2, <1>6, NumberAssumption DEF Ticks
<1>8. \A u \in ToSet(tick_list) : tick_remain'[u] = tick_remain[u]
  BY <1>1, <1>2, <1>3, <1>5
<1>9. Sorted(tick_list, tick_remain')
  BY <1>3, <1>8, SortedSame
<1>10. /\ tick_list' \in Seq(Task)
       /\ ToSet(tick_list') = ToSet(tick_list) \cup {t}
       /\ Linear(tick_list')
       /\ Sorted(tick_list', tick_remain')
  <2>1. PICK key : key = tick_remain'
    OBVIOUS
  <2>2. \A u \in Task : key[u] \in Int
    BY <1>7, <2>1
  <2>3. Sorted(tick_list, key)
    BY <1>9, <2>1
  <2>4. LET n == SortedInsert(tick_list, t, key) IN
          n \in Seq(Task) /\ ToSet(n) = ToSet(tick_list) \cup {t} /\ Linear(n) /\ Sorted(n, key)
    BY <1>3, <2>2, <2>3, SortedInsertProperties
  <2> QED BY <1>5, <2>1, <2>4
<1>11. Timed(tick_list', tick_remain', st2)
  BY <1>1, <1>2, <1>10 DEF Timed
<1>12. tick_remain'[t] = ticks
  BY <1>2, <1>5
<1> QED BY <1>6, <1>8, <1>10, <1>11, <1>12

(* The tick interrupt takes a tick from every task on the tick list. *)
LEMMA TickDown ==
  ASSUME tick_list \in Seq(Task), tick_remain \in [AllTask -> Ticks],
         Timed(tick_list, tick_remain, task_state),
         \A t \in ToSet(tick_list) : tick_remain[t] > 0,
         tick_remain' = [t \in AllTask |-> IF Contains(tick_list, t)
                                           THEN tick_remain[t] - 1 ELSE tick_remain[t]]
  PROVE  /\ tick_remain' \in [AllTask -> Ticks]
         /\ Timed(tick_list, tick_remain', task_state)
<1>1. \A t : Contains(tick_list, t) <=> t \in ToSet(tick_list)
  BY EntrySet
<1>2. ToSet(tick_list) \subseteq AllTask
  BY EntrySet DEF AllTask
<1>3. \A t \in AllTask : tick_remain[t] \in Int /\ 0 <= tick_remain[t] /\ tick_remain[t] <= WaitForever
  BY NumberAssumption DEF Ticks
<1>4. \A t \in AllTask : tick_remain'[t] = IF t \in ToSet(tick_list)
                                           THEN tick_remain[t] - 1 ELSE tick_remain[t]
  BY <1>1
<1>5. ASSUME NEW t \in AllTask PROVE tick_remain'[t] \in Ticks
  <2>1. CASE t \in ToSet(tick_list)
    <3>1. tick_remain'[t] \in Int /\ 0 <= tick_remain'[t] /\ tick_remain'[t] <= WaitForever
      BY <1>3, <1>4, <2>1, NumberAssumption
    <3> QED BY <3>1, NumberAssumption DEF Ticks
  <2>2. CASE t \notin ToSet(tick_list)
    BY <1>4, <2>2
  <2> QED BY <2>1, <2>2
<1>6. tick_remain' \in [AllTask -> Ticks]
  BY <1>5
<1>7. Sorted(tick_list, tick_remain')
  <2>1. \A i \in 1 .. Len(tick_list) : tick_list[i] \in ToSet(tick_list)
    BY LenProperties DEF ToSet
  <2>2. ASSUME NEW i \in 1 .. Len(tick_list), NEW j \in 1 .. Len(tick_list), i <= j
        PROVE  tick_remain'[tick_list[i]] <= tick_remain'[tick_list[j]]
    <3>1. tick_remain[tick_list[i]] <= tick_remain[tick_list[j]]
      BY <2>2 DEF Timed, Sorted
    <3>2. tick_list[i] \in ToSet(tick_list) /\ tick_list[j] \in ToSet(tick_list)
      BY <2>1
    <3> QED BY <3>1, <3>2, <1>2, <1>3, <1>4
  <2> QED BY <2>2 DEF Sorted
<1> QED BY <1>6, <1>7 DEF Timed

------------------------------------------------------------------------------
(* The kernel's lists together, and the steps in which a task leaves or joins
   one of them. *)

Lists ==
  /\ rq \in RqType
  /\ tick_list \in Seq(Task)
  /\ tick_remain \in [AllTask -> Ticks]
  /\ task_state \in [AllTask -> TaskStates]
  /\ prio \in [AllTask -> Prio]
  /\ blk_obj \in [AllTask -> Obj \cup {None}]
  /\ blk_list \in [Obj -> Seq(Task)]
  /\ Queued(rq, task_state, prio)
  /\ Waiting(blk_list, task_state, blk_obj, prio)
  /\ Timed(tick_list, tick_remain, task_state)

(* The end of a wait, by a wake-up, a timeout, an abort or a deletion. *)
LEMMA LeaveWait ==
  ASSUME Lists, NEW t \in Task, task_state[t] \in PendStates,
         NEW x \in {"K_RDY", "K_SUSPENDED", "K_DELETED"},
         blk_list' = [blk_list EXCEPT ![blk_obj[t]] = klist_rm(@, t)],
         tick_list_rm(t), task_state' = [task_state EXCEPT ![t] = x],
         rq' = IF x = "K_RDY" THEN ready_list_add(rq, t) ELSE rq,
         prio' = prio, blk_obj' \in {blk_obj, [blk_obj EXCEPT ![t] = None]}
  PROVE  /\ Lists'
         /\ \A o \in Obj : /\ ToSet(blk_list'[o]) \subseteq ToSet(blk_list[o])
                           /\ blk_list[o] = <<>> => blk_list'[o] = <<>>
         /\ \A u \in ToSet(tick_list') : /\ u \in ToSet(tick_list)
                                         /\ tick_remain'[u] = tick_remain[u]
<1>0. /\ rq \in RqType /\ task_state \in [AllTask -> TaskStates]
      /\ prio \in [AllTask -> Prio] /\ Queued(rq, task_state, prio)
      /\ blk_list \in [Obj -> Seq(Task)] /\ blk_obj \in [AllTask -> Obj \cup {None}]
      /\ Waiting(blk_list, task_state, blk_obj, prio)
  BY DEF Lists
<1>1. t \in AllTask /\ Task \subseteq AllTask
  BY DEF AllTask
<1>2. x \in TaskStates \ PendStates /\ x \notin SleepStates
  BY DEF TaskStates, PendStates, SleepStates, SuspendStates
<1>3. task_state[t] # "K_RDY"
  BY DEF PendStates
<1>4. task_state' \in [AllTask -> TaskStates] /\ prio' \in [AllTask -> Prio]
      /\ blk_obj' \in [AllTask -> Obj \cup {None}]
  BY <1>2 DEF Lists
<1>9. \A u \in AllTask : u # t => task_state'[u] = task_state[u]
  BY DEF Lists
<1>5. rq' \in RqType /\ Queued(rq', task_state', prio)
  <2>1. CASE x = "K_RDY"
    <3>1. rq' = ready_list_add_tail(rq, t, prio[t]) \/ rq' = ready_list_add_head(rq, t, prio[t])
      BY <2>1 DEF ready_list_add
    <3>2. task_state'[t] = "K_RDY"
      BY <1>1, <2>1 DEF Lists
    <3> QED BY ONLY <1>0, <1>1, <1>3, <1>9, <3>1, <3>2, QueueAdd
  <2>2. CASE x # "K_RDY"
    <3>1. \A u \in AllTask : task_state'[u] = "K_RDY" <=> task_state[u] = "K_RDY"
      BY <1>1, <1>3, <2>2 DEF Lists
    <3>2. Queued(rq, task_state', prio)
      BY <3>1, QueueSame DEF Lists
    <3> QED BY <2>2, <3>2 DEF Lists
  <2> QED BY <2>1, <2>2
<1>6. /\ blk_list' \in [Obj -> Seq(Task)]
      /\ Waiting(blk_list', task_state', blk_obj', prio)
      /\ \A o \in Obj : /\ ToSet(blk_list'[o]) \subseteq ToSet(blk_list[o])
                        /\ blk_list[o] = <<>> => blk_list'[o] = <<>>
  <2>1. \A u \in AllTask : u # t => blk_obj'[u] = blk_obj[u]
    BY DEF Lists
  <2>2. task_state'[t] \notin PendStates
    BY <1>1, <1>2 DEF Lists
  <2>3. task_state[t] \in PendStates
    OBVIOUS
  <2>4. /\ blk_obj[t] \in Obj /\ klist_rm(blk_list[blk_obj[t]], t) \in Seq(Task)
        /\ t \in ToSet(blk_list[blk_obj[t]]) /\ Linear(blk_list[blk_obj[t]])
    BY ONLY <1>0, <2>3, PendEntry
  <2>5. /\ blk_list' \in [Obj -> Seq(Task)]
        /\ blk_list'[blk_obj[t]] = klist_rm(blk_list[blk_obj[t]], t)
        /\ \A o \in Obj : o # blk_obj[t] => blk_list'[o] = blk_list[o]
    BY <1>0, <2>4
  <2>6. \A u \in AllTask : u # t => task_state'[u] = task_state[u] /\ blk_obj'[u] = blk_obj[u]
    BY ONLY <1>9, <2>1
  <2>9. WaitEnds(t, blk_list, task_state, blk_obj, blk_list', task_state', blk_obj')
    BY ONLY <2>2, <2>3, <2>5, <2>6 DEF WaitEnds
  <2>7. Waiting(blk_list', task_state', blk_obj', prio)
    BY ONLY <1>0, <2>5, <2>9, WaitRm
  <2>8. \A o \in Obj : /\ ToSet(blk_list'[o]) \subseteq ToSet(blk_list[o])
                       /\ blk_list[o] = <<>> => blk_list'[o] = <<>>
    BY ONLY <1>0, <2>4, <2>5, WaitFewer
  <2> QED BY ONLY <2>5, <2>7, <2>8
<1>7. /\ tick_list' \in Seq(Task)
      /\ tick_remain' \in [AllTask -> Ticks]
      /\ Timed(tick_list', tick_remain', task_state')
      /\ \A u \in ToSet(tick_list') : /\ u \in ToSet(tick_list)
                                      /\ tick_remain'[u] = tick_remain[u]
  <2>1. task_state'[t] \notin SleepStates /\ \A u \in AllTask : u # t => task_state'[u] = task_state[u]
    BY <1>1, <1>2 DEF Lists
  <2> QED BY <2>1, TickRm DEF Lists
<1> QED BY <1>4, <1>5, <1>6, <1>7 DEF Lists

(* The end of a sleep. *)
LEMMA LeaveSleep ==
  ASSUME Lists, NEW t \in Task, task_state[t] \in SleepStates,
         NEW x \in {"K_RDY", "K_SUSPENDED", "K_DELETED"},
         tick_list_rm(t), task_state' = [task_state EXCEPT ![t] = x],
         rq' = IF x = "K_RDY" THEN ready_list_add(rq, t) ELSE rq,
         UNCHANGED <<prio, blk_obj, blk_list>>
  PROVE  /\ Lists'
         /\ \A u \in ToSet(tick_list') : /\ u \in ToSet(tick_list)
                                         /\ tick_remain'[u] = tick_remain[u]
<1>0. /\ rq \in RqType /\ task_state \in [AllTask -> TaskStates]
      /\ prio \in [AllTask -> Prio] /\ Queued(rq, task_state, prio)
      /\ blk_list \in [Obj -> Seq(Task)] /\ blk_obj \in [AllTask -> Obj \cup {None}]
      /\ Waiting(blk_list, task_state, blk_obj, prio)
  BY DEF Lists
<1>1. t \in AllTask /\ Task \subseteq AllTask
  BY DEF AllTask
<1>2. x \in TaskStates \ PendStates /\ x \notin SleepStates
  BY DEF TaskStates, PendStates, SleepStates, SuspendStates
<1>3. task_state[t] # "K_RDY" /\ task_state[t] \notin PendStates
  BY DEF PendStates, SleepStates
<1>4. task_state' \in [AllTask -> TaskStates]
  BY <1>2 DEF Lists
<1>9. \A u \in AllTask : u # t => task_state'[u] = task_state[u]
  BY DEF Lists
<1>5. rq' \in RqType /\ Queued(rq', task_state', prio)
  <2>1. CASE x = "K_RDY"
    <3>1. rq' = ready_list_add_tail(rq, t, prio[t]) \/ rq' = ready_list_add_head(rq, t, prio[t])
      BY <2>1 DEF ready_list_add
    <3>2. task_state'[t] = "K_RDY"
      BY <1>1, <2>1 DEF Lists
    <3> QED BY ONLY <1>0, <1>1, <1>3, <1>9, <3>1, <3>2, QueueAdd
  <2>2. CASE x # "K_RDY"
    <3>1. \A u \in AllTask : task_state'[u] = "K_RDY" <=> task_state[u] = "K_RDY"
      BY <1>1, <1>3, <2>2 DEF Lists
    <3>2. Queued(rq, task_state', prio)
      BY <3>1, QueueSame DEF Lists
    <3> QED BY <2>2, <3>2 DEF Lists
  <2> QED BY <2>1, <2>2
<1>6. Waiting(blk_list, task_state', blk_obj, prio)
  <2>1. \A u \in AllTask : task_state'[u] \in PendStates <=> task_state[u] \in PendStates
    BY <1>1, <1>2, <1>3 DEF Lists
  <2> QED BY <2>1, WaitSame DEF Lists
<1>7. /\ tick_list' \in Seq(Task)
      /\ tick_remain' \in [AllTask -> Ticks]
      /\ Timed(tick_list', tick_remain', task_state')
      /\ \A u \in ToSet(tick_list') : /\ u \in ToSet(tick_list)
                                      /\ tick_remain'[u] = tick_remain[u]
  <2>1. task_state'[t] \notin SleepStates /\ \A u \in AllTask : u # t => task_state'[u] = task_state[u]
    BY <1>1, <1>2 DEF Lists
  <2> QED BY <2>1, TickRm DEF Lists
<1> QED BY <1>4, <1>5, <1>6, <1>7 DEF Lists

(* A suspended task that becomes ready. *)
LEMMA BecomeReady ==
  ASSUME Lists, NEW t \in Task, task_state[t] = "K_SUSPENDED",
         task_state' = [task_state EXCEPT ![t] = "K_RDY"],
         rq' = ready_list_add(rq, t), UNCHANGED <<prio, blk_obj, blk_list, tick_list, tick_remain>>
  PROVE  Lists'
<1>0. /\ rq \in RqType /\ task_state \in [AllTask -> TaskStates]
      /\ prio \in [AllTask -> Prio] /\ Queued(rq, task_state, prio)
      /\ blk_list \in [Obj -> Seq(Task)] /\ blk_obj \in [AllTask -> Obj \cup {None}]
      /\ Waiting(blk_list, task_state, blk_obj, prio)
  BY DEF Lists
<1>1. t \in AllTask /\ Task \subseteq AllTask
  BY DEF AllTask
<1>2. task_state' \in [AllTask -> TaskStates]
  BY DEF Lists, TaskStates
<1>3. rq' \in RqType /\ Queued(rq', task_state', prio)
  <2>1. rq' = ready_list_add_tail(rq, t, prio[t]) \/ rq' = ready_list_add_head(rq, t, prio[t])
    BY DEF ready_list_add
  <2>2. task_state'[t] = "K_RDY" /\ \A u \in AllTask : u # t => task_state'[u] = task_state[u]
    BY <1>1 DEF Lists
  <2>3. task_state[t] # "K_RDY"
    OBVIOUS
  <2> QED BY ONLY <1>0, <1>1, <2>1, <2>2, <2>3, QueueAdd
<1>4. Waiting(blk_list, task_state', blk_obj, prio)
  <2>1. \A u \in AllTask : task_state'[u] \in PendStates <=> task_state[u] \in PendStates
    BY <1>1 DEF Lists, PendStates
  <2> QED BY <2>1, WaitSame DEF Lists
<1>5. Timed(tick_list, tick_remain, task_state')
  <2>1. \A u \in AllTask : task_state'[u] # task_state[u] =>
          task_state[u] = "K_SUSPENDED" /\ task_state'[u] = "K_RDY"
    BY <1>1 DEF Lists
  <2>2. {"K_RDY", "K_SUSPENDED"} \cap (PendStates \cup SleepStates) = {}
    BY DEF PendStates, SleepStates
  <2> QED BY <2>1, <2>2, TimedSame DEF Lists
<1> QED BY <1>2, <1>3, <1>4, <1>5 DEF Lists

(* A ready task that is suspended or deleted. *)
LEMMA LeaveReady ==
  ASSUME Lists, NEW t \in Task, task_state[t] = "K_RDY",
         NEW x \in {"K_SUSPENDED", "K_DELETED"},
         task_state' = [task_state EXCEPT ![t] = x],
         rq' = ready_list_rm(rq, t), UNCHANGED <<prio, blk_obj, blk_list, tick_list, tick_remain>>
  PROVE  Lists'
<1>0. /\ rq \in RqType /\ task_state \in [AllTask -> TaskStates]
      /\ prio \in [AllTask -> Prio] /\ Queued(rq, task_state, prio)
      /\ blk_list \in [Obj -> Seq(Task)] /\ blk_obj \in [AllTask -> Obj \cup {None}]
      /\ Waiting(blk_list, task_state, blk_obj, prio)
  BY DEF Lists
<1>1. t \in AllTask /\ Task \subseteq AllTask
  BY DEF AllTask
<1>2. x \in TaskStates \ {"K_RDY"}
  BY DEF TaskStates, SuspendStates
<1>3. task_state' \in [AllTask -> TaskStates]
  BY <1>2 DEF Lists
<1>4. rq' \in RqType /\ Queued(rq', task_state', prio)
  <2>1. task_state'[t] # "K_RDY" /\ \A u \in AllTask : u # t => task_state'[u] = task_state[u]
    BY <1>1, <1>2 DEF Lists
  <2>2. task_state[t] = "K_RDY" /\ rq' = ready_list_rm(rq, t)
    OBVIOUS
  <2> QED BY ONLY <1>0, <2>1, <2>2, QueueRm
<1>5. {"K_RDY", "K_SUSPENDED", "K_DELETED"} \cap (PendStates \cup SleepStates) = {}
  BY DEF PendStates, SleepStates
<1>6. \A u \in AllTask : task_state'[u] # task_state[u] =>
        task_state[u] = "K_RDY" /\ task_state'[u] = x
  BY <1>1 DEF Lists
<1>7. Waiting(blk_list, task_state', blk_obj, prio)
  <2>1. \A u \in AllTask : task_state'[u] \in PendStates <=> task_state[u] \in PendStates
    BY <1>5, <1>6
  <2> QED BY <2>1, WaitSame DEF Lists
<1>8. Timed(tick_list, tick_remain, task_state')
  BY <1>5, <1>6, TimedSame DEF Lists
<1> QED BY <1>3, <1>4, <1>7, <1>8 DEF Lists

(* A suspension or resumption that leaves the task on the lists it is on. *)
LEMMA KeepLists ==
  ASSUME Lists, task_state' \in [AllTask -> TaskStates],
         UNCHANGED <<rq, prio, blk_obj, blk_list, tick_list, tick_remain>>,
         \A t \in AllTask :
            \/ task_state'[t] = task_state[t]
            \/ task_state[t] \in PendStates /\ task_state'[t] \in PendStates
            \/ task_state[t] \in SleepStates /\ task_state'[t] \in SleepStates
            \/ {task_state[t], task_state'[t]} \subseteq {"K_SUSPENDED", "K_DELETED"}
  PROVE  Lists'
<1>1. /\ "K_RDY" \notin PendStates \cup SleepStates \cup {"K_SUSPENDED", "K_DELETED"}
      /\ PendStates \cap SleepStates = {}
      /\ {"K_SUSPENDED", "K_DELETED"} \cap (PendStates \cup SleepStates) = {}
  BY DEF PendStates, SleepStates
<1>2. \A t \in AllTask : /\ task_state'[t] = "K_RDY" <=> task_state[t] = "K_RDY"
                         /\ task_state'[t] \in PendStates <=> task_state[t] \in PendStates
                         /\ task_state'[t] \in SleepStates <=> task_state[t] \in SleepStates
  BY <1>1
<1>3. Queued(rq, task_state', prio)
  BY <1>2, QueueSame DEF Lists
<1>4. Waiting(blk_list, task_state', blk_obj, prio)
  BY <1>2, WaitSame DEF Lists
<1>5. Timed(tick_list, tick_remain, task_state')
  BY <1>2, TimedSame DEF Lists
<1> QED BY <1>3, <1>4, <1>5 DEF Lists

(* A ready task goes to sleep. *)
LEMMA JoinSleep ==
  ASSUME Lists, NEW t \in Task, task_state[t] = "K_RDY", NEW ticks \in Ticks \ {0},
         task_state' = [task_state EXCEPT ![t] = "K_SLEEP"], tick_list_insert(t, ticks),
         rq' = ready_list_rm(rq, t), UNCHANGED <<prio, blk_obj, blk_list>>
  PROVE  /\ Lists'
         /\ \A u \in ToSet(tick_list') :
              tick_remain'[u] = ticks \/ (u \in ToSet(tick_list) /\ tick_remain'[u] = tick_remain[u])
<1>1. /\ rq \in RqType /\ task_state \in [AllTask -> TaskStates]
      /\ prio \in [AllTask -> Prio] /\ Queued(rq, task_state, prio)
      /\ tick_list \in Seq(Task) /\ tick_remain \in [AllTask -> Ticks]
      /\ Timed(tick_list, tick_remain, task_state)
      /\ task_state[t] = "K_RDY" /\ rq' = ready_list_rm(rq, t)
  BY DEF Lists
<1>2. t \in AllTask /\ Task \subseteq AllTask
  BY DEF AllTask
<1>3. task_state' \in [AllTask -> TaskStates]
  BY <1>1 DEF TaskStates, SleepStates
<1>4. task_state'[t] = "K_SLEEP" /\ \A u \in AllTask : u # t => task_state'[u] = task_state[u]
  BY <1>1, <1>2
<1>5. /\ task_state'[t] # "K_RDY" /\ task_state'[t] \in PendStates \cup SleepStates
      /\ task_state'[t] \notin PendStates
      /\ task_state[t] \notin PendStates \cup SleepStates
  BY <1>1, <1>4 DEF PendStates, SleepStates
<1>6. rq' \in RqType /\ Queued(rq', task_state', prio)
  BY ONLY <1>1, <1>4, <1>5, QueueRm
<1>7. Waiting(blk_list, task_state', blk_obj, prio)
  <2>1. \A u \in AllTask : task_state'[u] \in PendStates <=> task_state[u] \in PendStates
    BY <1>4, <1>5
  <2> QED BY <2>1, WaitSame DEF Lists
<1>8. /\ tick_list' \in Seq(Task)
      /\ tick_remain' \in [AllTask -> Ticks]
      /\ Timed(tick_list', tick_remain', task_state')
      /\ \A u \in ToSet(tick_list') :
           tick_remain'[u] = ticks \/ (u \in ToSet(tick_list) /\ tick_remain'[u] = tick_remain[u])
  <2>1. tick_list_insert(t, ticks) /\ \A u \in AllTask : u # t => task_state'[u] = task_state[u]
    BY <1>4
  <2> QED BY ONLY <1>1, <1>5, <2>1, TickInsert
<1> QED BY <1>3, <1>6, <1>7, <1>8 DEF Lists

(* A ready task blocks on an object, for ever or for a number of ticks. *)
LEMMA JoinWait ==
  ASSUME Lists, NEW t \in Task, task_state[t] = "K_RDY", NEW o0 \in Obj,
         NEW ticks \in Ticks \ {0}, pend_to_blk_obj(o0, t, ticks), prio' = prio
  PROVE  /\ Lists'
         /\ \A o \in Obj : ToSet(blk_list'[o]) = IF o = o0 THEN ToSet(blk_list[o]) \cup {t}
                                                 ELSE ToSet(blk_list[o])
         /\ \A u \in ToSet(tick_list') :
              tick_remain'[u] = ticks \/ (u \in ToSet(tick_list) /\ tick_remain'[u] = tick_remain[u])
<1>1. /\ rq \in RqType /\ task_state \in [AllTask -> TaskStates]
      /\ prio \in [AllTask -> Prio] /\ Queued(rq, task_state, prio)
      /\ tick_list \in Seq(Task) /\ tick_remain \in [AllTask -> Ticks]
      /\ blk_obj \in [AllTask -> Obj \cup {None}] /\ blk_list \in [Obj -> Seq(Task)]
      /\ Waiting(blk_list, task_state, blk_obj, prio)
      /\ Timed(tick_list, tick_remain, task_state)
      /\ task_state[t] = "K_RDY"
  BY DEF Lists
<1>2. /\ blk_obj' = [blk_obj EXCEPT ![t] = o0]
      /\ IF ticks # WaitForever THEN tick_list_insert(t, ticks) ELSE UNCHANGED tickVars
      /\ task_state' = [task_state EXCEPT ![t] = "K_PEND"]
      /\ rq' = ready_list_rm(rq, t)
      /\ blk_list' = [blk_list EXCEPT ![o0] = pend_list_add(@, t, prio)]
  BY DEF pend_to_blk_obj
<1>3. t \in AllTask /\ Task \subseteq AllTask
  BY DEF AllTask
<1>4. task_state' \in [AllTask -> TaskStates] /\ blk_obj' \in [AllTask -> Obj \cup {None}]
  BY <1>1, <1>2 DEF TaskStates, PendStates
<1>5. /\ task_state'[t] = "K_PEND" /\ blk_obj'[t] = o0
      /\ \A u \in AllTask : u # t => task_state'[u] = task_state[u] /\ blk_obj'[u] = blk_obj[u]
  BY <1>1, <1>2, <1>3
<1>6. /\ task_state'[t] # "K_RDY" /\ task_state'[t] \in PendStates
      /\ task_state'[t] \notin SleepStates
      /\ task_state[t] \notin PendStates \cup SleepStates
  BY <1>1, <1>5 DEF PendStates, SleepStates
<1>7. \A u \in AllTask : u # t => task_state'[u] = task_state[u]
  BY <1>5
<1>8. rq' \in RqType /\ Queued(rq', task_state', prio)
  BY ONLY <1>1, <1>2, <1>6, <1>7, QueueRm
<1>9. /\ blk_list' \in [Obj -> Seq(Task)]
      /\ Waiting(blk_list', task_state', blk_obj', prio)
      /\ \A o \in Obj : ToSet(blk_list'[o]) = IF o = o0 THEN ToSet(blk_list[o]) \cup {t}
                                              ELSE ToSet(blk_list[o])
  <2>1. /\ pend_list_add(blk_list[o0], t, prio) \in Seq(Task)
        /\ ToSet(pend_list_add(blk_list[o0], t, prio)) = ToSet(blk_list[o0]) \cup {t}
    BY <1>1, PendListType
  <2>2. /\ blk_list' \in [Obj -> Seq(Task)]
        /\ blk_list'[o0] = pend_list_add(blk_list[o0], t, prio)
        /\ \A o \in Obj : o # o0 => blk_list'[o] = blk_list[o]
    BY <1>1, <1>2, <2>1
  <2>3. WaitBegins(t, o0, prio, blk_list, task_state, blk_obj, blk_list', task_state', blk_obj')
    BY ONLY <1>5, <1>6, <2>2 DEF WaitBegins
  <2>4. Waiting(blk_list', task_state', blk_obj', prio)
    BY ONLY <1>1, <2>2, <2>3, WaitAdd
  <2> QED BY ONLY <2>1, <2>2, <2>4
<1>10. /\ tick_list' \in Seq(Task)
       /\ tick_remain' \in [AllTask -> Ticks]
       /\ Timed(tick_list', tick_remain', task_state')
       /\ \A u \in ToSet(tick_list') :
            tick_remain'[u] = ticks \/ (u \in ToSet(tick_list) /\ tick_remain'[u] = tick_remain[u])
  <2>1. CASE ticks # WaitForever
    <3>1. tick_list_insert(t, ticks)
      BY <1>2, <2>1
    <3> QED BY <1>1, <1>6, <1>7, <3>1, TickInsert
  <2>2. CASE ticks = WaitForever
    <3>1. tick_list' = tick_list /\ tick_remain' = tick_remain
      BY <1>2, <2>2 DEF tickVars
    <3>2. ToSet(tick_list) \subseteq AllTask
      BY <1>1, <1>3, EntrySet
    <3>3. Timed(tick_list, tick_remain, task_state')
      BY <1>1, <1>6, <1>7, <3>2 DEF Timed
    <3> QED BY <1>1, <3>1, <3>3
  <2> QED BY <2>1, <2>2
<1> QED BY <1>4, <1>8, <1>9, <1>10 DEF Lists

(* The priority of a task that is neither ready nor waiting is nobody's
   business. *)
LEMMA ReprioUnqueued ==
  ASSUME Lists, NEW t \in Task, task_state[t] \notin PendStates \cup {"K_RDY"}, NEW p \in Prio,
         prio' = [prio EXCEPT ![t] = p],
         UNCHANGED <<rq, task_state, blk_obj, blk_list, tick_list, tick_remain>>
  PROVE  Lists'
<1>1. t \in AllTask
  BY DEF AllTask
<1>2. prio' \in [AllTask -> Prio] /\ \A u \in AllTask : u # t => prio'[u] = prio[u]
  BY DEF Lists
<1>3. Queued(rq, task_state, prio')
  BY <1>1, <1>2, QueueSame DEF Lists
<1>4. Waiting(blk_list, task_state, blk_obj, prio')
  BY <1>1, <1>2, WaitSame DEF Lists
<1> QED BY <1>2, <1>3, <1>4 DEF Lists

(* A ready task changes lists with its priority. *)
LEMMA ReprioReady ==
  ASSUME Lists, NEW t \in Task, task_state[t] = "K_RDY", NEW p \in Prio,
         prio' = [prio EXCEPT ![t] = p],
         \/ rq' = ready_list_add_tail(ready_list_rm(rq, t), t, p)
         \/ rq' = ready_list_add_head(ready_list_rm(rq, t), t, p),
         UNCHANGED <<task_state, blk_obj, blk_list, tick_list, tick_remain>>
  PROVE  Lists'
<1> DEFINE st2 == [task_state EXCEPT ![t] = "K_SUSPENDED"]
           q2  == ready_list_rm(rq, t)
<1>1. /\ rq \in RqType /\ task_state \in [AllTask -> TaskStates]
      /\ prio \in [AllTask -> Prio] /\ Queued(rq, task_state, prio)
      /\ task_state[t] = "K_RDY"
  BY DEF Lists
<1>2. t \in AllTask
  BY DEF AllTask
<1>3. /\ st2 \in [AllTask -> TaskStates] /\ st2[t] = "K_SUSPENDED"
      /\ \A u \in AllTask : u # t => st2[u] = task_state[u]
  BY <1>1, <1>2 DEF TaskStates, SuspendStates
<1>4. prio' \in [AllTask -> Prio] /\ prio'[t] = p /\ \A u \in AllTask : u # t => prio'[u] = prio[u]
  BY <1>1, <1>2
<1>5. rq' = ready_list_add_tail(q2, t, prio'[t]) \/ rq' = ready_list_add_head(q2, t, prio'[t])
  BY <1>4
<1> HIDE DEF st2
<1>6. st2[t] # "K_RDY"
  BY <1>3
<1>7. q2 \in RqType /\ Queued(q2, st2, prio)
  BY ONLY <1>1, <1>3, <1>6, QueueRm
<1> HIDE DEF q2
<1>8. Queued(q2, st2, prio')
  BY ONLY <1>4, <1>6, <1>7, QueueSame
<1>9. \A u \in AllTask : u # t => task_state[u] = st2[u]
  BY ONLY <1>3
<1>10. rq' \in RqType /\ Queued(rq', task_state, prio')
  BY ONLY <1>1, <1>2, <1>3, <1>4, <1>5, <1>6, <1>7, <1>8, <1>9, QueueAdd
<1>11. Waiting(blk_list, task_state, blk_obj, prio')
  <2>1. task_state[t] \notin PendStates
    BY <1>1 DEF PendStates
  <2> QED BY <1>2, <1>4, <2>1, WaitSame DEF Lists
<1> QED BY <1>4, <1>10, <1>11 DEF Lists

(* A waiter changes places with its priority. *)
LEMMA ReprioPend ==
  ASSUME Lists, NEW t \in Task, task_state[t] \in PendStates, NEW p \in Prio,
         prio' = [prio EXCEPT ![t] = p],
         blk_list' = [blk_list EXCEPT ![blk_obj[t]] = pend_list_add(klist_rm(@, t), t, prio')],
         UNCHANGED <<rq, task_state, blk_obj, tick_list, tick_remain>>
  PROVE  Lists' /\ \A o \in Obj : ToSet(blk_list'[o]) = ToSet(blk_list[o])
<1> DEFINE o0  == blk_obj[t]
           n   == klist_rm(blk_list[o0], t)
           st2 == [task_state EXCEPT ![t] = "K_RDY"]
           bl2 == [blk_list EXCEPT ![o0] = n]
<1>1. /\ task_state \in [AllTask -> TaskStates] /\ blk_list \in [Obj -> Seq(Task)]
      /\ prio \in [AllTask -> Prio] /\ Waiting(blk_list, task_state, blk_obj, prio)
      /\ task_state[t] \in PendStates /\ blk_obj \in [AllTask -> Obj \cup {None}]
  BY DEF Lists
<1>2. t \in AllTask
  BY DEF AllTask
<1>3. o0 \in Obj /\ t \in ToSet(blk_list[o0]) /\ Linear(blk_list[o0]) /\ n \in Seq(Task)
  BY ONLY <1>1, PendEntry
<1>4. /\ st2[t] = "K_RDY" /\ st2[t] \notin PendStates
      /\ \A u \in AllTask : u # t => st2[u] = task_state[u]
  BY <1>1, <1>2 DEF PendStates
<1>5. prio' \in [AllTask -> Prio] /\ \A u \in AllTask : u # t => prio'[u] = prio[u]
  BY <1>1, <1>2
<1>6. /\ bl2 \in [Obj -> Seq(Task)] /\ bl2[o0] = n
      /\ \A o \in Obj : o # o0 => bl2[o] = blk_list[o]
  BY <1>1, <1>3
<1>7. blk_list' = [blk_list EXCEPT ![o0] = pend_list_add(n, t, prio')]
  OBVIOUS
<1> HIDE DEF st2, bl2
<1>8. WaitEnds(t, blk_list, task_state, blk_obj, bl2, st2, blk_obj)
  BY ONLY <1>1, <1>4, <1>6 DEF WaitEnds
<1>9. Waiting(bl2, st2, blk_obj, prio)
  BY ONLY <1>1, <1>6, <1>8, WaitRm
<1>10. Waiting(bl2, st2, blk_obj, prio')
  <2>1. \A u \in AllTask : st2[u] \in PendStates => prio'[u] = prio[u]
    BY ONLY <1>4, <1>5
  <2> QED BY ONLY <1>6, <1>9, <2>1, WaitSame
<1>11. /\ pend_list_add(n, t, prio') \in Seq(Task)
       /\ ToSet(pend_list_add(n, t, prio')) = ToSet(n) \cup {t}
  BY ONLY <1>3, <1>5, PendListType
<1>12. /\ blk_list' \in [Obj -> Seq(Task)]
       /\ blk_list'[o0] = pend_list_add(n, t, prio')
       /\ \A o \in Obj : o # o0 => blk_list'[o] = blk_list[o]
  BY ONLY <1>1, <1>3, <1>7, <1>11
<1>13. WaitBegins(t, o0, prio', bl2, st2, blk_obj, blk_list', task_state, blk_obj)
  BY ONLY <1>1, <1>4, <1>6, <1>12 DEF WaitBegins
<1>14. Waiting(blk_list', task_state, blk_obj, prio')
  BY ONLY <1>3, <1>5, <1>6, <1>10, <1>12, <1>13, WaitAdd
<1>15. ToSet(n) = ToSet(blk_list[o0]) \ {t}
  BY ONLY <1>1, <1>3, KlistRm
<1>16. \A o \in Obj : ToSet(blk_list'[o]) = ToSet(blk_list[o])
  BY ONLY <1>3, <1>11, <1>12, <1>15
<1>17. Queued(rq, task_state, prio')
  <2>1. task_state[t] # "K_RDY"
    BY DEF PendStates
  <2> QED BY <1>5, <2>1, QueueSame DEF Lists
<1> QED BY <1>5, <1>12, <1>14, <1>16, <1>17 DEF Lists

------------------------------------------------------------------------------
(* The scheduler, the interrupts, the tick and the semaphores.             *)

USE DEF schedVars, tickVars, pendVars, sliceVars, callVars, objVars

(* The records of a critical section that is over, ends, or ticks. *)
LEMMA Records ==
  /\ NoChg \in ChgType /\ NoChg.task = None
  /\ CsNone \in CsType /\ CsNone.op = "none"
  /\ CsExit \in CsType /\ CsExit.op = "exit"
  /\ CsTick \in CsType /\ CsTick.op = "tick"
<1>1. 0 \in Prio /\ 0 \in Ticks
  BY NumberAssumption DEF Prio, Ticks
<1>2. NoChg \in ChgType /\ NoChg.task = None
  BY <1>1 DEF NoChg, ChgType
<1>3. CsNone \in CsType /\ CsNone.op = "none"
  BY <1>1 DEF CsNone, CsType, CsOps
<1>4. CsExit \in CsType /\ CsExit.op = "exit"
  BY <1>3 DEF CsExit, CsType, CsOps
<1>5. CsTick \in CsType /\ CsTick.op = "tick"
  BY <1>3 DEF CsTick, CsType, CsOps
<1> QED BY <1>2, <1>3, <1>4, <1>5

(* The bounds are numbers. *)
LEMMA Bounds ==
  /\ SchedLockMax \in Nat \ {0} /\ IntrptMax \in Nat \ {0} /\ SuspendMax \in Nat \ {0}
  /\ NestMax \in Nat \ {0} /\ SemMax \in Nat \ {0}
  /\ Prio \subseteq Nat /\ Ticks \subseteq Nat
BY NumberAssumption DEF Prio, Ticks

(* The list part of the invariant. *)
LEMMA InvLists ==
  ASSUME KernelInv PROVE Lists
BY DEF KernelInv, TypeOK, Lists, RqType

(* The first task of the highest priority is ready. *)
LEMMA PreferredReady ==
  ASSUME Lists
  PROVE  /\ preferred_cpu_ready_task_get(rq) \in AllTask
         /\ task_state[preferred_cpu_ready_task_get(rq)] = "K_RDY"
<1> DEFINE s == rq.list[rq.highest_pri]
<1>1. s \in Seq(AllTask) /\ s # <<>> /\ rq.highest_pri \in Prio
  BY DEF Lists, RqType, Queued
<1>2. Head(s) \in AllTask /\ Head(s) \in ToSet(s)
  BY <1>1, FirstEntry
<1>3. ToSet(s) = {t \in AllTask : task_state[t] = "K_RDY" /\ prio[t] = rq.highest_pri}
  BY <1>1 DEF Lists, Queued
<1> QED BY <1>2, <1>3 DEF preferred_cpu_ready_task_get

(* Ownership is a matter of the objects: a step that leaves them alone, and
   only takes waiters off the lists, keeps it. *)
LEMMA OwnerKeep ==
  ASSUME KernelInv, UNCHANGED <<live, mutex_task, mutex_list, owner_nested>>,
         blk_list' \in [Obj -> Seq(Task)],
         \A m \in Mutex : ToSet(blk_list'[m]) \subseteq ToSet(blk_list[m]),
         \A t \in Task : task_state'[t] = "K_DELETED" <=> task_state[t] = "K_DELETED",
         cs' = cs \/ cs.op \notin {"handover", "free"}
  PROVE  OwnerInv'
<1>1. Mutex \subseteq Obj
  BY DEF Obj
<1>2. ASSUME NEW m \in Mutex PROVE blk_list'[m] # <<>> => blk_list[m] # <<>>
  <2>1. blk_list[m] \in Seq(Task) /\ blk_list'[m] \in Seq(Task)
    BY <1>1 DEF KernelInv, TypeOK
  <2>2. /\ blk_list[m] = <<>> <=> ToSet(blk_list[m]) = {}
        /\ blk_list'[m] = <<>> <=> ToSet(blk_list'[m]) = {}
    BY <2>1, EntrySet
  <2> QED BY <2>2
<1>3. ASSUME NEW m \in Mutex \cap live
      PROVE  /\ blk_list'[m] # <<>> => mutex_task[m] \in Task
             /\ mutex_task[m] \in Task =>
                  /\ task_state'[mutex_task[m]] # "K_DELETED"
                  /\ mutex_task[m] \notin ToSet(blk_list'[m])
                  /\ \/ /\ m \in ToSet(mutex_list[mutex_task[m]])
                        /\ owner_nested[m] > 0
                     \/ cs'.op = "handover" /\ cs'.obj = m
  BY <1>1, <1>2 DEF KernelInv, OwnerInv
<1>4. ASSUME NEW t \in Task
      PROVE  /\ Linear(mutex_list[t])
             /\ task_state'[t] # "K_DELETED" /\ ~(cs'.op = "free" /\ cs'.task = t) =>
                  \A m \in ToSet(mutex_list[t]) : m \in live /\ mutex_task[m] = t
  BY DEF KernelInv, OwnerInv
<1> QED BY <1>3, <1>4 DEF OwnerInv

(* No deleted object gets a waiter. *)
LEMMA DeadKeep ==
  ASSUME KernelInv, live' = live, cs' = cs \/ cs.op # "wake",
         \A o \in Obj : blk_list[o] = <<>> => blk_list'[o] = <<>>
  PROVE  DeadInv'
BY DEF KernelInv, DeadInv

(* No semaphore with units gets a waiter. *)
LEMMA CountKeep ==
  ASSUME KernelInv, count' = count, \A o \in Obj : blk_list[o] = <<>> => blk_list'[o] = <<>>
  PROVE  NoLostGive'
BY DEF KernelInv, NoLostGive, Obj

(* A step that touches no object, and one that touches no list either. *)
LEMMA SteadyObjects ==
  ASSUME KernelInv, UNCHANGED <<task_state, blk_list, mutex_list, objVars>>,
         cs' = cs \/ cs.op \notin {"handover", "free", "wake"}
  PROVE  OwnerInv' /\ DeadInv' /\ NoLostGive'
<1>1. OwnerInv'
  BY OwnerKeep DEF KernelInv, TypeOK
<1>2. DeadInv'
  BY DeadKeep
<1>3. NoLostGive'
  BY CountKeep
<1> QED BY <1>1, <1>2, <1>3

(* A step that leaves the lists and the objects alone keeps what is said of them. *)
LEMMA Steady ==
  ASSUME KernelInv, UNCHANGED <<rq, tickVars, task_state, blk_obj, blk_list, prio,
                                mutex_list, objVars>>,
         cs' = cs \/ cs.op \notin {"handover", "free", "wake"}
  PROVE  Lists' /\ OwnerInv' /\ DeadInv' /\ NoLostGive'
<1>1. Lists'
  BY InvLists DEF Lists
<1> QED BY <1>1, SteadyObjects

------------------------------------------------------------------------------
(* The scheduler, the interrupts and the tick. *)

(* The scheduler is locked. *)
LEMMA SchedDisableInv ==
  ASSUME KernelInv, krhino_sched_disable
  PROVE  KernelInv'
<1>1. /\ Quiet /\ intrpt = 0 /\ pc[active] = "user"
      /\ sched_lock < SchedLockMax /\ sched_lock' = sched_lock + 1
      /\ UNCHANGED <<active, intrpt, rq, tickVars, pendVars, prio, b_prio,
                     suspend_count, mutex_list, sliceVars, callVars, objVars, chg, cs>>
  BY DEF krhino_sched_disable, TaskCall, InTask
<1>2. Lists' /\ OwnerInv' /\ DeadInv' /\ NoLostGive'
  BY <1>1, Steady
<1>3. TypeOK'
  <2>1. sched_lock \in 0 .. SchedLockMax
    BY DEF KernelInv, TypeOK
  <2>2. sched_lock < SchedLockMax /\ sched_lock' = sched_lock + 1
    BY <1>1
  <2>3. sched_lock' \in 0 .. SchedLockMax
    BY <2>1, <2>2, Bounds
  <2> QED BY <1>1, <2>3 DEF KernelInv, TypeOK
<1>4. NotOverdue'
  BY <1>1 DEF KernelInv, NotOverdue
<1>5. CsInv'
  BY <1>1 DEF KernelInv, CsInv, Quiet
<1>6. ActiveInv'
  BY <1>1 DEF KernelInv, ActiveInv, Quiet
<1>7. CallInv' /\ SliceInRange'
  BY <1>1 DEF KernelInv, CallInv, SliceInRange
<1> QED BY <1>2, <1>3, <1>4, <1>5, <1>6, <1>7 DEF KernelInv, Lists

(* The scheduler is unlocked. *)
LEMMA SchedEnableInv ==
  ASSUME KernelInv, krhino_sched_enable
  PROVE  KernelInv'
<1>1. /\ Quiet /\ intrpt = 0 /\ pc[active] = "user"
      /\ sched_lock > 0 /\ sched_lock' = sched_lock - 1
      /\ pc' = pc \/ pc' = [pc EXCEPT ![active] = "sched"]
      /\ UNCHANGED <<active, intrpt, rq, tickVars, pendVars, prio, b_prio,
                     suspend_count, mutex_list, sliceVars, arg, objVars, chg, cs>>
  BY DEF krhino_sched_enable, TaskCall, InTask, CriticalExitSched
<1>2. Lists' /\ OwnerInv' /\ DeadInv' /\ NoLostGive'
  BY <1>1, Steady
<1>3. TypeOK'
  <2>1. sched_lock \in 0 .. SchedLockMax
    BY DEF KernelInv, TypeOK
  <2>2. sched_lock > 0 /\ sched_lock' = sched_lock - 1
    BY <1>1
  <2>3. sched_lock' \in 0 .. SchedLockMax
    BY <2>1, <2>2, Bounds
  <2> QED BY <1>1, <2>3 DEF KernelInv, TypeOK
<1>4. NotOverdue'
  BY <1>1 DEF KernelInv, NotOverdue
<1>5. CsInv'
  BY <1>1 DEF KernelInv, CsInv, Quiet
<1>6. ActiveInv'
  BY <1>1 DEF KernelInv, ActiveInv, Quiet
<1>7. CallInv' /\ SliceInRange'
  BY <1>1 DEF KernelInv, TypeOK, CallInv, SliceInRange
<1> QED BY <1>2, <1>3, <1>4, <1>5, <1>6, <1>7 DEF KernelInv, Lists

(* core_sched: the first ready task becomes the active one. *)
LEMMA CoreSchedInv ==
  ASSUME KernelInv, core_sched
  PROVE  KernelInv'
<1>1. /\ Quiet /\ intrpt = 0 /\ pc[active] \in {"sched", "sched_pend"}
      /\ active' = IF sched_lock > 0 THEN active ELSE preferred_cpu_ready_task_get(rq)
      /\ pc' = [pc EXCEPT ![active] = IF @ = "sched" THEN "user" ELSE "pend"]
      /\ UNCHANGED <<sched_lock, intrpt, rq, tickVars, pendVars, prio, b_prio,
                     suspend_count, mutex_list, sliceVars, arg, objVars, chg, cs>>
  BY DEF core_sched, InTask
<1>2. Lists' /\ OwnerInv' /\ DeadInv' /\ NoLostGive'
  BY <1>1, Steady
<1>3. active' \in AllTask /\ task_state[active'] = "K_RDY"
  <2>1. CASE sched_lock > 0
    BY <1>1, <2>1 DEF KernelInv, TypeOK, ActiveInv
  <2>2. CASE ~(sched_lock > 0)
    BY <1>1, <2>2, PreferredReady, InvLists
  <2> QED BY <2>1, <2>2
<1>4. TypeOK'
  BY <1>1, <1>3 DEF KernelInv, TypeOK
<1>5. NotOverdue'
  BY <1>1 DEF KernelInv, NotOverdue
<1>6. CsInv'
  BY <1>1 DEF KernelInv, CsInv, Quiet
<1>7. ActiveInv'
  BY <1>1, <1>3 DEF ActiveInv
<1>8. CallInv' /\ SliceInRange'
  BY <1>1 DEF KernelInv, TypeOK, CallInv, SliceInRange
<1> QED BY <1>2, <1>4, <1>5, <1>6, <1>7, <1>8 DEF KernelInv, Lists

(* A blocking call returns. *)
LEMMA PendEndInv ==
  ASSUME KernelInv, pend_state_end_proc
  PROVE  KernelInv'
<1>1. /\ Quiet /\ intrpt = 0 /\ pc[active] = "pend"
      /\ pc' = [pc EXCEPT ![active] = "user"]
      /\ arg' = [arg EXCEPT ![active] = None]
      /\ UNCHANGED <<schedVars, rq, tickVars, pendVars, prio, b_prio,
                     suspend_count, mutex_list, sliceVars, objVars, chg, cs>>
  BY DEF pend_state_end_proc, InTask
<1>2. Lists' /\ OwnerInv' /\ DeadInv' /\ NoLostGive'
  BY <1>1, Steady
<1>3. TypeOK'
  BY <1>1 DEF KernelInv, TypeOK
<1>4. NotOverdue'
  BY <1>1 DEF KernelInv, NotOverdue
<1>5. CsInv'
  BY <1>1 DEF KernelInv, CsInv, Quiet
<1>6. ActiveInv'
  BY <1>1 DEF KernelInv, ActiveInv
<1>7. CallInv' /\ SliceInRange'
  BY <1>1 DEF KernelInv, TypeOK, CallInv, SliceInRange
<1> QED BY <1>2, <1>3, <1>4, <1>5, <1>6, <1>7 DEF KernelInv, Lists

(* An interrupt comes. *)
LEMMA IntrptEnterInv ==
  ASSUME KernelInv, krhino_intrpt_enter
  PROVE  KernelInv'
<1>1. /\ Quiet /\ intrpt < IntrptMax /\ intrpt' = intrpt + 1
      /\ UNCHANGED <<active, sched_lock, rq, tickVars, pendVars, prio, b_prio,
                     suspend_count, mutex_list, sliceVars, callVars, objVars, chg, cs>>
  BY DEF krhino_intrpt_enter
<1>2. Lists' /\ OwnerInv' /\ DeadInv' /\ NoLostGive'
  BY <1>1, Steady
<1>3. intrpt' \in 0 .. IntrptMax /\ intrpt' # 0
  <2>1. intrpt \in 0 .. IntrptMax
    BY DEF KernelInv, TypeOK
  <2> QED BY <1>1, <2>1, Bounds
<1>4. TypeOK'
  BY <1>1, <1>3 DEF KernelInv, TypeOK
<1>5. NotOverdue'
  BY <1>1 DEF KernelInv, NotOverdue
<1>6. CsInv'
  BY <1>1 DEF KernelInv, CsInv, Quiet
<1>7. ActiveInv'
  BY <1>1, <1>3 DEF KernelInv, ActiveInv
<1>8. CallInv' /\ SliceInRange'
  BY <1>1 DEF KernelInv, TypeOK, CallInv, SliceInRange
<1> QED BY <1>2, <1>4, <1>5, <1>6, <1>7, <1>8 DEF KernelInv, Lists

(* An interrupt handler returns. *)
LEMMA IntrptExitInv ==
  ASSUME KernelInv, krhino_intrpt_exit
  PROVE  KernelInv'
<1>1. /\ Quiet /\ intrpt > 0 /\ intrpt' = intrpt - 1
      /\ active' = IF intrpt > 1 \/ sched_lock > 0 THEN active
                   ELSE preferred_cpu_ready_task_get(rq)
      /\ UNCHANGED <<sched_lock, rq, tickVars, pendVars, prio, b_prio,
                     suspend_count, mutex_list, sliceVars, callVars, objVars, chg, cs>>
  BY DEF krhino_intrpt_exit, InIsr
<1>2. Lists' /\ OwnerInv' /\ DeadInv' /\ NoLostGive'
  BY <1>1, Steady
<1>3. intrpt' \in 0 .. IntrptMax
  <2>1. intrpt \in 0 .. IntrptMax
    BY DEF KernelInv, TypeOK
  <2> QED BY <1>1, <2>1, Bounds
<1>4. active' \in AllTask /\ (task_state[active'] = "K_RDY" \/ (active' = active /\ intrpt' # 0))
  <2>1. CASE sched_lock > 0
    BY <1>1, <2>1 DEF KernelInv, TypeOK, ActiveInv
  <2>2. CASE intrpt > 1
    <3>1. intrpt' # 0
      BY <1>1, <2>2, Bounds DEF KernelInv, TypeOK
    <3> QED BY <1>1, <2>2, <3>1 DEF KernelInv, TypeOK
  <2>3. CASE ~(intrpt > 1 \/ sched_lock > 0)
    BY <1>1, <2>3, PreferredReady, InvLists
  <2> QED BY <2>1, <2>2, <2>3
<1>5. TypeOK'
  BY <1>1, <1>3, <1>4 DEF KernelInv, TypeOK
<1>6. NotOverdue'
  BY <1>1 DEF KernelInv, NotOverdue
<1>7. CsInv'
  BY <1>1 DEF KernelInv, CsInv, Quiet
<1>8. ActiveInv'
  BY <1>1, <1>4 DEF KernelInv, ActiveInv
<1>9. CallInv' /\ SliceInRange'
  BY <1>1 DEF KernelInv, TypeOK, CallInv, SliceInRange
<1> QED BY <1>2, <1>5, <1>6, <1>7, <1>8, <1>9 DEF KernelInv, Lists

(* krhino_task_yield: the task goes to the end of its ready list. *)
LEMMA YieldInv ==
  ASSUME KernelInv, krhino_task_yield
  PROVE  KernelInv'
<1>1. /\ Quiet /\ intrpt = 0 /\ pc[active] = "user"
      /\ rq' = ready_list_head_to_tail(rq, prio[active])
      /\ pc' = [pc EXCEPT ![active] = "sched"]
      /\ UNCHANGED <<schedVars, tickVars, pendVars, prio, b_prio, suspend_count,
                     mutex_list, sliceVars, arg, objVars, chg, cs>>
  BY DEF krhino_task_yield, TaskCall, InTask, CriticalExitSched
<1>2. active \in AllTask /\ task_state[active] = "K_RDY" /\ prio[active] \in Prio
  BY <1>1 DEF KernelInv, TypeOK, ActiveInv
<1>3. rq' \in RqType /\ Queued(rq', task_state, prio)
  <2>1. rq \in RqType /\ Queued(rq, task_state, prio)
    BY InvLists DEF Lists
  <2>2. active \in ToSet(rq.list[prio[active]]) /\ rq.list[prio[active]] \in Seq(AllTask)
    BY <1>2, <2>1 DEF Queued, RqType
  <2>3. rq.list[prio[active]] # <<>>
    BY <2>2, EntrySet
  <2> QED BY <1>1, <1>2, <2>1, <2>3, QueueRotate
<1>4. Lists'
  BY <1>1, <1>3, InvLists DEF Lists
<1>5. OwnerInv' /\ DeadInv' /\ NoLostGive'
  BY <1>1, SteadyObjects
<1>6. TypeOK'
  BY <1>1, <1>3 DEF KernelInv, TypeOK, RqType
<1>7. NotOverdue'
  BY <1>1 DEF KernelInv, NotOverdue
<1>8. CsInv'
  BY <1>1 DEF KernelInv, CsInv, Quiet
<1>9. ActiveInv'
  BY <1>1, <1>2 DEF ActiveInv
<1>10. CallInv' /\ SliceInRange'
  BY <1>1 DEF KernelInv, TypeOK, CallInv, SliceInRange
<1> QED BY <1>4, <1>5, <1>6, <1>7, <1>8, <1>9, <1>10 DEF KernelInv, Lists

(* The tick interrupt comes. *)
LEMMA TickIntrptInv ==
  ASSUME KernelInv, TickIntrpt
  PROVE  KernelInv'
<1>1. /\ Quiet /\ intrpt < IntrptMax /\ intrpt' = intrpt + 1 /\ cs' = CsTick
      /\ tick_remain' = [t \in AllTask |-> IF Contains(tick_list, t)
                                           THEN tick_remain[t] - 1 ELSE tick_remain[t]]
      /\ UNCHANGED <<active, sched_lock, rq, tick_list, pendVars, prio, b_prio,
                     suspend_count, mutex_list, sliceVars, callVars, objVars, chg>>
  BY DEF TickIntrpt
<1>2. cs.op = "none" /\ chg.task = None /\ cs' \in CsType /\ cs'.op = "tick"
  BY <1>1, Records DEF Quiet
<1>3. OwnerInv' /\ DeadInv' /\ NoLostGive'
  BY <1>1, <1>2, SteadyObjects
<1>4. tick_remain' \in [AllTask -> Ticks] /\ Timed(tick_list, tick_remain', task_state)
  <2>1. \A t \in ToSet(tick_list) : tick_remain[t] > 0
    BY <1>2 DEF KernelInv, NotOverdue
  <2> QED BY <1>1, <2>1, TickDown, InvLists DEF Lists
<1>5. Lists'
  BY <1>1, <1>4, InvLists DEF Lists
<1>6. intrpt' \in 0 .. IntrptMax /\ intrpt' > 0 /\ intrpt' # 0
  <2>1. intrpt \in 0 .. IntrptMax
    BY DEF KernelInv, TypeOK
  <2> QED BY <1>1, <2>1, Bounds
<1>7. TypeOK'
  BY <1>1, <1>2, <1>4, <1>6 DEF KernelInv, TypeOK
<1>8. NotOverdue'
  BY <1>2 DEF NotOverdue
<1>9. CsInv'
  BY <1>1, <1>2, <1>6 DEF CsInv
<1>10. ActiveInv'
  BY <1>1, <1>6 DEF KernelInv, ActiveInv
<1>11. CallInv' /\ SliceInRange'
  BY <1>1 DEF KernelInv, TypeOK, CallInv, SliceInRange
<1> QED BY <1>3, <1>5, <1>7, <1>8, <1>9, <1>10, <1>11 DEF KernelInv, Lists

(* time_slice_update, after the tick list. *)
LEMMA TickSliceInv ==
  ASSUME KernelInv, TickSlice
  PROVE  KernelInv'
<1> DEFINE p == prio[active]
           head == Head(rq.list[p])
           slice == IF time_slice[head] > 0 THEN time_slice[head] - 1 ELSE 0
<1>1. /\ Quiet /\ slice_due' = slice_due \ {intrpt}
      /\ UNCHANGED <<schedVars, tickVars, pendVars, prio, b_prio, suspend_count,
                     mutex_list, time_total, sched_policy, callVars, objVars, chg, cs>>
  BY DEF TickSlice
<1>2. \/ UNCHANGED <<rq, time_slice>>
      \/ /\ Len(rq.list[p]) > 1
         /\ rq' = IF slice > 0 THEN rq ELSE ready_list_head_to_tail(rq, p)
         /\ time_slice' = [time_slice EXCEPT ![head] =
                             IF slice > 0 THEN slice ELSE time_total[head]]
  BY DEF TickSlice, time_slice_update
<1>3. /\ rq \in RqType /\ Queued(rq, task_state, prio)
      /\ active \in AllTask /\ p \in Prio /\ rq.list[p] \in Seq(AllTask)
      /\ time_slice \in [AllTask -> Nat] /\ time_total \in [AllTask -> Nat]
      /\ \A t \in AllTask : time_slice[t] \in 1 .. time_total[t]
  BY InvLists DEF Lists, KernelInv, TypeOK, RqType, SliceInRange
<1>4. Len(rq.list[p]) > 1 => rq.list[p] # <<>> /\ head \in AllTask
  <2>1. Len(rq.list[p]) > 1 => rq.list[p] # <<>>
    BY <1>3
  <2> QED BY <1>3, <2>1, FirstEntry
<1>5. rq' \in RqType /\ Queued(rq', task_state, prio)
  <2>1. CASE rq' = rq
    BY <1>3, <2>1
  <2>2. CASE Len(rq.list[p]) > 1 /\ rq' = ready_list_head_to_tail(rq, p)
    BY <1>3, <1>4, <2>2, QueueRotate
  <2> QED BY <1>2, <2>1, <2>2
<1>6. Lists'
  BY <1>1, <1>5, InvLists DEF Lists
<1>7. OwnerInv' /\ DeadInv' /\ NoLostGive'
  BY <1>1, SteadyObjects
<1>8. /\ time_slice' \in [AllTask -> Nat]
      /\ \A t \in AllTask : time_slice'[t] \in 1 .. time_total[t]
  <2>1. CASE UNCHANGED time_slice
    BY <1>3, <2>1
  <2>2. CASE ~UNCHANGED time_slice
    <3>1. /\ head \in AllTask
          /\ time_slice' = [time_slice EXCEPT ![head] =
                              IF slice > 0 THEN slice ELSE time_total[head]]
      BY <1>2, <1>4, <2>2
    <3>2. time_slice[head] \in 1 .. time_total[head] /\ time_total[head] \in Nat
      BY <1>3, <3>1
    <3>3. (IF slice > 0 THEN slice ELSE time_total[head]) \in 1 .. time_total[head]
      BY <3>2
    <3>4. (IF slice > 0 THEN slice ELSE time_total[head]) \in Nat
      BY <3>2, <3>3
    <3> HIDE DEF slice, head
    <3> QED BY <1>3, <3>1, <3>3, <3>4
  <2> QED BY <2>1, <2>2
<1>9. TypeOK'
  <2>1. slice_due' \subseteq 1 .. IntrptMax
    BY <1>1 DEF KernelInv, TypeOK
  <2> QED BY <1>1, <1>5, <1>8, <2>1 DEF KernelInv, TypeOK, RqType
<1>10. NotOverdue'
  BY <1>1 DEF KernelInv, NotOverdue
<1>11. CsInv'
  BY <1>1 DEF KernelInv, CsInv, Quiet
<1>12. ActiveInv'
  BY <1>1 DEF KernelInv, ActiveInv, Quiet
<1>13. CallInv' /\ SliceInRange'
  BY <1>1, <1>8 DEF KernelInv, TypeOK, CallInv, SliceInRange
<1> QED BY <1>6, <1>7, <1>9, <1>10, <1>11, <1>12, <1>13 DEF KernelInv, Lists

------------------------------------------------------------------------------
(* A wait or a sleep that ends. *)

(* What the rest of the invariant sees when a task becomes ready or suspended. *)
Woken ==
  /\ \A u \in Task : task_state'[u] = "K_DELETED" <=> task_state[u] = "K_DELETED"
  /\ \A u \in AllTask : task_state'[u] # "K_RDY" => task_state[u] # "K_RDY"
  /\ \A u \in AllTask : task_state'[u] \in SuspendStates => suspend_count[u] > 0
  /\ \A u \in ToSet(tick_list') : u \in ToSet(tick_list) /\ tick_remain'[u] = tick_remain[u]

(* The state of a task that is woken agrees with the lists it is on. *)
LEMMA WokenState ==
  ASSUME KernelInv, NEW t \in Task, NEW x \in {"K_RDY", "K_SUSPENDED"},
         task_state[t] \in PendStates \cup SleepStates,
         x = "K_SUSPENDED" => task_state[t] \in SuspendStates,
         task_state' = [task_state EXCEPT ![t] = x],
         \A u \in ToSet(tick_list') : u \in ToSet(tick_list) /\ tick_remain'[u] = tick_remain[u]
  PROVE  Woken
<1>1. t \in AllTask /\ Task \subseteq AllTask
  BY DEF AllTask
<1>2. task_state \in [AllTask -> TaskStates]
  BY DEF KernelInv, TypeOK
<1>3. task_state'[t] = x /\ \A u \in AllTask : u # t => task_state'[u] = task_state[u]
  BY <1>1, <1>2
<1>4. task_state[t] \notin {"K_RDY", "K_DELETED"} /\ x # "K_DELETED"
  BY DEF PendStates, SleepStates
<1>5. "K_RDY" \notin SuspendStates
  BY DEF SuspendStates
<1>6. \A u \in AllTask : task_state[u] \in SuspendStates => suspend_count[u] > 0
  BY DEF KernelInv, CallInv
<1>7. \A u \in Task : task_state'[u] = "K_DELETED" <=> task_state[u] = "K_DELETED"
  BY <1>1, <1>3, <1>4
<1>8. \A u \in AllTask : task_state'[u] # "K_RDY" => task_state[u] # "K_RDY"
  BY <1>3, <1>4
<1>9. \A u \in AllTask : task_state'[u] \in SuspendStates => suspend_count[u] > 0
  BY <1>3, <1>5, <1>6
<1> QED BY <1>7, <1>8, <1>9 DEF Woken

(* A wait ends: the task leaves the wait list and the tick list, and is ready or still
   suspended. *)
LEMMA WaitOver ==
  ASSUME KernelInv, NEW t \in Task, task_state[t] \in PendStates,
         NEW x \in {"K_RDY", "K_SUSPENDED"},
         x = "K_SUSPENDED" => task_state[t] \in SuspendStates,
         blk_list' = [blk_list EXCEPT ![blk_obj[t]] = klist_rm(@, t)],
         tick_list_rm(t), task_state' = [task_state EXCEPT ![t] = x],
         rq' = IF x = "K_RDY" THEN ready_list_add(rq, t) ELSE rq,
         prio' = prio, blk_obj' = [blk_obj EXCEPT ![t] = None]
  PROVE  /\ Lists'
         /\ \A o \in Obj : /\ ToSet(blk_list'[o]) \subseteq ToSet(blk_list[o])
                           /\ blk_list[o] = <<>> => blk_list'[o] = <<>>
         /\ Woken
<1>1. Lists
  BY InvLists
<1>2. /\ Lists'
      /\ \A o \in Obj : /\ ToSet(blk_list'[o]) \subseteq ToSet(blk_list[o])
                        /\ blk_list[o] = <<>> => blk_list'[o] = <<>>
      /\ \A u \in ToSet(tick_list') : u \in ToSet(tick_list) /\ tick_remain'[u] = tick_remain[u]
  BY <1>1, LeaveWait
<1>3. Woken
  BY <1>2, WokenState
<1> QED BY <1>2, <1>3

(* A sleep ends likewise. *)
LEMMA SleepOver ==
  ASSUME KernelInv, NEW t \in Task, task_state[t] \in SleepStates,
         NEW x \in {"K_RDY", "K_SUSPENDED"},
         x = "K_SUSPENDED" => task_state[t] \in SuspendStates,
         tick_list_rm(t), task_state' = [task_state EXCEPT ![t] = x],
         rq' = IF x = "K_RDY" THEN ready_list_add(rq, t) ELSE rq,
         UNCHANGED <<prio, blk_obj, blk_list>>
  PROVE  Lists' /\ Woken
<1>1. Lists
  BY InvLists
<1>2. /\ Lists'
      /\ \A u \in ToSet(tick_list') : u \in ToSet(tick_list) /\ tick_remain'[u] = tick_remain[u]
  BY <1>1, LeaveSleep
<1>3. Woken
  BY <1>2, WokenState
<1> QED BY <1>2, <1>3

(* The state a wake-up leads to. *)
LEMMA AwakeState ==
  ASSUME NEW st \in PendStates \cup SleepStates
  PROVE  /\ Awake(st) \in {"K_RDY", "K_SUSPENDED"}
         /\ Awake(st) = "K_SUSPENDED" => st \in SuspendStates
         /\ Awake(st) = "K_RDY" <=> st \in {"K_PEND", "K_SLEEP"}
BY DEF Awake, PendStates, SleepStates, SuspendStates

(* pend_task_wakeup of a waiter. *)
LEMMA Wakeup ==
  ASSUME KernelInv, NEW t \in Task, task_state[t] \in PendStates,
         NEW why \in {"BLK_FINISH", "BLK_DEL"}, pend_task_wakeup(t, why), prio' = prio
  PROVE  /\ Lists'
         /\ \A o \in Obj : /\ ToSet(blk_list'[o]) \subseteq ToSet(blk_list[o])
                           /\ blk_list[o] = <<>> => blk_list'[o] = <<>>
         /\ Woken
         /\ blk_state' \in [AllTask -> {"BLK_FINISH", "BLK_ABORT", "BLK_TIMEOUT", "BLK_DEL"}]
<1>1. PICK x : x = Awake(task_state[t])
  OBVIOUS
<1>2. /\ x \in {"K_RDY", "K_SUSPENDED"}
      /\ x = "K_SUSPENDED" => task_state[t] \in SuspendStates
      /\ x = "K_RDY" <=> task_state[t] = "K_PEND"
  BY <1>1, AwakeState DEF PendStates
<1>3. /\ blk_list' = [blk_list EXCEPT ![blk_obj[t]] = klist_rm(@, t)]
      /\ tick_list_rm(t)
      /\ task_state' = [task_state EXCEPT ![t] = x]
      /\ rq' = IF x = "K_RDY" THEN ready_list_add(rq, t) ELSE rq
      /\ prio' = prio
      /\ blk_obj' = [blk_obj EXCEPT ![t] = None]
      /\ blk_state' = [blk_state EXCEPT ![t] = why]
  BY <1>1, <1>2 DEF pend_task_wakeup
<1>4. KernelInv /\ task_state[t] \in PendStates
  OBVIOUS
<1>5. /\ Lists'
      /\ \A o \in Obj : /\ ToSet(blk_list'[o]) \subseteq ToSet(blk_list[o])
                        /\ blk_list[o] = <<>> => blk_list'[o] = <<>>
      /\ Woken
  BY ONLY <1>2, <1>3, <1>4, WaitOver
<1>6. blk_state' \in [AllTask -> {"BLK_FINISH", "BLK_ABORT", "BLK_TIMEOUT", "BLK_DEL"}]
  BY <1>3 DEF KernelInv, TypeOK
<1> QED BY <1>5, <1>6

(* The first waiter of an object. *)
LEMMA FirstWaiter ==
  ASSUME Lists, NEW o \in Obj, blk_list[o] # <<>>
  PROVE  /\ Head(blk_list[o]) \in Task
         /\ Head(blk_list[o]) \in ToSet(blk_list[o])
         /\ task_state[Head(blk_list[o])] \in PendStates
         /\ blk_obj[Head(blk_list[o])] = o
<1>1. Head(blk_list[o]) \in Task /\ Head(blk_list[o]) \in ToSet(blk_list[o])
  BY FirstEntry DEF Lists
<1> QED BY <1>1 DEF Lists, Waiting

(* The priority mutex_release asks for. *)
LEMMA ReleaseType ==
  ASSUME KernelInv, NEW t \in Task, NEW ml \in Seq(Mutex), NEW bl \in [Obj -> Seq(Task)],
         mutex_release(t, ml, bl)
  PROVE  chg' \in ChgType /\ chg'.task \in {t, None}
<1>1. b_prio[t] \in Prio /\ prio \in [AllTask -> Prio]
  BY DEF KernelInv, TypeOK, AllTask
<1>2. mutex_pri_limit(b_prio[t], ml, bl, prio) \in Prio
  BY <1>1, PriLimitType
<1> QED BY <1>2, Records DEF mutex_release, ChgType

(* A change of priority that the end of a wait begins is about the owner, which is not
   the waiter. *)
LEMMA ResetType ==
  ASSUME KernelInv, NEW t \in Task, task_state[t] \in PendStates,
         NEW bl \in [Obj -> Seq(Task)], mutex_task_pri_reset(t, bl)
  PROVE  /\ chg' \in ChgType
         /\ chg'.task # None => chg'.task \in Task \ {t} /\ task_state[chg'.task] # "K_DELETED"
<1> DEFINE m == blk_obj[t]
           owner == mutex_task[m]
<1>1. /\ blk_list \in [Obj -> Seq(Task)] /\ task_state[t] \in PendStates
      /\ Waiting(blk_list, task_state, blk_obj, prio)
  BY DEF KernelInv, TypeOK
<1>2. m \in Obj /\ t \in ToSet(blk_list[m])
  BY ONLY <1>1, PendEntry
<1>3. blk_list[m] # <<>>
  BY <1>1, <1>2, EntrySet
<1>4. CASE m \in Mutex \cap live /\ prio[owner] = prio[t]
  <2>1. owner \in Task \ {t} /\ task_state[owner] # "K_DELETED"
    BY <1>2, <1>3, <1>4 DEF KernelInv, OwnerInv
  <2>2. mutex_list[owner] \in Seq(Mutex)
    BY <2>1 DEF KernelInv, TypeOK, AllTask
  <2>3. mutex_release(owner, mutex_list[owner], bl)
    BY <1>4 DEF mutex_task_pri_reset
  <2> QED BY <2>1, <2>2, <2>3, ReleaseType
<1>5. CASE ~(m \in Mutex \cap live /\ prio[owner] = prio[t])
  BY <1>5, Records DEF mutex_task_pri_reset
<1> QED BY <1>4, <1>5

(* The objects after a wake-up: there may be fewer waiters. *)
LEMMA WokenObjects ==
  ASSUME KernelInv, Lists', Woken,
         \A o \in Obj : /\ ToSet(blk_list'[o]) \subseteq ToSet(blk_list[o])
                        /\ blk_list[o] = <<>> => blk_list'[o] = <<>>,
         UNCHANGED <<mutex_list, objVars>>,
         cs' = cs \/ cs.op \notin {"handover", "free", "wake"}
  PROVE  OwnerInv' /\ DeadInv' /\ NoLostGive'
<1>1. OwnerInv'
  BY OwnerKeep DEF Lists, Woken, Obj
<1>2. DeadInv'
  BY DeadKeep
<1>3. NoLostGive'
  BY CountKeep
<1> QED BY <1>1, <1>2, <1>3

(* The tick ends a sleep. *)
LEMMA TickSleepInv ==
  ASSUME KernelInv, TickSleep
  PROVE  KernelInv'
<1> DEFINE t == Head(tick_list)
<1>1. /\ cs.op = "tick" /\ chg.task = None /\ tick_list # <<>>
      /\ task_state[t] \in SleepStates
      /\ tick_list_rm(t)
      /\ rq' = IF task_state[t] = "K_SLEEP" THEN ready_list_add(rq, t) ELSE rq
      /\ task_state' = [task_state EXCEPT ![t] = Awake(@)]
      /\ blk_state' = [blk_state EXCEPT ![t] = "BLK_FINISH"]
      /\ UNCHANGED <<schedVars, blk_obj, blk_list, prio, b_prio, suspend_count,
                     mutex_list, sliceVars, callVars, objVars, chg, cs>>
  BY DEF TickSleep, TickExpired
<1>2. t \in Task
  BY <1>1, FirstEntry DEF KernelInv, TypeOK
<1> HIDE DEF t
<1>3. PICK x : x = Awake(task_state[t])
  OBVIOUS
<1>4. /\ x \in {"K_RDY", "K_SUSPENDED"}
      /\ x = "K_SUSPENDED" => task_state[t] \in SuspendStates
      /\ x = "K_RDY" <=> task_state[t] = "K_SLEEP"
  BY <1>1, <1>3, AwakeState DEF SleepStates
<1>5. /\ KernelInv /\ task_state[t] \in SleepStates /\ tick_list_rm(t)
      /\ task_state' = [task_state EXCEPT ![t] = x]
      /\ rq' = IF x = "K_RDY" THEN ready_list_add(rq, t) ELSE rq
      /\ UNCHANGED <<prio, blk_obj, blk_list>>
  BY <1>1, <1>3, <1>4
<1>6. Lists' /\ Woken
  BY ONLY <1>2, <1>4, <1>5, SleepOver
<1>7. OwnerInv' /\ DeadInv' /\ NoLostGive'
  BY <1>1, <1>6, WokenObjects
<1>8. TypeOK'
  <2>1. blk_state' \in [AllTask -> {"BLK_FINISH", "BLK_ABORT", "BLK_TIMEOUT", "BLK_DEL"}]
    BY <1>1 DEF KernelInv, TypeOK
  <2> QED BY <1>1, <1>6, <2>1 DEF KernelInv, TypeOK, Lists, RqType
<1>9. NotOverdue'
  BY <1>1 DEF NotOverdue
<1>10. CsInv' /\ ActiveInv'
  <2>1. intrpt' > 0 /\ intrpt' # 0
    BY <1>1, Bounds DEF KernelInv, CsInv
  <2>2. CsInv'
    BY <1>1, <2>1 DEF CsInv
  <2>3. ActiveInv'
    BY <1>1, <1>6, <2>1 DEF KernelInv, TypeOK, ActiveInv, Woken
  <2> QED BY <2>2, <2>3
<1>11. CallInv' /\ SliceInRange'
  BY <1>1, <1>6 DEF KernelInv, CallInv, SliceInRange, Woken
<1> QED BY <1>6, <1>7, <1>8, <1>9, <1>10, <1>11 DEF KernelInv, Lists

(* The tick ends a wait whose time is up. *)
LEMMA TickTimeoutInv ==
  ASSUME KernelInv, TickTimeout
  PROVE  KernelInv'
<1> DEFINE t == Head(tick_list)
<1>1. /\ cs.op = "tick" /\ chg.task = None /\ tick_list # <<>>
      /\ task_state[t] \in PendStates
      /\ tick_list_rm(t)
      /\ blk_list' = [blk_list EXCEPT ![blk_obj[t]] = klist_rm(@, t)]
      /\ rq' = IF task_state[t] = "K_PEND" THEN ready_list_add(rq, t) ELSE rq
      /\ task_state' = [task_state EXCEPT ![t] = Awake(@)]
      /\ blk_state' = [blk_state EXCEPT ![t] = "BLK_TIMEOUT"]
      /\ mutex_task_pri_reset(t, blk_list')
      /\ blk_obj' = [blk_obj EXCEPT ![t] = None]
      /\ UNCHANGED <<schedVars, prio, b_prio, suspend_count, mutex_list,
                     sliceVars, callVars, objVars, cs>>
  BY DEF TickTimeout, TickExpired
<1>2. t \in Task
  BY <1>1, FirstEntry DEF KernelInv, TypeOK
<1> HIDE DEF t
<1>3. PICK x : x = Awake(task_state[t])
  OBVIOUS
<1>4. /\ x \in {"K_RDY", "K_SUSPENDED"}
      /\ x = "K_SUSPENDED" => task_state[t] \in SuspendStates
      /\ x = "K_RDY" <=> task_state[t] = "K_PEND"
  BY <1>1, <1>3, AwakeState DEF PendStates
<1>5. /\ KernelInv /\ task_state[t] \in PendStates /\ tick_list_rm(t)
      /\ blk_list' = [blk_list EXCEPT ![blk_obj[t]] = klist_rm(@, t)]
      /\ task_state' = [task_state EXCEPT ![t] = x]
      /\ rq' = IF x = "K_RDY" THEN ready_list_add(rq, t) ELSE rq
      /\ prio' = prio /\ blk_obj' = [blk_obj EXCEPT ![t] = None]
  BY <1>1, <1>3, <1>4
<1>6. /\ Lists' /\ Woken
      /\ \A o \in Obj : /\ ToSet(blk_list'[o]) \subseteq ToSet(blk_list[o])
                        /\ blk_list[o] = <<>> => blk_list'[o] = <<>>
  BY ONLY <1>2, <1>4, <1>5, WaitOver
<1>7. OwnerInv' /\ DeadInv' /\ NoLostGive'
  BY <1>1, <1>6, WokenObjects
<1>8. /\ chg' \in ChgType
      /\ chg'.task # None => chg'.task \in Task \ {t} /\ task_state[chg'.task] # "K_DELETED"
  <2>1. blk_list' \in [Obj -> Seq(Task)] /\ mutex_task_pri_reset(t, blk_list')
    BY <1>1, <1>6 DEF Lists
  <2> QED BY ONLY <1>2, <1>5, <2>1, ResetType
<1>9. TypeOK'
  <2>1. blk_state' \in [AllTask -> {"BLK_FINISH", "BLK_ABORT", "BLK_TIMEOUT", "BLK_DEL"}]
    BY <1>1 DEF KernelInv, TypeOK
  <2> QED BY <1>1, <1>6, <1>8, <2>1 DEF KernelInv, TypeOK, Lists, RqType
<1>10. NotOverdue'
  BY <1>1 DEF NotOverdue
<1>11. CsInv' /\ ActiveInv'
  <2>1. intrpt' > 0 /\ intrpt' # 0
    BY <1>1, Bounds DEF KernelInv, CsInv
  <2>2. chg'.task # None => task_state'[chg'.task] # "K_DELETED"
    BY <1>6, <1>8 DEF Woken
  <2>3. CsInv'
    BY <1>1, <2>1, <2>2 DEF CsInv
  <2>4. ActiveInv'
    BY <1>1, <1>6, <2>1 DEF KernelInv, TypeOK, ActiveInv, Woken
  <2> QED BY <2>3, <2>4
<1>12. CallInv' /\ SliceInRange'
  BY <1>1, <1>6 DEF KernelInv, CallInv, SliceInRange, Woken
<1> QED BY <1>6, <1>7, <1>9, <1>10, <1>11, <1>12 DEF KernelInv, Lists

(* The tick has served the list. *)
LEMMA TickEndInv ==
  ASSUME KernelInv, TickEnd
  PROVE  KernelInv'
<1>1. /\ cs.op = "tick" /\ chg.task = None /\ ~TickExpired /\ cs' = CsNone
      /\ slice_due' = slice_due \cup {intrpt}
      /\ UNCHANGED <<schedVars, rq, tickVars, pendVars, prio, b_prio, suspend_count,
                     mutex_list, time_slice, time_total, sched_policy, callVars, objVars, chg>>
  BY DEF TickEnd
<1>2. cs' \in CsType /\ cs'.op = "none"
  BY <1>1, Records
<1>3. intrpt \in 0 .. IntrptMax /\ intrpt > 0
  BY <1>1 DEF KernelInv, TypeOK, CsInv
<1>4. Lists' /\ OwnerInv' /\ DeadInv' /\ NoLostGive'
  BY <1>1, Steady
<1>5. TypeOK'
  <2>1. intrpt \in 1 .. IntrptMax
    BY <1>3, Bounds
  <2>2. slice_due' \subseteq 1 .. IntrptMax
    BY <1>1, <2>1 DEF KernelInv, TypeOK
  <2> QED BY <1>1, <1>2, <2>2 DEF KernelInv, TypeOK
<1>6. NotOverdue'
  <2>1. tick_list \in Seq(Task) /\ tick_remain \in [AllTask -> Ticks]
        /\ Sorted(tick_list, tick_remain)
    BY DEF KernelInv, TypeOK, Timed
  <2>2. ASSUME NEW t \in ToSet(tick_list) PROVE tick_remain[t] > 0
    <3>1. Len(tick_list) \in Nat /\ DOMAIN tick_list = 1 .. Len(tick_list)
      BY <2>1, LenProperties
    <3>2. PICK i \in 1 .. Len(tick_list) : tick_list[i] = t
      BY <2>2, <3>1 DEF ToSet
    <3>3. 1 \in 1 .. Len(tick_list) /\ 1 <= i
      BY <3>1
    <3>4. tick_list # <<>> /\ Head(tick_list) = tick_list[1]
      BY <2>1, <2>2, EntrySet
    <3>5. tick_list[1] \in AllTask /\ t \in AllTask
      BY <2>1, <3>2, <3>3, ElementOfSeq DEF AllTask
    <3>6. tick_remain[tick_list[1]] <= tick_remain[t]
      BY <2>1, <3>2, <3>3 DEF Sorted
    <3>7. ~(tick_remain[tick_list[1]] <= 0)
      BY <1>1, <3>4 DEF TickExpired
    <3>8. tick_remain[tick_list[1]] \in Nat /\ tick_remain[t] \in Nat
      BY <2>1, <3>5, Bounds
    <3> QED BY <3>6, <3>7, <3>8
  <2> QED BY <1>1, <2>2 DEF NotOverdue
<1>7. CsInv'
  BY <1>1, <1>2 DEF CsInv
<1>8. ActiveInv'
  <2>1. intrpt' # 0
    BY <1>1, <1>3, Bounds
  <2> QED BY <1>1, <2>1 DEF KernelInv, ActiveInv
<1>9. CallInv' /\ SliceInRange'
  BY <1>1 DEF KernelInv, CallInv, SliceInRange
<1> QED BY <1>4, <1>5, <1>6, <1>7, <1>8, <1>9 DEF KernelInv, Lists

(* A critical section ends at a scheduling point. *)
LEMMA ExitSchedInv ==
  ASSUME KernelInv, ExitSched
  PROVE  KernelInv'
<1>1. /\ cs.op = "exit" /\ chg.task = None /\ cs' = CsNone
      /\ intrpt = 0 /\ active \in Task
  BY DEF ExitSched, KernelInv, CsInv
<1>2. /\ pc' = [pc EXCEPT ![active] = "sched"]
      /\ arg' = [arg EXCEPT ![active] = None]
      /\ UNCHANGED <<schedVars, rq, tickVars, pendVars, prio, b_prio,
                     suspend_count, mutex_list, sliceVars, objVars, chg>>
  BY <1>1 DEF ExitSched, CriticalExitSched
<1>3. cs' \in CsType /\ cs'.op = "none"
  BY <1>1, Records
<1>4. Lists' /\ OwnerInv' /\ DeadInv' /\ NoLostGive'
  BY <1>1, <1>2, Steady
<1>5. TypeOK'
  BY <1>2, <1>3 DEF KernelInv, TypeOK
<1>6. NotOverdue'
  BY <1>1, <1>2 DEF KernelInv, NotOverdue
<1>7. CsInv'
  BY <1>1, <1>2, <1>3 DEF CsInv
<1>8. ActiveInv'
  BY <1>2 DEF KernelInv, TypeOK, ActiveInv
<1>9. CallInv' /\ SliceInRange'
  BY <1>2 DEF KernelInv, TypeOK, CallInv, SliceInRange
<1> QED BY <1>4, <1>5, <1>6, <1>7, <1>8, <1>9 DEF KernelInv, Lists

------------------------------------------------------------------------------
(* Semaphores. *)

(* The next waiter is woken. *)
LEMMA WakeNextInv ==
  ASSUME KernelInv, WakeNext
  PROVE  KernelInv'
<1> DEFINE t == Head(blk_list[cs.obj])
<1>1. /\ cs.op = "wake" /\ chg.task = None /\ blk_list[cs.obj] # <<>>
      /\ pend_task_wakeup(t, cs.why)
      /\ UNCHANGED <<schedVars, prio, b_prio, suspend_count, mutex_list,
                     sliceVars, callVars, objVars, chg, cs>>
  BY DEF WakeNext
<1>2. cs.obj \in Obj /\ cs.why \in {"BLK_FINISH", "BLK_DEL"}
  BY <1>1 DEF KernelInv, CsInv, TypeOK, CsType
<1>3. t \in Task /\ task_state[t] \in PendStates
  BY <1>1, <1>2, FirstWaiter, InvLists
<1> HIDE DEF t
<1>4. /\ Lists' /\ Woken
      /\ \A o \in Obj : /\ ToSet(blk_list'[o]) \subseteq ToSet(blk_list[o])
                        /\ blk_list[o] = <<>> => blk_list'[o] = <<>>
      /\ blk_state' \in [AllTask -> {"BLK_FINISH", "BLK_ABORT", "BLK_TIMEOUT", "BLK_DEL"}]
  BY <1>1, <1>2, <1>3, Wakeup
<1>5. OwnerInv' /\ DeadInv' /\ NoLostGive'
  BY <1>1, <1>4, WokenObjects
<1>6. TypeOK'
  BY <1>1, <1>4 DEF KernelInv, TypeOK, Lists, RqType
<1>7. NotOverdue'
  BY <1>1, <1>4 DEF KernelInv, NotOverdue, Woken
<1>8. CsInv'
  BY <1>1, <1>2 DEF CsInv
<1>9. ActiveInv'
  BY <1>1, <1>4 DEF KernelInv, TypeOK, ActiveInv, Woken, Quiet
<1>10. CallInv' /\ SliceInRange'
  BY <1>1, <1>4 DEF KernelInv, CallInv, SliceInRange, Woken
<1> QED BY <1>4, <1>5, <1>6, <1>7, <1>8, <1>9, <1>10 DEF KernelInv, Lists

(* The end of a kernel function that leaves through a scheduling point. *)
LEMMA SchedPoint ==
  ASSUME KernelInv, CriticalExitSched
  PROVE  /\ pc' \in [AllTask -> {"user", "sched", "sched_pend", "pend", "pri_change"}]
         /\ intrpt = 0 => pc'[active] = "sched"
         /\ \A t \in AllTask : pc'[t] = "pri_change" => pc[t] = "pri_change"
BY DEF KernelInv, TypeOK, CriticalExitSched

(* All waiters have been woken. *)
LEMMA WakeEndInv ==
  ASSUME KernelInv, WakeEnd
  PROVE  KernelInv'
<1>1. /\ cs.op = "wake" /\ chg.task = None /\ blk_list[cs.obj] = <<>> /\ cs' = CsNone
      /\ CriticalExitSched
      /\ UNCHANGED <<schedVars, rq, tickVars, pendVars, prio, b_prio,
                     suspend_count, mutex_list, sliceVars, arg, objVars, chg>>
  BY DEF WakeEnd
<1>2. cs' \in CsType /\ cs'.op = "none"
  BY <1>1, Records
<1>3. Lists'
  BY <1>1, InvLists DEF Lists
<1>4. OwnerInv'
  BY <1>1, OwnerKeep DEF KernelInv, TypeOK
<1>5. DeadInv' /\ NoLostGive'
  BY <1>1 DEF KernelInv, DeadInv, NoLostGive
<1>6. TypeOK'
  BY <1>1, <1>2, SchedPoint DEF KernelInv, TypeOK
<1>7. NotOverdue'
  BY <1>1 DEF KernelInv, NotOverdue
<1>8. CsInv'
  BY <1>1, <1>2 DEF CsInv
<1>9. ActiveInv'
  BY <1>1, SchedPoint DEF KernelInv, ActiveInv
<1>10. CallInv' /\ SliceInRange'
  BY <1>1, SchedPoint DEF KernelInv, CallInv, SliceInRange
<1> QED BY <1>3, <1>4, <1>5, <1>6, <1>7, <1>8, <1>9, <1>10 DEF KernelInv, Lists

(* The context of an API call: no critical section is under way, and a task
   that calls is ready. *)
LEMMA CallContext ==
  ASSUME KernelInv, NEW f, AnyCall(f)
  PROVE  /\ Quiet
         /\ cs.op = "none" /\ chg.task = None
         /\ intrpt = 0 => /\ active \in Task
                          /\ pc[active] = "user"
                          /\ task_state[active] = "K_RDY"
<1>1. Quiet /\ (intrpt = 0 => active # Idle /\ pc[active] = "user")
  <2>1. CASE TaskCall(f)
    BY <2>1 DEF TaskCall, InTask
  <2>2. CASE IsrCall(f)
    <3>1. Quiet /\ intrpt > 0
      BY <2>2 DEF IsrCall, InIsr
    <3> QED BY <3>1
  <2> QED BY <2>1, <2>2 DEF AnyCall
<1>2. intrpt = 0 => task_state[active] = "K_RDY"
  BY <1>1 DEF KernelInv, ActiveInv
<1>3. active \in AllTask
  BY DEF KernelInv, TypeOK
<1> QED BY <1>1, <1>2, <1>3 DEF Quiet, AllTask

(* When a task calls the kernel, no critical section is under way and the caller is
   ready. *)
LEMMA TaskContext ==
  ASSUME KernelInv, NEW f, TaskCall(f)
  PROVE  /\ Quiet /\ intrpt = 0
         /\ cs.op = "none" /\ chg.task = None
         /\ active \in Task /\ pc[active] = "user" /\ task_state[active] = "K_RDY"
BY CallContext DEF AnyCall, TaskCall, InTask

(* A unit is given to a semaphore without waiters. *)
LEMMA GiveCountInv ==
  ASSUME KernelInv, NEW s \in Sem, GiveCount(s)
  PROVE  KernelInv'
<1>1. /\ s \in live /\ blk_list[s] = <<>> /\ count[s] < SemMax
      /\ count' = [count EXCEPT ![s] = @ + 1]
      /\ UNCHANGED <<schedVars, rq, tickVars, pendVars, prio, b_prio,
                     suspend_count, mutex_list, sliceVars, callVars, live,
                     mutex_task, owner_nested, chg, cs>>
  BY DEF GiveCount
<1>2. Lists'
  BY <1>1, InvLists DEF Lists
<1>3. OwnerInv'
  BY <1>1, OwnerKeep DEF KernelInv, TypeOK
<1>4. DeadInv'
  BY <1>1, DeadKeep
<1>5. NoLostGive'
  BY <1>1 DEF KernelInv, TypeOK, NoLostGive
<1>6. TypeOK'
  <2>1. count \in [Sem -> 0 .. SemMax]
    BY DEF KernelInv, TypeOK
  <2>2. count' \in [Sem -> 0 .. SemMax]
    BY <1>1, <2>1, Bounds
  <2> QED BY <1>1, <2>2 DEF KernelInv, TypeOK
<1>7. NotOverdue'
  BY <1>1 DEF KernelInv, NotOverdue
<1>8. CsInv'
  BY <1>1 DEF KernelInv, CsInv
<1>9. ActiveInv'
  BY <1>1 DEF KernelInv, ActiveInv, Quiet
<1>10. CallInv' /\ SliceInRange'
  BY <1>1 DEF KernelInv, CallInv, SliceInRange
<1> QED BY <1>2, <1>3, <1>4, <1>5, <1>6, <1>7, <1>8, <1>9, <1>10 DEF KernelInv, Lists

(* A unit is given to the first waiter. *)
LEMMA GiveOneInv ==
  ASSUME KernelInv, NEW s \in Sem, GiveOne(s)
  PROVE  KernelInv'
<1> DEFINE t == Head(blk_list[s])
<1>1. /\ AnyCall("krhino_sem_give") /\ blk_list[s] # <<>>
      /\ pend_task_wakeup(t, "BLK_FINISH")
      /\ CriticalExitSched
      /\ UNCHANGED <<schedVars, prio, b_prio, suspend_count, mutex_list,
                     sliceVars, arg, objVars, chg, cs>>
  BY DEF GiveOne
<1>2. cs.op = "none" /\ chg.task = None
  BY <1>1, CallContext
<1>3. t \in Task /\ task_state[t] \in PendStates
  BY <1>1, FirstWaiter, InvLists DEF Obj
<1> HIDE DEF t
<1>4. /\ Lists' /\ Woken
      /\ \A o \in Obj : /\ ToSet(blk_list'[o]) \subseteq ToSet(blk_list[o])
                        /\ blk_list[o] = <<>> => blk_list'[o] = <<>>
      /\ blk_state' \in [AllTask -> {"BLK_FINISH", "BLK_ABORT", "BLK_TIMEOUT", "BLK_DEL"}]
  BY <1>1, <1>3, Wakeup
<1>5. OwnerInv' /\ DeadInv' /\ NoLostGive'
  BY <1>1, <1>4, WokenObjects
<1>6. TypeOK'
  BY <1>1, <1>4, SchedPoint DEF KernelInv, TypeOK, Lists, RqType
<1>7. NotOverdue'
  BY <1>1, <1>4 DEF KernelInv, NotOverdue, Woken
<1>8. CsInv'
  BY <1>1, <1>2 DEF CsInv
<1>9. ActiveInv'
  BY <1>1, <1>4, SchedPoint DEF KernelInv, TypeOK, ActiveInv, Woken
<1>10. CallInv' /\ SliceInRange'
  BY <1>1, <1>4, SchedPoint DEF KernelInv, CallInv, SliceInRange, Woken
<1> QED BY <1>4, <1>5, <1>6, <1>7, <1>8, <1>9, <1>10 DEF KernelInv, Lists

(* The record of a loop that wakes every waiter. *)
LEMMA WakeRecord ==
  ASSUME NEW o \in Obj, NEW why \in {"BLK_FINISH", "BLK_DEL"},
         NEW r, r = [CsNone EXCEPT !.op = "wake", !.obj = o, !.why = why]
  PROVE  r \in CsType /\ r.op = "wake" /\ r.obj = o
BY Records DEF CsType, CsOps

(* All waiters are to be woken. *)
LEMMA GiveAllInv ==
  ASSUME KernelInv, NEW s \in Sem, GiveAll(s)
  PROVE  KernelInv'
<1>1. /\ AnyCall("krhino_sem_give_all")
      /\ cs' = [CsNone EXCEPT !.op = "wake", !.obj = s]
      /\ UNCHANGED <<schedVars, rq, tickVars, pendVars, prio, b_prio,
                     suspend_count, mutex_list, sliceVars, callVars, objVars, chg>>
  BY DEF GiveAll
<1>2. cs.op = "none" /\ chg.task = None /\ s \in Obj
  BY <1>1, CallContext DEF Obj
<1>3. cs' \in CsType /\ cs'.op = "wake" /\ cs'.obj = s
  BY <1>1, <1>2, Records DEF CsType, CsOps
<1>4. Lists' /\ OwnerInv' /\ DeadInv' /\ NoLostGive'
  BY <1>1, <1>2, Steady
<1>5. TypeOK'
  BY <1>1, <1>3 DEF KernelInv, TypeOK
<1>6. NotOverdue'
  BY <1>1, <1>2 DEF KernelInv, NotOverdue
<1>7. CsInv'
  BY <1>1, <1>2, <1>3 DEF CsInv
<1>8. ActiveInv'
  BY <1>1, <1>3 DEF KernelInv, ActiveInv, Quiet
<1>9. CallInv' /\ SliceInRange'
  BY <1>1 DEF KernelInv, CallInv, SliceInRange
<1> QED BY <1>4, <1>5, <1>6, <1>7, <1>8, <1>9 DEF KernelInv, Lists

(* A semaphore is created. *)
LEMMA SemCreateInv ==
  ASSUME KernelInv, NEW s \in Sem, NEW n \in SemChoices, krhino_sem_create(s, n)
  PROVE  KernelInv'
<1>1. /\ TaskCall("krhino_sem_create") /\ s \notin live
      /\ live' = live \cup {s}
      /\ blk_list' = [blk_list EXCEPT ![s] = <<>>]
      /\ count' = [count EXCEPT ![s] = n]
      /\ UNCHANGED <<schedVars, rq, tickVars, task_state, blk_obj, blk_state, prio,
                     b_prio, suspend_count, mutex_list, sliceVars, callVars,
                     mutex_task, owner_nested, chg, cs>>
  BY DEF krhino_sem_create
<1>2. cs.op = "none" /\ chg.task = None /\ s \in Obj
  BY <1>1, TaskContext DEF Obj
<1>3. blk_list[s] = <<>> /\ blk_list' = blk_list
  <2>1. blk_list[s] = <<>>
    BY <1>1, <1>2 DEF KernelInv, DeadInv
  <2> QED BY <1>1, <1>2, <2>1 DEF KernelInv, TypeOK
<1>4. Lists'
  BY <1>1, <1>3, InvLists DEF Lists
<1>5. OwnerInv'
  <2>1. Mutex \cap live' = Mutex \cap live /\ live \subseteq live'
    BY <1>1, TaskAssumption
  <2> QED BY <1>1, <1>3, <2>1 DEF KernelInv, OwnerInv
<1>6. DeadInv' /\ NoLostGive'
  BY <1>1, <1>3 DEF KernelInv, TypeOK, DeadInv, NoLostGive
<1>7. TypeOK'
  <2>1. count \in [Sem -> 0 .. SemMax] /\ n \in 0 .. SemMax
    BY NumberAssumption DEF KernelInv, TypeOK
  <2>2. count' \in [Sem -> 0 .. SemMax]
    BY <1>1, <2>1
  <2> QED BY <1>1, <1>2, <1>3, <2>2 DEF KernelInv, TypeOK
<1>8. NotOverdue'
  BY <1>1 DEF KernelInv, NotOverdue
<1>9. CsInv'
  BY <1>1, <1>2 DEF CsInv
<1>10. ActiveInv'
  BY <1>1 DEF KernelInv, ActiveInv, Quiet
<1>11. CallInv' /\ SliceInRange'
  BY <1>1 DEF KernelInv, CallInv, SliceInRange
<1> QED BY <1>4, <1>5, <1>6, <1>7, <1>8, <1>9, <1>10, <1>11 DEF KernelInv, Lists

(* A semaphore is deleted. *)
LEMMA SemDelInv ==
  ASSUME KernelInv, NEW s \in Sem, krhino_sem_del(s)
  PROVE  KernelInv'
<1>1. /\ TaskCall("krhino_sem_del") /\ live' = live \ {s}
      /\ cs' = [CsNone EXCEPT !.op = "wake", !.obj = s, !.why = "BLK_DEL"]
      /\ UNCHANGED <<schedVars, rq, tickVars, pendVars, prio, b_prio,
                     suspend_count, mutex_list, sliceVars, callVars, mutex_task,
                     owner_nested, count, chg>>
  BY DEF krhino_sem_del
<1>2. cs.op = "none" /\ chg.task = None /\ s \in Obj
  BY <1>1, TaskContext DEF Obj
<1>3. cs' \in CsType /\ cs'.op = "wake" /\ cs'.obj = s
  BY <1>1, <1>2, WakeRecord
<1>4. Lists'
  BY <1>1, InvLists DEF Lists
<1>5. OwnerInv'
  <2>1. \A m \in Mutex : m \in live' <=> m \in live
    BY <1>1, TaskAssumption
  <2>2. \A t \in Task : ToSet(mutex_list[t]) \subseteq Mutex
    BY EntrySet DEF KernelInv, TypeOK, AllTask
  <2> QED BY <1>1, <1>2, <1>3, <2>1, <2>2 DEF KernelInv, OwnerInv
<1>6. DeadInv' /\ NoLostGive'
  BY <1>1, <1>2, <1>3 DEF KernelInv, DeadInv, NoLostGive
<1>7. TypeOK'
  BY <1>1, <1>3 DEF KernelInv, TypeOK
<1>8. NotOverdue'
  BY <1>1, <1>2 DEF KernelInv, NotOverdue
<1>9. CsInv'
  BY <1>1, <1>2, <1>3 DEF CsInv
<1>10. ActiveInv'
  BY <1>1, <1>3 DEF KernelInv, ActiveInv, Quiet
<1>11. CallInv' /\ SliceInRange'
  BY <1>1 DEF KernelInv, CallInv, SliceInRange
<1> QED BY <1>4, <1>5, <1>6, <1>7, <1>8, <1>9, <1>10, <1>11 DEF KernelInv, Lists

(* A unit is taken. *)
LEMMA TakeCountInv ==
  ASSUME KernelInv, NEW s \in Sem, NEW ticks, krhino_sem_take(s, ticks), TakeCount(s)
  PROVE  KernelInv'
<1>1. /\ count[s] > 0 /\ count' = [count EXCEPT ![s] = @ - 1]
      /\ UNCHANGED <<schedVars, rq, tickVars, pendVars, prio, b_prio, suspend_count, mutex_list,
                     callVars, sliceVars, live, mutex_task, owner_nested, chg, cs>>
  BY DEF krhino_sem_take, TakeCount
<1>2. Lists'
  BY <1>1, InvLists DEF Lists
<1>3. OwnerInv'
  BY <1>1, OwnerKeep DEF KernelInv, TypeOK
<1>4. DeadInv'
  BY <1>1, DeadKeep
<1>5. NoLostGive'
  BY <1>1 DEF KernelInv, TypeOK, NoLostGive
<1>6. TypeOK'
  <2>1. count \in [Sem -> 0 .. SemMax]
    BY DEF KernelInv, TypeOK
  <2>2. count' \in [Sem -> 0 .. SemMax]
    BY <1>1, <2>1, Bounds
  <2> QED BY <1>1, <2>2 DEF KernelInv, TypeOK
<1>7. NotOverdue'
  BY <1>1 DEF KernelInv, NotOverdue
<1>8. CsInv'
  BY <1>1 DEF KernelInv, CsInv
<1>9. ActiveInv'
  BY <1>1 DEF KernelInv, ActiveInv, Quiet
<1>10. CallInv' /\ SliceInRange'
  BY <1>1 DEF KernelInv, CallInv, SliceInRange
<1> QED BY <1>2, <1>3, <1>4, <1>5, <1>6, <1>7, <1>8, <1>9, <1>10 DEF KernelInv, Lists

(* A tick argument that is not RHINO_NO_WAIT keeps the tick list in time. *)
LEMMA InTime ==
  ASSUME KernelInv, cs.op # "tick", NEW ticks \in Ticks \ {0},
         \A u \in ToSet(tick_list') :
            tick_remain'[u] = ticks \/ (u \in ToSet(tick_list) /\ tick_remain'[u] = tick_remain[u])
  PROVE  NotOverdue'
<1>1. ticks > 0
  BY Bounds
<1> QED BY <1>1 DEF KernelInv, NotOverdue

(* A task waits for a unit. *)
LEMMA TakeWaitInv ==
  ASSUME KernelInv, NEW s \in Sem, NEW ticks \in Ticks, krhino_sem_take(s, ticks),
         TakeWait(s, ticks)
  PROVE  KernelInv'
<1>1. /\ TaskCall("krhino_sem_take") /\ s \in live
      /\ count[s] = 0 /\ ticks # 0 /\ sched_lock = 0
      /\ pend_to_blk_obj(s, active, ticks)
      /\ pc' = [pc EXCEPT ![active] = "sched_pend"]
      /\ arg' = [arg EXCEPT ![active] = s]
      /\ UNCHANGED <<schedVars, prio, b_prio, suspend_count, mutex_list,
                     sliceVars, objVars, chg, cs>>
  BY DEF krhino_sem_take, TakeWait
<1>2. /\ cs.op = "none" /\ chg.task = None /\ s \in Obj /\ ticks \in Ticks \ {0}
      /\ active \in Task /\ task_state[active] = "K_RDY"
  BY <1>1, TaskContext DEF Obj
<1>3. /\ Lists'
      /\ \A o \in Obj : ToSet(blk_list'[o]) = IF o = s THEN ToSet(blk_list[o]) \cup {active}
                                              ELSE ToSet(blk_list[o])
      /\ \A u \in ToSet(tick_list') :
           tick_remain'[u] = ticks \/ (u \in ToSet(tick_list) /\ tick_remain'[u] = tick_remain[u])
  <2>1. Lists /\ prio' = prio
    BY <1>1, InvLists
  <2> QED BY ONLY <1>1, <1>2, <2>1, JoinWait
<1>4. /\ blk_state' = blk_state /\ blk_list' \in [Obj -> Seq(Task)]
      /\ task_state' = [task_state EXCEPT ![active] = "K_PEND"]
      /\ \A o \in Obj : o # s => blk_list'[o] = blk_list[o]
  BY <1>1, <1>3 DEF pend_to_blk_obj, Lists, KernelInv, TypeOK
<1>5. \A u \in AllTask : task_state'[u] = IF u = active THEN "K_PEND" ELSE task_state[u]
  BY <1>4 DEF KernelInv, TypeOK
<1>6. s \notin Mutex
  BY TaskAssumption
<1>7. OwnerInv'
  <2>1. \A m \in Mutex : ToSet(blk_list'[m]) \subseteq ToSet(blk_list[m])
    BY <1>4, <1>6 DEF Obj
  <2>2. \A u \in Task : task_state'[u] = "K_DELETED" <=> task_state[u] = "K_DELETED"
    BY <1>2, <1>5 DEF AllTask
  <2> QED BY <1>1, <1>4, <2>1, <2>2, OwnerKeep
<1>8. DeadInv'
  BY <1>1, <1>2, <1>4 DEF KernelInv, DeadInv
<1>9. NoLostGive'
  BY <1>1, <1>4 DEF KernelInv, NoLostGive, Obj
<1>10. TypeOK'
  BY <1>1, <1>2, <1>3, <1>4 DEF KernelInv, TypeOK, Lists, RqType
<1>11. NotOverdue'
  BY <1>2, <1>3, InTime
<1>12. CsInv'
  BY <1>1, <1>2 DEF CsInv
<1>13. ActiveInv'
  BY <1>1 DEF KernelInv, TypeOK, ActiveInv
<1>14. CallInv'
  BY <1>1, <1>5 DEF KernelInv, TypeOK, CallInv, SuspendStates
<1>15. SliceInRange'
  BY <1>1 DEF KernelInv, SliceInRange
<1> QED BY <1>3, <1>7, <1>8, <1>9, <1>10, <1>11, <1>12, <1>13, <1>14, <1>15 DEF KernelInv, Lists

(* The count of a semaphore is set. *)
LEMMA CountSetInv ==
  ASSUME KernelInv, NEW s \in Sem, NEW n \in SemChoices, krhino_sem_count_set(s, n)
  PROVE  KernelInv'
<1>1. /\ count[s] > 0 \/ blk_list[s] = <<>>
      /\ count' = [count EXCEPT ![s] = n]
      /\ UNCHANGED <<schedVars, rq, tickVars, pendVars, prio, b_prio,
                     suspend_count, mutex_list, sliceVars, callVars, live,
                     mutex_task, owner_nested, chg, cs>>
  BY DEF krhino_sem_count_set
<1>2. Lists'
  BY <1>1, InvLists DEF Lists
<1>3. OwnerInv'
  BY <1>1, OwnerKeep DEF KernelInv, TypeOK
<1>4. DeadInv'
  BY <1>1, DeadKeep
<1>5. NoLostGive'
  <2>1. blk_list[s] = <<>>
    BY <1>1 DEF KernelInv, NoLostGive
  <2> QED BY <1>1, <2>1 DEF KernelInv, TypeOK, NoLostGive
<1>6. TypeOK'
  <2>1. count \in [Sem -> 0 .. SemMax] /\ n \in 0 .. SemMax
    BY NumberAssumption DEF KernelInv, TypeOK
  <2>2. count' \in [Sem -> 0 .. SemMax]
    BY <1>1, <2>1
  <2> QED BY <1>1, <2>2 DEF KernelInv, TypeOK
<1>7. NotOverdue'
  BY <1>1 DEF KernelInv, NotOverdue
<1>8. CsInv'
  BY <1>1 DEF KernelInv, CsInv
<1>9. ActiveInv'
  BY <1>1 DEF KernelInv, ActiveInv, Quiet
<1>10. CallInv' /\ SliceInRange'
  BY <1>1 DEF KernelInv, CallInv, SliceInRange
<1> QED BY <1>2, <1>3, <1>4, <1>5, <1>6, <1>7, <1>8, <1>9, <1>10 DEF KernelInv, Lists

==============================================================================
