--------------------------- MODULE RhinoIpcProofs ---------------------------
(***************************************************************************)
(* The invariants of RhinoIpc for any tasks, priorities, flags, requests,  *)
(* messages and sizes: first those of the waiters and the flags, which do  *)
(* not depend on the bytes of the ring, then those of the ring, and last   *)
(* that the queues implement MsgFifo.                                      *)
(***************************************************************************)
EXTENDS RhinoIpc, RhinoListProofs

-----------------------------------------------------------------------------
(* The inductive invariant: the loop of a critical section is one of three, and a loop
   of event_set looks at a snapshot that holds all the flags there are, has yet to look
   at tasks that wait, and has left behind only tasks the snapshot does not serve. *)
CsOK ==
  /\ cs \in [op : {"none", "del", "event_set", "all_send"}, iter : Seq(Task),
             arg : {None} \cup Msg \cup SUBSET Flag]
  /\ cs.op = "none" => cs = NoCs
  /\ cs.op = "event_set" => obj_type = "RHINO_EVENT_OBJ_TYPE"

KindOK == obj_type = "RHINO_EVENT_OBJ_TYPE" => kind = "event"

SetOK ==
  cs.op = "event_set" =>
    /\ cs.arg \in SUBSET Flag /\ flags \subseteq cs.arg
    /\ Linear(cs.iter) /\ ToSet(cs.iter) \subseteq ToSet(blk_list)
    /\ \A t \in ToSet(blk_list) \ ToSet(cs.iter) : ~Meets(cs.arg, pend_flags[t], pend_option[t])

IpcInv ==
  /\ WaitTypeOK /\ EventTypeOK /\ CsOK /\ KindOK
  /\ WaitersListed /\ SetOK
  /\ NoMissedWakeup /\ AnswerSound /\ NoIdleMessage

-----------------------------------------------------------------------------
(* The part of WaitersListed that holds within critical sections too. *)
Listed ==
  /\ Linear(blk_list) /\ Sorted(blk_list, prio)
  /\ ToSet(blk_list) = {t \in Task : pc[t] = "pend"}
  /\ ticking \subseteq ToSet(blk_list)

(* Priorities are numbers. *)
LEMMA PriosInt == \A p \in Prios : p \in Int
<1>1. Prios \subseteq Nat
  BY WaitAssumption
<1> QED
  BY <1>1

(* So are those of the tasks. *)
LEMMA PrioInt == ASSUME WaitTypeOK PROVE \A t \in Task : prio[t] \in Int
<1>1. prio \in [Task -> Prios]
  BY DEF WaitTypeOK
<1> QED
  BY <1>1, PriosInt

(* A task that begins to wait is listed. *)
LEMMA PendKeeps ==
  ASSUME WaitTypeOK, Listed, NEW t \in Task, pc[t] = "run", pend_to_blk_obj(t),
         UNCHANGED <<kind, obj_type>>
  PROVE  /\ WaitTypeOK' /\ Listed'
         /\ ToSet(blk_list') = ToSet(blk_list) \cup {t}
         /\ pc' = [pc EXCEPT ![t] = "pend"]
<1> USE DEF BlkStates
<1>1. blk_list \in Seq(Task) /\ t \notin ToSet(blk_list)
  BY DEF WaitTypeOK, Listed
<1>2. /\ blk_list' \in Seq(Task)
      /\ ToSet(blk_list') = ToSet(blk_list) \cup {t}
      /\ Linear(blk_list') /\ Sorted(blk_list', prio)
  BY <1>1, PrioInt, SortedInsertProperties DEF pend_to_blk_obj, Listed
<1>3. pc' = [pc EXCEPT ![t] = "pend"] /\ prio' = prio /\ ticking' \subseteq ticking \cup {t}
  BY DEF pend_to_blk_obj
<1>4. WaitTypeOK'
  BY <1>2, <1>3 DEF WaitTypeOK
<1>5. ToSet(blk_list') = {u \in Task : pc'[u] = "pend"}
  BY <1>2, <1>3 DEF WaitTypeOK, Listed
<1>6. Listed'
  BY <1>2, <1>3, <1>5 DEF Listed
<1> QED
  BY <1>2, <1>3, <1>4, <1>6

(* A task that is woken is on no list any more. *)
LEMMA WakeKeeps ==
  ASSUME WaitTypeOK, Listed, NEW t \in ToSet(blk_list), NEW why \in BlkStates, Wake(t, why),
         UNCHANGED <<kind, obj_type>>
  PROVE  /\ WaitTypeOK' /\ Listed'
         /\ ToSet(blk_list') = ToSet(blk_list) \ {t}
         /\ t \in Task /\ pc' = [pc EXCEPT ![t] = why]
<1> USE DEF BlkStates
<1>1. blk_list \in Seq(Task) /\ t \in Task /\ why # "pend"
  BY DEF WaitTypeOK, Listed
<1>2. /\ blk_list' \in Seq(Task)
      /\ ToSet(blk_list') = ToSet(blk_list) \ {t}
      /\ Linear(blk_list') /\ Sorted(blk_list', prio)
  BY <1>1, KlistRm, KlistRmSorted DEF Wake, Listed
<1>3. pc' = [pc EXCEPT ![t] = why] /\ prio' = prio /\ ticking' = ticking \ {t}
  BY DEF Wake
<1>4. WaitTypeOK'
  BY <1>2, <1>3 DEF WaitTypeOK
<1>5. ToSet(blk_list') = {u \in Task : pc'[u] = "pend"}
  BY <1>1, <1>2, <1>3 DEF WaitTypeOK, Listed
<1>6. Listed'
  BY <1>2, <1>3, <1>5 DEF Listed
<1> QED
  BY <1>1, <1>2, <1>3, <1>4, <1>6

(* The key of an entry that is not on a list does not matter. *)
LEMMA SortedOther ==
  ASSUME NEW s \in Seq(Task), NEW key, NEW other,
         \A e \in ToSet(s) : other[e] = key[e], Sorted(s, key)
  PROVE  Sorted(s, other)
<1>1. \A i \in 1 .. Len(s) : s[i] \in ToSet(s)
  BY DEF ToSet
<1> QED
  BY <1>1 DEF Sorted

(* A change of priority moves a task that waits to its new place. *)
LEMMA PrioKeeps ==
  ASSUME WaitTypeOK, Listed, NEW t \in Task, task_pri_change(t), UNCHANGED kind
  PROVE  /\ WaitTypeOK' /\ Listed'
         /\ ToSet(blk_list') = ToSet(blk_list)
         /\ UNCHANGED <<pc, obj_type, cs>>
<1>1. PICK p \in Prios : prio' = [prio EXCEPT ![t] = p]
  BY DEF task_pri_change
<1>2. UNCHANGED <<pc, obj_type, ticking, cs>>
  BY DEF task_pri_change
<1>3. blk_list \in Seq(Task) /\ prio' \in [Task -> Prios] /\ \A u \in Task : prio'[u] \in Int
  <2>1. blk_list \in Seq(Task) /\ prio' \in [Task -> Prios]
    BY <1>1 DEF WaitTypeOK
  <2> QED
    BY <2>1, PriosInt
<1>4. /\ blk_list' \in Seq(Task)
      /\ ToSet(blk_list') = ToSet(blk_list)
      /\ Linear(blk_list') /\ Sorted(blk_list', prio')
  <2>1. CASE pc[t] = "pend"
    <3> DEFINE r == klist_rm(blk_list, t)
    <3>1. t \in ToSet(blk_list) /\ blk_list' = SortedInsert(r, t, prio')
      BY <2>1 DEF task_pri_change, Listed
    <3>2. r \in Seq(Task) /\ ToSet(r) = ToSet(blk_list) \ {t} /\ Linear(r) /\ Sorted(r, prio)
      BY <3>1, <1>3, KlistRm, KlistRmSorted DEF Listed
    <3>3. ToSet(r) \subseteq Task
      BY <3>2 DEF Listed
    <3>4. Sorted(r, prio')
      <4>1. \A e \in ToSet(r) : prio'[e] = prio[e]
        BY <1>1, <3>2, <3>3 DEF WaitTypeOK
      <4> QED
        BY <4>1, <3>2, SortedOther
    <3>5. t \notin ToSet(r) /\ ToSet(r) \cup {t} = ToSet(blk_list)
      BY <3>1, <3>2
    <3> HIDE DEF r
    <3>6. /\ SortedInsert(r, t, prio') \in Seq(Task)
          /\ ToSet(SortedInsert(r, t, prio')) = ToSet(r) \cup {t}
          /\ Linear(SortedInsert(r, t, prio')) /\ Sorted(SortedInsert(r, t, prio'), prio')
      BY <3>2, <3>4, <3>5, <1>3, SortedInsertProperties
    <3> QED
      BY <3>1, <3>5, <3>6
  <2>2. CASE pc[t] # "pend"
    <3>1. blk_list' = blk_list
      BY <2>2 DEF task_pri_change
    <3>2. \A e \in ToSet(blk_list) : prio'[e] = prio[e]
      BY <1>1, <2>2 DEF WaitTypeOK, Listed
    <3> QED
      BY <3>1, <3>2, <1>3, SortedOther DEF Listed
  <2> QED
    BY <2>1, <2>2
<1>5. WaitTypeOK'
  BY <1>2, <1>3, <1>4 DEF WaitTypeOK
<1>6. Listed'
  BY <1>2, <1>4 DEF Listed
<1> QED
  BY <1>2, <1>4, <1>5, <1>6

-----------------------------------------------------------------------------
(* A critical section is quiet just when it has no loop. *)
LEMMA QuietOp == ASSUME CsOK PROVE Quiet <=> cs.op = "none"
<1>1. NoCs.op = "none"
  BY DEF NoCs
<1> QED
  BY <1>1 DEF CsOK, Quiet

(* WaitersListed is Listed and that nobody waits for an object that does not exist. *)
LEMMA ListedWaiters ==
  /\ WaitersListed => Listed
  /\ Listed /\ (Quiet /\ obj_type = "RHINO_OBJ_TYPE_NONE" => blk_list = <<>>) => WaitersListed
BY DEF WaitersListed, Listed

(* A list without entries is empty. *)
LEMMA NobodyListed == ASSUME WaitTypeOK PROVE blk_list = <<>> <=> ToSet(blk_list) = {}
<1>1. blk_list \in Seq(Task)
  BY DEF WaitTypeOK
<1> QED
  BY <1>1, EntrySet

(* A request that flags do not meet is not met by fewer. *)
LEMMA FewerMeet ==
  ASSUME NEW now, NEW less, less \subseteq now, NEW f, NEW opt, ~Meets(now, f, opt)
  PROVE  ~Meets(less, f, opt)
BY DEF Meets

(* Steps that wake a waiter, except those of event_set. *)
LEMMA WokenKeeps ==
  ASSUME IpcInv, cs.op # "event_set", NEW t \in ToSet(blk_list), NEW why \in BlkStates,
         why # "BLK_FINISH" \/ kind # "event", Wake(t, why),
         UNCHANGED <<kind, obj_type, cs, eventVars, ring, cur_num>>
  PROVE  IpcInv'
<1> USE DEF IpcInv
<1>1. /\ WaitTypeOK' /\ Listed' /\ t \in Task
      /\ ToSet(blk_list') = ToSet(blk_list) \ {t}
      /\ pc' = [pc EXCEPT ![t] = why]
  BY ListedWaiters, WakeKeeps
<1>2. blk_list' # <<>> => blk_list # <<>>
  BY <1>1, NobodyListed
<1>3. EventTypeOK' /\ CsOK' /\ KindOK' /\ SetOK'
  BY DEF EventTypeOK, CsOK, KindOK, SetOK, eventVars
<1>4. WaitersListed'
  BY <1>1, <1>2 DEF WaitersListed, Listed, Quiet
<1>5. \A u \in Task : pc'[u] = "pend" => pc[u] = "pend"
  BY <1>1 DEF WaitTypeOK, BlkStates
<1>6. NoMissedWakeup'
  BY <1>5 DEF NoMissedWakeup, IsEvent, Quiet, eventVars
<1>7. AnswerSound'
  <2>1. \A u \in Task : kind = "event" /\ pc'[u] = "BLK_FINISH" => pc[u] = "BLK_FINISH"
    BY <1>1 DEF WaitTypeOK
  <2> QED
    BY <2>1 DEF AnswerSound, eventVars
<1>8. NoIdleMessage'
  BY <1>2 DEF NoIdleMessage, IsQueue, QueueType, Quiet, Empty, ringbuf_is_empty
<1> QED
  BY <1>1, <1>3, <1>4, <1>6, <1>7, <1>8

(* Time, aborted waits and changes of priority. *)
LEMMA WaitNextKeeps ==
  ASSUME IpcInv, WaitNext, UNCHANGED <<kind, eventVars, queueVars>>
  PROVE  IpcInv'
<1> USE DEF IpcInv
<1>1. PICK t \in Task : Timeout(t) \/ krhino_task_wait_abort(t) \/ task_pri_change(t)
  BY DEF WaitNext
<1>2. Quiet /\ cs.op # "event_set"
  BY <1>1, QuietOp DEF Timeout, krhino_task_wait_abort, task_pri_change
<1>3. CASE Timeout(t)
  <2>1. t \in ToSet(blk_list) /\ Wake(t, "BLK_TIMEOUT") /\ UNCHANGED <<obj_type, cs>>
    BY <1>3 DEF Timeout, WaitersListed
  <2> QED
    BY <1>2, <2>1, WokenKeeps DEF BlkStates, queueVars
<1>4. CASE krhino_task_wait_abort(t)
  <2>1. t \in ToSet(blk_list) /\ Wake(t, "BLK_ABORT") /\ UNCHANGED <<obj_type, cs>>
    BY <1>4 DEF krhino_task_wait_abort, WaitersListed
  <2> QED
    BY <1>2, <2>1, WokenKeeps DEF BlkStates, queueVars
<1>5. CASE task_pri_change(t)
  <2>1. /\ WaitTypeOK' /\ Listed' /\ UNCHANGED <<pc, obj_type, cs>>
        /\ ToSet(blk_list') = ToSet(blk_list)
    BY <1>5, ListedWaiters, PrioKeeps
  <2>2. blk_list' # <<>> <=> blk_list # <<>>
    <3>1. blk_list \in Seq(Task) /\ blk_list' \in Seq(Task)
      BY <2>1 DEF WaitTypeOK
    <3> QED
      BY <2>1, <3>1, EntrySet
  <2>3. EventTypeOK' /\ CsOK' /\ KindOK' /\ SetOK'
    BY <1>2, <2>1 DEF EventTypeOK, CsOK, KindOK, SetOK, eventVars
  <2>4. WaitersListed'
    BY <2>1, <2>2 DEF WaitersListed, Listed, Quiet
  <2>5. NoMissedWakeup' /\ AnswerSound'
    BY <2>1 DEF NoMissedWakeup, AnswerSound, IsEvent, Quiet, eventVars
  <2>6. NoIdleMessage'
    BY <2>1, <2>2 DEF NoIdleMessage, IsQueue, QueueType, Quiet, Empty, ringbuf_is_empty, queueVars
  <2> QED
    BY <2>1, <2>3, <2>4, <2>5, <2>6
<1> QED
  BY <1>1, <1>3, <1>4, <1>5

(* The deletion of an object, whose content is discarded at the end. *)
LEMMA DelBeginKeeps ==
  ASSUME IpcInv, DelBegin, UNCHANGED <<kind, eventVars, queueVars>>
  PROVE  IpcInv'
<1> USE DEF IpcInv
<1>1. /\ obj_type' = "RHINO_OBJ_TYPE_NONE"
      /\ cs' = [op |-> "del", iter |-> <<>>, arg |-> None]
      /\ UNCHANGED <<blk_list, prio, pc, ticking>>
  BY DEF DelBegin, Loop
<1>2. cs' # NoCs
  BY <1>1 DEF NoCs
<1>3. WaitTypeOK' /\ EventTypeOK' /\ KindOK'
  BY <1>1 DEF WaitTypeOK, EventTypeOK, KindOK, eventVars
<1>4. CsOK' /\ SetOK'
  BY <1>1 DEF CsOK, SetOK
<1>5. WaitersListed' /\ NoMissedWakeup' /\ NoIdleMessage'
  BY <1>1, <1>2 DEF WaitersListed, NoMissedWakeup, NoIdleMessage, IsEvent, IsQueue, Quiet
<1>6. AnswerSound'
  BY <1>1 DEF AnswerSound, eventVars
<1> QED
  BY <1>3, <1>4, <1>5, <1>6

(* Its waiters are woken. *)
LEMMA DelWakeKeeps ==
  ASSUME IpcInv, DelWake, UNCHANGED <<kind, eventVars, queueVars>>
  PROVE  IpcInv'
<1>1. blk_list \in Seq(Task) /\ blk_list # <<>> /\ cs.op # "event_set"
  BY DEF IpcInv, WaitTypeOK, DelWake
<1>2. Head(blk_list) \in ToSet(blk_list)
  BY <1>1, FirstEntry
<1> QED
  BY <1>1, <1>2, WokenKeeps DEF DelWake, BlkStates, queueVars

(* When nobody waits any more, it is gone. *)
LEMMA DelEndKeeps ==
  ASSUME IpcInv, DelEnd, flags' \in SUBSET Flag,
         UNCHANGED <<kind, pend_flags, pend_option, actl_flags>>
  PROVE  IpcInv'
<1> USE DEF IpcInv
<1>1. /\ blk_list = <<>> /\ cs' = NoCs
      /\ UNCHANGED <<obj_type, blk_list, prio, pc, ticking>>
  BY DEF DelEnd
<1>2. WaitTypeOK' /\ EventTypeOK' /\ KindOK' /\ WaitersListed'
  BY <1>1 DEF WaitTypeOK, EventTypeOK, KindOK, WaitersListed
<1>3. CsOK' /\ SetOK'
  <2>1. cs' = [op |-> "none", iter |-> <<>>, arg |-> None]
    BY <1>1 DEF NoCs
  <2> QED
    BY <1>1, <2>1 DEF CsOK, SetOK
<1>4. \A t \in Task : pc'[t] # "pend"
  BY <1>1, NobodyListed DEF WaitersListed
<1>5. NoMissedWakeup' /\ NoIdleMessage'
  BY <1>1, <1>4 DEF NoMissedWakeup, NoIdleMessage
<1>6. AnswerSound'
  BY <1>1 DEF AnswerSound
<1> QED
  BY <1>2, <1>3, <1>5, <1>6

(* A new object has no waiters. *)
LEMMA CreateKeeps ==
  ASSUME IpcInv, NEW type, Create(type),
         type = IF kind = "event" THEN "RHINO_EVENT_OBJ_TYPE" ELSE QueueType,
         flags' \in SUBSET Flag, UNCHANGED <<kind, pend_flags, pend_option, actl_flags>>
  PROVE  IpcInv'
<1> USE DEF IpcInv
<1>1. /\ Quiet /\ obj_type = "RHINO_OBJ_TYPE_NONE" /\ obj_type' = type /\ blk_list' = <<>>
      /\ UNCHANGED <<prio, pc, ticking, cs>>
  BY DEF Create
<1>2. blk_list = <<>>
  BY <1>1 DEF WaitersListed
<1>3. type \in {"RHINO_EVENT_OBJ_TYPE", "RHINO_QUEUE_OBJ_TYPE", "RHINO_BUF_QUEUE_OBJ_TYPE"}
  BY DEF QueueType
<1>4. WaitTypeOK' /\ EventTypeOK'
  BY <1>1, <1>2, <1>3 DEF WaitTypeOK, EventTypeOK
<1>5. KindOK' /\ WaitersListed'
  BY <1>1, <1>2, <1>3 DEF KindOK, WaitersListed, QueueType
<1>6. CsOK' /\ SetOK'
  <2>1. cs.op = "none"
    BY <1>1, QuietOp
  <2> QED
    BY <1>1, <2>1 DEF CsOK, SetOK
<1>7. \A t \in Task : pc'[t] # "pend"
  BY <1>1, <1>2, NobodyListed DEF WaitersListed
<1>8. NoMissedWakeup' /\ NoIdleMessage'
  BY <1>1, <1>7 DEF NoMissedWakeup, NoIdleMessage
<1>9. AnswerSound'
  BY <1>1 DEF AnswerSound
<1> QED
  BY <1>4, <1>5, <1>6, <1>8, <1>9

-----------------------------------------------------------------------------
(* krhino_event_get that finds its flags, and event_set with RHINO_AND: there are no
   more flags than before. *)
LEMMA FewerFlagsKeep ==
  ASSUME IpcInv, IsEvent, flags' \subseteq flags, actl_flags' \in [Task -> SUBSET Flag],
         \A t \in Task : pc[t] = "BLK_FINISH" => actl_flags'[t] = actl_flags[t],
         UNCHANGED <<kind, waitVars, pend_flags, pend_option>>
  PROVE  IpcInv'
<1> USE DEF IpcInv, waitVars
<1>1. Quiet /\ cs.op = "none" /\ kind = "event"
  BY QuietOp DEF IsEvent, KindOK
<1>2. WaitTypeOK' /\ EventTypeOK' /\ CsOK' /\ KindOK' /\ WaitersListed'
  BY DEF WaitTypeOK, EventTypeOK, CsOK, KindOK, WaitersListed, Quiet
<1>3. SetOK' /\ NoIdleMessage'
  BY <1>1 DEF SetOK, NoIdleMessage, IsQueue
<1>4. NoMissedWakeup'
  <2> SUFFICES ASSUME NEW t \in Task, pc[t] = "pend"
               PROVE  ~Meets(flags', pend_flags[t], pend_option[t])
    BY DEF NoMissedWakeup
  <2>1. ~Meets(flags, pend_flags[t], pend_option[t])
    BY DEF NoMissedWakeup
  <2> QED
    BY <2>1, FewerMeet
<1>5. AnswerSound'
  BY DEF AnswerSound
<1> QED
  BY <1>2, <1>3, <1>4, <1>5

(* krhino_event_get that finds its flags. *)
LEMMA GetNowKeeps ==
  ASSUME IpcInv, NEW t \in Task, NEW f, NEW opt, GetNow(t, f, opt), UNCHANGED <<kind, queueVars>>
  PROVE  IpcInv'
<1>1. /\ IsEvent /\ flags' \subseteq flags
      /\ UNCHANGED <<kind, waitVars, pend_flags, pend_option>>
  BY DEF GetNow, Cleared
<1>2. /\ actl_flags' \in [Task -> SUBSET Flag]
      /\ \A u \in Task : pc[u] = "BLK_FINISH" => actl_flags'[u] = actl_flags[u]
  BY DEF GetNow, IpcInv, EventTypeOK
<1> QED
  BY <1>1, <1>2, FewerFlagsKeep

(* event_set that clears flags. *)
LEMMA SetAndKeeps ==
  ASSUME IpcInv, NEW f, SetAnd(f), UNCHANGED <<kind, queueVars>>
  PROVE  IpcInv'
<1>1. /\ IsEvent /\ flags' \subseteq flags
      /\ UNCHANGED <<kind, waitVars, pend_flags, pend_option, actl_flags>>
  BY DEF SetAnd
<1>2. actl_flags' \in [Task -> SUBSET Flag]
  BY <1>1 DEF IpcInv, EventTypeOK
<1> QED
  BY <1>1, <1>2, FewerFlagsKeep

(* A task that begins to wait for flags that are not there. *)
LEMMA GetWaitKeeps ==
  ASSUME IpcInv, NEW t \in Task, NEW f \in SUBSET Flag, NEW opt \in Options,
         GetWait(t, f, opt), UNCHANGED <<kind, queueVars>>
  PROVE  IpcInv'
<1> USE DEF IpcInv
<1>1. /\ IsEvent /\ pc[t] = "run" /\ ~Meets(flags, f, opt) /\ pend_to_blk_obj(t)
      /\ pend_flags' = [pend_flags EXCEPT ![t] = f]
      /\ pend_option' = [pend_option EXCEPT ![t] = opt]
      /\ actl_flags' = [actl_flags EXCEPT ![t] = {}]
      /\ UNCHANGED <<obj_type, cs, flags>>
  BY DEF GetWait
<1>2. /\ WaitTypeOK' /\ Listed'
      /\ ToSet(blk_list') = ToSet(blk_list) \cup {t}
      /\ pc' = [pc EXCEPT ![t] = "pend"]
  BY <1>1, ListedWaiters, PendKeeps
<1>3. Quiet /\ cs.op = "none" /\ kind = "event" /\ obj_type = "RHINO_EVENT_OBJ_TYPE"
  BY <1>1, QuietOp DEF IsEvent, KindOK
<1>4. EventTypeOK'
  BY <1>1 DEF EventTypeOK
<1>5. CsOK' /\ KindOK' /\ SetOK' /\ NoIdleMessage'
  BY <1>1, <1>3 DEF CsOK, KindOK, SetOK, NoIdleMessage, IsQueue
<1>6. WaitersListed'
  BY <1>1, <1>2, <1>3 DEF WaitersListed, Listed
<1>7. NoMissedWakeup'
  BY <1>1, <1>2 DEF NoMissedWakeup, WaitTypeOK, EventTypeOK
<1>8. AnswerSound'
  BY <1>1, <1>2, <1>3 DEF AnswerSound, WaitTypeOK, EventTypeOK
<1> QED
  BY <1>2, <1>4, <1>5, <1>6, <1>7, <1>8

(* A task that runs again. *)
LEMMA EndKeeps ==
  ASSUME IpcInv, NEW t \in Task, pend_state_end_proc(t),
         UNCHANGED <<kind, eventVars, ring, cur_num>>
  PROVE  IpcInv'
<1> USE DEF IpcInv
<1>1. /\ Quiet /\ pc[t] \in BlkStates /\ pc' = [pc EXCEPT ![t] = "run"]
      /\ UNCHANGED <<obj_type, blk_list, prio, ticking, cs>>
  BY DEF pend_state_end_proc
<1>2. WaitTypeOK' /\ EventTypeOK'
  BY <1>1 DEF WaitTypeOK, EventTypeOK, eventVars
<1>3. CsOK' /\ KindOK' /\ SetOK'
  BY <1>1 DEF CsOK, KindOK, SetOK, eventVars
<1>4. \A u \in Task : /\ pc'[u] = "pend" <=> pc[u] = "pend"
                      /\ pc'[u] = "BLK_FINISH" => pc[u] = "BLK_FINISH"
  BY <1>1 DEF WaitTypeOK, BlkStates
<1>5. WaitersListed'
  BY <1>1, <1>4 DEF WaitersListed, Quiet
<1>6. NoMissedWakeup' /\ AnswerSound'
  BY <1>1, <1>4 DEF NoMissedWakeup, AnswerSound, IsEvent, Quiet, eventVars
<1>7. NoIdleMessage'
  BY <1>1 DEF NoIdleMessage, IsQueue, QueueType, Quiet, Empty, ringbuf_is_empty
<1> QED
  BY <1>2, <1>3, <1>5, <1>6, <1>7

-----------------------------------------------------------------------------
(* event_set with RHINO_OR takes a snapshot of the flags and begins its loop. *)
LEMMA SetOrKeeps ==
  ASSUME IpcInv, NEW f \in SUBSET Flag, SetOr(f), UNCHANGED <<kind, queueVars>>
  PROVE  IpcInv'
<1> USE DEF IpcInv
<1>1. /\ IsEvent /\ flags' = flags \cup f
      /\ cs' = [op |-> "event_set", iter |-> blk_list, arg |-> flags']
      /\ UNCHANGED <<obj_type, blk_list, prio, pc, ticking, pend_flags, pend_option, actl_flags>>
  BY DEF SetOr, Loop
<1>2. cs' # NoCs
  BY <1>1 DEF NoCs
<1>3. WaitTypeOK' /\ EventTypeOK' /\ KindOK'
  BY <1>1 DEF WaitTypeOK, EventTypeOK, KindOK
<1>4. CsOK'
  BY <1>1 DEF CsOK, WaitTypeOK, EventTypeOK, IsEvent
<1>5. SetOK'
  BY <1>1 DEF SetOK, WaitersListed, EventTypeOK
<1>6. WaitersListed' /\ NoMissedWakeup' /\ NoIdleMessage'
  BY <1>1, <1>2 DEF WaitersListed, NoMissedWakeup, NoIdleMessage, IsEvent, IsQueue, Quiet
<1>7. AnswerSound'
  BY <1>1 DEF AnswerSound
<1> QED
  BY <1>3, <1>4, <1>5, <1>6, <1>7

(* The loop looks at its next waiter: the snapshot serves it, or leaves it behind. *)
LEMMA SetNextKeeps ==
  ASSUME IpcInv, SetNext, UNCHANGED <<kind, queueVars>>
  PROVE  IpcInv'
<1> USE DEF IpcInv
<1> DEFINE t == Head(cs.iter)
           f == pend_flags[t]
           opt == pend_option[t]
<1>1. /\ cs.op = "event_set" /\ cs.iter # <<>> /\ cs' = [cs EXCEPT !.iter = Tail(@)]
      /\ UNCHANGED <<obj_type, pend_flags, pend_option>>
  BY DEF SetNext
<1>2. /\ cs.iter \in Seq(Task) /\ Linear(cs.iter)
      /\ cs.arg \in SUBSET Flag /\ flags \subseteq cs.arg
      /\ ToSet(cs.iter) \subseteq ToSet(blk_list)
      /\ obj_type = "RHINO_EVENT_OBJ_TYPE" /\ kind = "event"
  BY <1>1 DEF CsOK, SetOK, KindOK
<1>3. /\ t \in Task /\ t \in ToSet(cs.iter) /\ t \in ToSet(blk_list)
      /\ Tail(cs.iter) \in Seq(Task) /\ Linear(Tail(cs.iter))
      /\ ToSet(Tail(cs.iter)) = ToSet(cs.iter) \ {t}
  BY <1>1, <1>2, FirstEntry
<1>4. /\ cs'.op = "event_set" /\ cs'.arg = cs.arg /\ cs'.iter = Tail(cs.iter)
      /\ cs' \in [op : {"none", "del", "event_set", "all_send"}, iter : Seq(Task),
                  arg : {None} \cup Msg \cup SUBSET Flag]
  BY <1>1, <1>3 DEF CsOK
<1>5. CsOK' /\ KindOK' /\ cs' # NoCs
  BY <1>1, <1>2, <1>4 DEF CsOK, KindOK, NoCs
<1>6. NoMissedWakeup' /\ NoIdleMessage'
  BY <1>5 DEF NoMissedWakeup, NoIdleMessage, IsEvent, IsQueue, Quiet
<1>7. CASE /\ Meets(cs.arg, f, opt) /\ Wake(t, "BLK_FINISH")
           /\ actl_flags' = [actl_flags EXCEPT ![t] = cs.arg]
           /\ flags' = Cleared(flags, f, opt)
  <2>1. /\ WaitTypeOK' /\ Listed'
        /\ ToSet(blk_list') = ToSet(blk_list) \ {t}
        /\ pc' = [pc EXCEPT ![t] = "BLK_FINISH"]
    BY <1>1, <1>3, <1>7, ListedWaiters, WakeKeeps DEF BlkStates
  <2>2. flags' \subseteq flags
    BY <1>7 DEF Cleared
  <2>3. EventTypeOK'
    BY <1>1, <1>2, <1>7, <2>2 DEF EventTypeOK
  <2>4. WaitersListed'
    BY <1>5, <2>1 DEF WaitersListed, Listed, Quiet
  <2>5. SetOK'
    <3>1. flags' \subseteq cs.arg /\ ToSet(Tail(cs.iter)) \subseteq ToSet(blk_list')
      BY <1>2, <1>3, <2>1, <2>2
    <3>2. ToSet(blk_list') \ ToSet(Tail(cs.iter)) \subseteq ToSet(blk_list) \ ToSet(cs.iter)
      BY <1>3, <2>1
    <3>3. \A u \in ToSet(blk_list') \ ToSet(Tail(cs.iter)) :
             ~Meets(cs.arg, pend_flags[u], pend_option[u])
      BY <1>1, <3>2 DEF SetOK
    <3> QED
      BY <1>1, <1>2, <1>3, <1>4, <3>1, <3>3 DEF SetOK
  <2>6. AnswerSound'
    BY <1>1, <1>3, <1>7, <2>1 DEF AnswerSound, WaitTypeOK, EventTypeOK
  <2> QED
    BY <1>5, <1>6, <2>1, <2>3, <2>4, <2>5, <2>6
<1>8. CASE /\ ~Meets(cs.arg, f, opt)
           /\ UNCHANGED <<actl_flags, blk_list, prio, pc, ticking, flags>>
  <2>1. WaitTypeOK' /\ EventTypeOK'
    BY <1>1, <1>8 DEF WaitTypeOK, EventTypeOK
  <2>2. WaitersListed' /\ AnswerSound'
    BY <1>1, <1>5, <1>8 DEF WaitersListed, AnswerSound, Quiet
  <2>3. SetOK'
    <3>1. \A u \in ToSet(blk_list) \ ToSet(Tail(cs.iter)) :
             ~Meets(cs.arg, pend_flags[u], pend_option[u])
      BY <1>1, <1>3, <1>8 DEF SetOK
    <3> QED
      BY <1>1, <1>2, <1>3, <1>4, <1>8, <3>1 DEF SetOK
  <2> QED
    BY <1>5, <1>6, <2>1, <2>2, <2>3
<1> QED
  BY <1>7, <1>8 DEF SetNext

(* The loop has looked at every waiter: none is left that the flags would serve. *)
LEMMA SetEndKeeps ==
  ASSUME IpcInv, SetEnd, UNCHANGED <<kind, queueVars>>
  PROVE  IpcInv'
<1> USE DEF IpcInv
<1>1. /\ cs.op = "event_set" /\ cs.iter = <<>> /\ cs' = [op |-> "none", iter |-> <<>>, arg |-> None]
      /\ UNCHANGED <<obj_type, blk_list, prio, pc, ticking, flags, pend_flags, pend_option, actl_flags>>
  BY DEF SetEnd, NoCs, eventVars
<1>2. obj_type = "RHINO_EVENT_OBJ_TYPE" /\ kind = "event" /\ flags \subseteq cs.arg
  BY <1>1 DEF CsOK, KindOK, SetOK
<1>3. WaitTypeOK' /\ EventTypeOK' /\ KindOK' /\ AnswerSound'
  BY <1>1 DEF WaitTypeOK, EventTypeOK, KindOK, AnswerSound
<1>4. CsOK' /\ SetOK'
  BY <1>1 DEF CsOK, SetOK, NoCs
<1>5. WaitersListed' /\ NoIdleMessage'
  BY <1>1, <1>2 DEF WaitersListed, NoIdleMessage, IsQueue
<1>6. NoMissedWakeup'
  <2> SUFFICES ASSUME NEW t \in Task, pc[t] = "pend"
               PROVE  ~Meets(flags, pend_flags[t], pend_option[t])
    BY <1>1 DEF NoMissedWakeup
  <2>1. t \in ToSet(blk_list)
    BY DEF WaitersListed
  <2>2. ToSet(cs.iter) = {}
    BY <1>1, EntrySet DEF CsOK
  <2>3. ~Meets(cs.arg, pend_flags[t], pend_option[t])
    BY <1>1, <2>1, <2>2 DEF SetOK
  <2> QED
    BY <1>2, <2>3, FewerMeet
<1> QED
  BY <1>3, <1>4, <1>5, <1>6

(* Every step of an event. *)
LEMMA EventKeeps ==
  ASSUME IpcInv, kind = "event", EventNext, UNCHANGED <<kind, queueVars>>
  PROVE  IpcInv'
<1>1. CASE krhino_event_create
  BY <1>1, CreateKeeps DEF krhino_event_create
<1>2. CASE krhino_event_del
  <2>1. CASE DelBegin /\ UNCHANGED eventVars
    BY <2>1, DelBeginKeeps
  <2>2. CASE DelWake /\ UNCHANGED eventVars
    BY <2>2, DelWakeKeeps
  <2>3. CASE DelEnd /\ flags' = {} /\ UNCHANGED <<pend_flags, pend_option, actl_flags>>
    BY <2>3, DelEndKeeps
  <2> QED
    BY <1>2, <2>1, <2>2, <2>3 DEF krhino_event_del
<1>3. CASE krhino_event_set
  BY <1>3, SetAndKeeps, SetOrKeeps, SetNextKeeps, SetEndKeeps DEF krhino_event_set
<1>4. CASE \E t \in Task : krhino_event_get(t)
  <2>1. PICK t \in Task : krhino_event_get(t)
    BY <1>4
  <2>2. CASE \E r \in Requests : GetNow(t, r[1], r[2])
    BY <2>2, GetNowKeeps
  <2>3. CASE \E r \in Requests : GetWait(t, r[1], r[2])
    <3>1. PICK r \in Requests : GetWait(t, r[1], r[2])
      BY <2>3
    <3>2. r[1] \in SUBSET Flag /\ r[2] \in Options
      BY RequestsAssumption
    <3> QED
      BY <3>1, <3>2, GetWaitKeeps
  <2>4. CASE GetEnd(t)
    BY <2>4, EndKeeps DEF GetEnd, queueVars
  <2> QED
    BY <2>1, <2>2, <2>3, <2>4 DEF krhino_event_get
<1>5. CASE WaitNext /\ UNCHANGED eventVars
  BY <1>5, WaitNextKeeps
<1> QED
  BY <1>1, <1>2, <1>3, <1>4, <1>5 DEF EventNext

-----------------------------------------------------------------------------
(* Steps of a queue that change nothing but its content, when nobody waits or when it
   is empty afterwards. *)
LEMMA ContentKeeps ==
  ASSUME IpcInv, IsQueue, blk_list # <<>> => Empty', UNCHANGED <<kind, waitVars, eventVars>>
  PROVE  IpcInv'
<1> USE DEF IpcInv
<1>1. kind # "event"
  BY DEF IsQueue
<1>2. WaitTypeOK' /\ EventTypeOK' /\ CsOK' /\ KindOK' /\ WaitersListed'
  BY DEF WaitTypeOK, EventTypeOK, CsOK, KindOK, WaitersListed, Quiet, waitVars, eventVars
<1>3. SetOK' /\ NoMissedWakeup' /\ AnswerSound'
  BY <1>1 DEF waitVars, eventVars, SetOK, NoMissedWakeup, AnswerSound, IsEvent, Quiet
<1>4. NoIdleMessage'
  BY DEF NoIdleMessage, waitVars
<1> QED
  BY <1>2, <1>3, <1>4

(* Steps of a queue that begin or end the loop of a critical section. *)
LEMMA LoopKeeps ==
  ASSUME IpcInv, kind # "event", UNCHANGED <<kind, obj_type, blk_list, prio, pc, ticking, eventVars>>,
         CsOK', Quiet' => blk_list = <<>>
  PROVE  IpcInv'
<1> USE DEF IpcInv
<1>1. WaitTypeOK' /\ EventTypeOK' /\ KindOK' /\ WaitersListed'
  BY DEF WaitTypeOK, EventTypeOK, KindOK, WaitersListed, eventVars
<1>2. SetOK' /\ NoMissedWakeup' /\ AnswerSound'
  BY <1>1 DEF CsOK, KindOK, SetOK, NoMissedWakeup, AnswerSound, IsEvent
<1>3. NoIdleMessage'
  BY DEF NoIdleMessage, IsQueue
<1> QED
  BY <1>1, <1>2, <1>3

(* Messages are sent: to the ring, to a waiter, or to all of them. *)
LEMMA SendKeeps ==
  ASSUME IpcInv, kind # "event", NEW m \in Sendable, SendPush(m) \/ SendWake(m) \/ SendAll(m),
         UNCHANGED <<kind, eventVars>>
  PROVE  IpcInv'
<1> USE DEF IpcInv
<1>1. CASE SendPush(m)
  BY <1>1, ContentKeeps DEF SendPush
<1>2. CASE SendWake(m)
  <2>1. /\ blk_list # <<>> /\ Wake(Head(blk_list), "BLK_FINISH")
        /\ UNCHANGED <<obj_type, ring, cur_num, cs>>
    BY <1>2 DEF SendWake, Hand
  <2>2. cs.op # "event_set"
    BY <1>2, QuietOp DEF SendWake, IsQueue
  <2>3. Head(blk_list) \in ToSet(blk_list)
    BY <2>1, FirstEntry DEF WaitTypeOK
  <2> QED
    BY <2>1, <2>2, <2>3, WokenKeeps DEF BlkStates
<1>3. CASE SendAll(m)
  <2>1. /\ cs' = [op |-> "all_send", iter |-> <<>>, arg |-> m]
        /\ UNCHANGED <<obj_type, blk_list, prio, pc, ticking>>
    BY <1>3 DEF SendAll, Loop
  <2>2. m \in Msg
    BY DEF Sendable
  <2>3. CsOK' /\ ~Quiet'
    BY <2>1, <2>2 DEF CsOK, Quiet, NoCs
  <2> QED
    BY <2>1, <2>3, LoopKeeps
<1> QED
  BY <1>1, <1>2, <1>3

(* krhino_queue_all_send goes on, and ends. *)
LEMMA SendAllKeeps ==
  ASSUME IpcInv, kind # "event", SendAllNext \/ SendAllEnd, UNCHANGED <<kind, eventVars>>
  PROVE  IpcInv'
<1> USE DEF IpcInv
<1>1. CASE SendAllNext
  <2>1. /\ cs.op # "event_set" /\ blk_list # <<>> /\ Wake(Head(blk_list), "BLK_FINISH")
        /\ UNCHANGED <<obj_type, ring, cur_num, cs>>
    BY <1>1 DEF SendAllNext, Hand
  <2>2. Head(blk_list) \in ToSet(blk_list)
    BY <2>1, FirstEntry DEF WaitTypeOK
  <2> QED
    BY <2>1, <2>2, WokenKeeps DEF BlkStates
<1>2. CASE SendAllEnd
  <2>1. /\ cs' = [op |-> "none", iter |-> <<>>, arg |-> None] /\ blk_list = <<>>
        /\ UNCHANGED <<obj_type, blk_list, prio, pc, ticking>>
    BY <1>2 DEF SendAllEnd, NoCs
  <2>2. CsOK'
    BY <2>1 DEF CsOK, NoCs
  <2> QED
    BY <2>1, <2>2, LoopKeeps
<1> QED
  BY <1>1, <1>2

(* Messages are received, or waited for. *)
LEMMA RecvKeeps ==
  ASSUME IpcInv, kind # "event", NEW t \in Task,
         RecvPop(t) \/ RecvNoWait(t) \/ RecvWait(t) \/ RecvEnd(t), UNCHANGED <<kind, eventVars>>
  PROVE  IpcInv'
<1> USE DEF IpcInv
<1>1. CASE RecvPop(t)
  <2>1. IsQueue /\ blk_list = <<>> /\ UNCHANGED waitVars
    BY <1>1 DEF RecvPop, NoIdleMessage
  <2> QED
    BY <2>1, ContentKeeps
<1>2. CASE RecvNoWait(t)
  <2>1. IsQueue /\ Empty /\ UNCHANGED <<waitVars, ring, cur_num>>
    BY <1>2 DEF RecvNoWait
  <2>2. Empty'
    BY <2>1 DEF Empty, ringbuf_is_empty
  <2> QED
    BY <2>1, <2>2, ContentKeeps
<1>3. CASE RecvWait(t)
  <2>1. /\ IsQueue /\ pc[t] = "run" /\ Empty /\ pend_to_blk_obj(t)
        /\ UNCHANGED <<obj_type, cs, ring, cur_num>>
    BY <1>3 DEF RecvWait
  <2>2. WaitTypeOK' /\ Listed'
    BY <2>1, ListedWaiters, PendKeeps
  <2>3. EventTypeOK' /\ CsOK' /\ KindOK'
    BY <2>1 DEF EventTypeOK, CsOK, KindOK, eventVars
  <2>4. WaitersListed'
    BY <2>1, <2>2 DEF WaitersListed, Listed, IsQueue, QueueType
  <2>5. SetOK' /\ NoMissedWakeup' /\ AnswerSound'
    BY <2>3 DEF CsOK, KindOK, SetOK, NoMissedWakeup, AnswerSound, IsEvent
  <2>6. NoIdleMessage'
    BY <2>1 DEF NoIdleMessage, Empty, ringbuf_is_empty
  <2> QED
    BY <2>2, <2>3, <2>4, <2>5, <2>6
<1>4. CASE RecvEnd(t)
  BY <1>4, EndKeeps DEF RecvEnd
<1> QED
  BY <1>1, <1>2, <1>3, <1>4

(* Every step of a queue. *)
LEMMA QueueKeeps ==
  ASSUME IpcInv, kind # "event", QueueNext, UNCHANGED <<kind, eventVars>>
  PROVE  IpcInv'
<1>1. flags' \in SUBSET Flag /\ UNCHANGED <<pend_flags, pend_option, actl_flags>>
  BY DEF IpcInv, EventTypeOK, eventVars
<1>2. CASE krhino_queue_create
  BY <1>1, <1>2, CreateKeeps DEF krhino_queue_create
<1>3. CASE krhino_queue_del
  <2>1. CASE (DelBegin \/ DelWake) /\ UNCHANGED queueVars
    BY <2>1, DelBeginKeeps, DelWakeKeeps
  <2>2. CASE DelEnd
    BY <1>1, <2>2, DelEndKeeps
  <2> QED
    BY <1>3, <2>1, <2>2 DEF krhino_queue_del
<1>4. CASE krhino_queue_flush
  <2>1. IsQueue /\ ring' = ringbuf_reset /\ cur_num' = 0 /\ UNCHANGED waitVars
    BY <1>4 DEF krhino_queue_flush
  <2>2. Empty'
    BY <2>1 DEF Empty, ringbuf_is_empty, ringbuf_reset
  <2> QED
    BY <2>1, <2>2, ContentKeeps
<1>5. CASE \E m \in Sendable : SendPush(m) \/ SendWake(m) \/ SendAll(m)
  BY <1>5, SendKeeps
<1>6. CASE SendAllNext \/ SendAllEnd
  BY <1>6, SendAllKeeps
<1>7. CASE \E t \in Task : RecvPop(t) \/ RecvNoWait(t) \/ RecvWait(t) \/ RecvEnd(t)
  BY <1>7, RecvKeeps
<1>8. CASE WaitNext /\ UNCHANGED queueVars
  BY <1>8, WaitNextKeeps
<1> QED
  BY <1>2, <1>3, <1>4, <1>5, <1>6, <1>7, <1>8 DEF QueueNext

-----------------------------------------------------------------------------
(* In the beginning there is neither an object nor anybody who waits for it. *)
LEMMA IpcInitial == Init => IpcInv
<1> SUFFICES ASSUME Init PROVE IpcInv
  OBVIOUS
<1>1. /\ blk_list = <<>> /\ ticking = {} /\ obj_type = "RHINO_OBJ_TYPE_NONE"
      /\ pc = [t \in Task |-> "run"] /\ prio \in [Task -> Prios] /\ kind \in Kinds
      /\ cs = [op |-> "none", iter |-> <<>>, arg |-> None]
  BY DEF Init, WaitInit, NoCs
<1>2. WaitTypeOK
  BY <1>1 DEF WaitTypeOK
<1>3. EventTypeOK
  BY DEF Init, EventInit, EventTypeOK, Options
<1>4. CsOK /\ KindOK /\ SetOK
  BY <1>1 DEF CsOK, KindOK, SetOK, NoCs
<1>5. ToSet(blk_list) = {} /\ Linear(blk_list) /\ Sorted(blk_list, prio)
  <2>1. ToSet(blk_list) = {}
    BY <1>1, <1>2, NobodyListed
  <2>2. Linear(blk_list) /\ Sorted(blk_list, prio)
    BY <1>1 DEF Linear, Sorted
  <2> QED
    BY <2>1, <2>2
<1>6. WaitersListed
  BY <1>1, <1>5 DEF WaitersListed
<1>7. NoMissedWakeup /\ AnswerSound /\ NoIdleMessage
  BY <1>1 DEF NoMissedWakeup, AnswerSound, NoIdleMessage
<1> QED
  BY <1>2, <1>3, <1>4, <1>6, <1>7 DEF IpcInv

(* Every step keeps the invariant. *)
LEMMA IpcStep == IpcInv /\ [Next]_vars => IpcInv'
<1> SUFFICES ASSUME IpcInv, [Next]_vars PROVE IpcInv'
  OBVIOUS
<1>1. CASE kind = "event" /\ EventNext /\ UNCHANGED <<kind, queueVars>>
  BY <1>1, EventKeeps
<1>2. CASE kind # "event" /\ QueueNext /\ UNCHANGED <<kind, eventVars>>
  BY <1>2, QueueKeeps
<1>3. CASE UNCHANGED vars
  BY <1>3 DEF vars, waitVars, eventVars, queueVars, IpcInv, WaitTypeOK, EventTypeOK, CsOK, KindOK,
              SetOK, WaitersListed, NoMissedWakeup, AnswerSound, NoIdleMessage, IsEvent, IsQueue,
              QueueType, Quiet, Empty
<1> QED
  BY <1>1, <1>2, <1>3 DEF Next

(* So it holds in every state. *)
LEMMA IpcAlways == Spec => []IpcInv
BY IpcInitial, IpcStep, PTL DEF Spec

(* Whatever ends a wait or changes a priority, the list of an object holds just the
   tasks that wait for it, in the order of their priorities, and nobody is left waiting
   for an object that was deleted: for any number of tasks and priorities. *)
THEOREM IpcWaiters == Spec => []WaitersListed
<1>1. IpcInv => WaitersListed
  BY DEF IpcInv
<1> QED
  BY <1>1, IpcAlways, PTL

(* event_set overlooks no waiter, although it goes by a snapshot of the flags: for any
   flags, requests and waiters. *)
THEOREM IpcNoMissedWakeup == Spec => []NoMissedWakeup
<1>1. IpcInv => NoMissedWakeup
  BY DEF IpcInv
<1> QED
  BY <1>1, IpcAlways, PTL

(* A task that was woken by event_set was told flags that meet its request. *)
THEOREM IpcAnswers == Spec => []AnswerSound
<1>1. IpcInv => AnswerSound
  BY DEF IpcInv
<1> QED
  BY <1>1, IpcAlways, PTL

(* No task waits at a queue that has a message, for queues of any size. *)
THEOREM IpcNoIdleMessage == Spec => []NoIdleMessage
<1>1. IpcInv => NoIdleMessage
  BY DEF IpcInv
<1> QED
  BY <1>1, IpcAlways, PTL

-----------------------------------------------------------------------------
(***************************************************************************)
(* The ring.  First its bytes, a fifo that Write and Skip extend and       *)
(* shorten across the end of the buffer; then the messages whose bytes     *)
(* they are; then the queue over it, and the fifo it implements.           *)
(***************************************************************************)

(* The ring as a fifo of bytes: Used counts them, and ByteAt(r, o) is the one that o
   others precede. *)
ByteSet == [what : {"none", "msg", "len"}, of : Msg \cup Nat, at : Nat]
RingType == [buf : [0 .. RingSize - 1 -> ByteSet], head : 0 .. RingSize, tail : 0 .. RingSize,
             freesize : 0 .. RingSize]
Used(r) == RingSize - r.freesize
Place(h, o) == IF h + o < RingSize THEN h + o ELSE h + o - RingSize
ByteAt(r, o) == r.buf[Place(r.head, o)]

(* The bytes lie between head and tail, on this or on the other side of the end. *)
RingOK(r) == r \in RingType /\ r.head + Used(r) \in {r.tail, r.tail + RingSize}

(* A ring with more bytes at its end, and one with fewer at its front. *)
Pushed(r, bytes, w) ==
  /\ RingOK(w) /\ Used(w) = Used(r) + Len(bytes)
  /\ \A o \in 0 .. Used(r) - 1 : ByteAt(w, o) = ByteAt(r, o)
  /\ \A k \in 1 .. Len(bytes) : ByteAt(w, Used(r) + k - 1) = bytes[k]
Popped(r, n, w) ==
  /\ RingOK(w) /\ Used(w) = Used(r) - n
  /\ \A o \in 0 .. Used(w) - 1 : ByteAt(w, o) = ByteAt(r, o + n)
FirstBytes(r, n, bytes) ==
  /\ bytes \in Seq(ByteSet) /\ Len(bytes) = n
  /\ \A k \in 1 .. n : bytes[k] = ByteAt(r, k - 1)

(* The fields of a ring. *)
LEMMA RingFields ==
  ASSUME NEW r, RingOK(r)
  PROVE  /\ r.head \in 0 .. RingSize /\ r.tail \in 0 .. RingSize /\ r.freesize \in 0 .. RingSize
         /\ r.buf \in [0 .. RingSize - 1 -> ByteSet] /\ Used(r) \in 0 .. RingSize
         /\ RingSize \in Nat \ {0} /\ RING_BUF_LEN \in Nat \ {0}
         /\ (r.head + Used(r) = r.tail \/ r.head + Used(r) = r.tail + RingSize)
         /\ Garbage \in ByteSet
<1>1. RingSize \in Nat \ {0} /\ RING_BUF_LEN \in Nat \ {0}
  BY RingAssumption
<1>2. /\ r.head \in 0 .. RingSize /\ r.tail \in 0 .. RingSize /\ r.freesize \in 0 .. RingSize
      /\ r.buf \in [0 .. RingSize - 1 -> ByteSet]
  BY DEF RingOK, RingType
<1>3. Used(r) \in 0 .. RingSize
  BY <1>1, <1>2 DEF Used
<1>4. Garbage \in ByteSet
  BY DEF Garbage, Byte, ByteSet
<1> QED
  BY <1>1, <1>2, <1>3, <1>4 DEF RingOK

(* The fields of a ring that was written to. *)
LEMMA WriteFields ==
  ASSUME NEW r \in RingType, NEW bytes
  PROVE  LET w == Write(r, bytes)
         IN  /\ w.head = r.head /\ w.tail = r.tail + Len(bytes) /\ w.freesize = r.freesize - Len(bytes)
             /\ w.buf = [p \in 0 .. RingSize - 1 |->
                           IF p \in r.tail .. r.tail + Len(bytes) - 1
                           THEN bytes[p - r.tail + 1] ELSE r.buf[p]]
             /\ w = [buf |-> w.buf, head |-> w.head, tail |-> w.tail, freesize |-> w.freesize]
<1>1. DOMAIN r.buf = 0 .. RingSize - 1
  BY DEF RingType
<1>2. r = [buf |-> r.buf, head |-> r.head, tail |-> r.tail, freesize |-> r.freesize]
  BY DEF RingType
<1> DEFINE b == [p \in 0 .. RingSize - 1 |-> IF p \in r.tail .. r.tail + Len(bytes) - 1
                                             THEN bytes[p - r.tail + 1] ELSE r.buf[p]]
           t == r.tail + Len(bytes)
           f == r.freesize - Len(bytes)
<1>3. Write(r, bytes) = [r EXCEPT !.buf = b, !.tail = t, !.freesize = f]
  BY <1>1 DEF Write
<1> HIDE DEF b, t, f
<1>4. Write(r, bytes) = [buf |-> b, head |-> r.head, tail |-> t, freesize |-> f]
  BY <1>2, <1>3
<1> QED
  BY <1>4 DEF b, t, f


(* memcpy to the tail. *)
LEMMA WritePushes ==
  ASSUME NEW r, RingOK(r), NEW bytes \in Seq(ByteSet), Len(bytes) <= r.freesize,
         r.tail + Len(bytes) <= RingSize
  PROVE  /\ Pushed(r, bytes, Write(r, bytes))
         /\ Write(r, bytes).tail = r.tail + Len(bytes) /\ Write(r, bytes).head = r.head
         /\ Write(r, bytes).freesize = r.freesize - Len(bytes)
<1> DEFINE w == Write(r, bytes)
           n == Len(bytes)
           h == r.head
           t == r.tail
           f == r.freesize
           u == Used(r)
<1>1. /\ h \in 0 .. RingSize /\ t \in 0 .. RingSize /\ f \in 0 .. RingSize
      /\ u \in 0 .. RingSize /\ RingSize \in Nat \ {0} /\ (h + u = t \/ h + u = t + RingSize)
      /\ u = RingSize - f
  BY RingFields DEF Used
<1>2. r \in RingType /\ r.buf \in [0 .. RingSize - 1 -> ByteSet]
  BY RingFields DEF RingOK
<1>3. n \in Nat /\ n <= f /\ t + n <= RingSize
  BY LenProperties
<1>20. \A k \in 1 .. n : bytes[k] \in ByteSet
  BY ElementOfSeq
<1>4. /\ w.head = h /\ w.tail = t + n /\ w.freesize = f - n
      /\ w.buf = [p \in 0 .. RingSize - 1 |-> IF p \in t .. t + n - 1 THEN bytes[p - t + 1] ELSE r.buf[p]]
      /\ w = [buf |-> w.buf, head |-> w.head, tail |-> w.tail, freesize |-> w.freesize]
  BY <1>2, WriteFields
<1>5. Used(w) = RingSize - w.freesize
  BY DEF Used
<1>6. \A o : ByteAt(w, o) = w.buf[Place(w.head, o)] /\ ByteAt(r, o) = r.buf[Place(h, o)]
  BY DEF ByteAt
<1> HIDE DEF w, n, h, t, f, u
<1>21. /\ u + n <= RingSize /\ t + n \in 0 .. RingSize /\ f - n \in 0 .. RingSize
       /\ RingSize - (f - n) = u + n
       /\ (h + (u + n) = t + n \/ h + (u + n) = t + n + RingSize)
  BY <1>1, <1>3
<1>7. Used(w) = u + n
  BY <1>4, <1>5, <1>21
<1>8. w.buf \in [0 .. RingSize - 1 -> ByteSet]
  <2> SUFFICES ASSUME NEW p \in 0 .. RingSize - 1
               PROVE  (IF p \in t .. t + n - 1 THEN bytes[p - t + 1] ELSE r.buf[p]) \in ByteSet
    BY <1>4
  <2>1. CASE p \in t .. t + n - 1
    <3>1. p - t + 1 \in 1 .. n
      BY <1>1, <1>3, <2>1
    <3> QED
      BY <1>20, <2>1, <3>1
  <2> QED
    BY <1>2, <2>1
<1>9. RingOK(w)
  <2>1. w \in RingType
    BY <1>1, <1>4, <1>21, <1>8 DEF RingType
  <2> QED
    BY <1>4, <1>7, <1>21, <2>1 DEF RingOK
<1>10. /\ \A o \in 0 .. u - 1 : Place(h, o) \in 0 .. RingSize - 1 /\ Place(h, o) \notin t .. t + n - 1
       /\ \A k \in 1 .. n : Place(h, u + k - 1) = t + k - 1
  BY <1>1, <1>3, <1>21 DEF Place
<1>11. \A o \in 0 .. u - 1 : ByteAt(w, o) = ByteAt(r, o)
  BY <1>4, <1>6, <1>10
<1>12. ASSUME NEW k \in 1 .. n PROVE ByteAt(w, u + k - 1) = bytes[k]
  <2> DEFINE p == t + k - 1
  <2>1. p \in t .. t + n - 1 /\ p \in 0 .. RingSize - 1 /\ p - t + 1 = k
    BY <1>1, <1>3
  <2>2. ByteAt(w, u + k - 1) = w.buf[p]
    BY <1>4, <1>6, <1>10
  <2> HIDE DEF p
  <2>3. w.buf[p] = bytes[p - t + 1]
    BY <1>4, <2>1
  <2> QED
    BY <2>1, <2>2, <2>3
<1> QED
  BY <1>4, <1>7, <1>9, <1>11, <1>12 DEF Pushed, w, n, h, t, f, u

(* A tail at the end of the buffer is as good as one at its beginning, if there is room. *)
LEMMA TailWraps ==
  ASSUME NEW r, RingOK(r), r.freesize > 0
  PROVE  LET w == [r EXCEPT !.tail = 0]
         IN  /\ r.tail = RingSize => RingOK(w)
             /\ Used(w) = Used(r) /\ w.tail = 0 /\ w.head = r.head /\ w.freesize = r.freesize
             /\ \A o : ByteAt(w, o) = ByteAt(r, o)
<1> DEFINE w == [r EXCEPT !.tail = 0]
           h == r.head
           f == r.freesize
<1>1. /\ h \in 0 .. RingSize /\ f \in 0 .. RingSize /\ RingSize \in Nat \ {0}
      /\ (h + Used(r) = r.tail \/ h + Used(r) = r.tail + RingSize)
      /\ r.buf \in [0 .. RingSize - 1 -> ByteSet]
  BY RingFields
<1>2. r = [buf |-> r.buf, head |-> h, tail |-> r.tail, freesize |-> f]
  BY DEF RingOK, RingType
<1>3. w = [buf |-> r.buf, head |-> h, tail |-> 0, freesize |-> f]
  BY <1>2
<1>4. /\ Used(r) = RingSize - f /\ Used(w) = RingSize - w.freesize
      /\ \A o : ByteAt(w, o) = w.buf[Place(w.head, o)] /\ ByteAt(r, o) = r.buf[Place(h, o)]
  BY DEF Used, ByteAt
<1> HIDE DEF w, h, f
<1>5. w.tail = 0 /\ w.head = h /\ w.freesize = f /\ w.buf = r.buf
  BY <1>3
<1>6. ASSUME r.tail = RingSize PROVE RingOK(w)
  <2>1. w \in RingType
    BY <1>1, <1>3 DEF RingType
  <2>2. h + Used(w) = RingSize
    BY <1>1, <1>4, <1>5, <1>6 DEF f
  <2> QED
    BY <1>1, <1>5, <2>1, <2>2 DEF RingOK
<1> QED
  BY <1>4, <1>5, <1>6 DEF w, h, f

(* Two pushes are one of all the bytes. *)
LEMMA PushedTwice ==
  ASSUME NEW r, NEW a \in Seq(ByteSet), NEW b \in Seq(ByteSet), NEW v, NEW w, RingOK(r),
         Pushed(r, a, v), Pushed(v, b, w)
  PROVE  Pushed(r, a \o b, w)
<1> DEFINE u == Used(r)
           n == Len(a)
<1>1. u \in Nat /\ n \in Nat /\ Len(b) \in Nat
  BY RingFields, LenProperties
<1>2. /\ Len(a \o b) = n + Len(b)
      /\ \A k \in 1 .. n + Len(b) : (a \o b)[k] = IF k <= n THEN a[k] ELSE b[k - n]
  BY ConcatProperties
<1>3. /\ RingOK(w) /\ Used(v) = u + n /\ Used(w) = Used(v) + Len(b)
      /\ \A o \in 0 .. u - 1 : ByteAt(v, o) = ByteAt(r, o)
      /\ \A k \in 1 .. n : ByteAt(v, u + k - 1) = a[k]
      /\ \A o \in 0 .. Used(v) - 1 : ByteAt(w, o) = ByteAt(v, o)
      /\ \A k \in 1 .. Len(b) : ByteAt(w, Used(v) + k - 1) = b[k]
  BY DEF Pushed
<1> HIDE DEF u, n
<1>4. ASSUME NEW o \in 0 .. u - 1 PROVE ByteAt(w, o) = ByteAt(r, o)
  <2>1. o \in 0 .. Used(v) - 1
    BY <1>1, <1>3
  <2> QED
    BY <1>3, <2>1
<1>5. ASSUME NEW k \in 1 .. n + Len(b) PROVE ByteAt(w, u + k - 1) = (a \o b)[k]
  <2>1. CASE k <= n
    <3>1. u + k - 1 \in 0 .. Used(v) - 1 /\ k \in 1 .. n
      BY <1>1, <1>3, <2>1
    <3>2. ByteAt(w, u + k - 1) = a[k]
      BY <1>3, <3>1
    <3> QED
      BY <1>2, <2>1, <3>2
  <2>2. CASE k > n
    <3>1. k - n \in 1 .. Len(b) /\ Used(v) + (k - n) - 1 = u + k - 1
      BY <1>1, <1>3, <2>2
    <3>2. ByteAt(w, u + k - 1) = b[k - n]
      BY <1>3, <3>1
    <3>3. ~(k <= n)
      BY <1>1, <2>2
    <3> QED
      BY <1>2, <3>2, <3>3
  <2>3. k <= n \/ k > n
    BY <1>1
  <2> QED
    BY <2>1, <2>2, <2>3
<1>6. Used(w) = u + (n + Len(b))
  BY <1>1, <1>3
<1> QED
  BY <1>2, <1>3, <1>4, <1>5, <1>6 DEF Pushed, u

(* Two rings with the same bytes. *)
Alike(r, w) ==
  /\ RingOK(w) /\ Used(w) = Used(r) /\ w.freesize = r.freesize
  /\ \A o \in 0 .. Used(r) - 1 : ByteAt(w, o) = ByteAt(r, o)

(* What is pushed to a ring with the same bytes is pushed to the ring. *)
LEMMA AlikePushed ==
  ASSUME NEW r, NEW v, NEW bytes, NEW w, Alike(r, v), Pushed(v, bytes, w)
  PROVE  Pushed(r, bytes, w)
BY DEF Alike, Pushed

(* A tail at the end of the buffer is one at its beginning. *)
LEMMA WrapTailAlike ==
  ASSUME NEW r, RingOK(r), r.freesize > 0
  PROVE  /\ Alike(r, WrapTail(r)) /\ WrapTail(r).tail \in 0 .. RingSize - 1
         /\ WrapTail(r).head = r.head
         /\ WrapTail(r).tail = IF r.tail = RingSize THEN 0 ELSE r.tail
<1>1. r.tail \in 0 .. RingSize /\ RingSize \in Nat \ {0}
  BY RingFields
<1>2. CASE r.tail = RingSize
  <2>1. WrapTail(r) = [r EXCEPT !.tail = 0]
    BY <1>2 DEF WrapTail
  <2> QED
    BY <1>1, <1>2, <2>1, TailWraps DEF Alike
<1>3. CASE r.tail # RingSize
  <2>1. WrapTail(r) = r
    BY <1>3 DEF WrapTail
  <2>2. r.tail \in 0 .. RingSize - 1
    BY <1>1, <1>3
  <2> QED
    BY <1>3, <2>1, <2>2 DEF Alike
<1> QED
  BY <1>2, <1>3

(* A piece of a message is pushed, whole or broken at the end of the buffer. *)
LEMMA PutPushes ==
  ASSUME NEW r, RingOK(r), NEW bytes \in Seq(ByteSet), 0 < Len(bytes), Len(bytes) <= r.freesize
  PROVE  Pushed(r, bytes, Put(r, bytes))
<1> DEFINE w == WrapTail(r)
           n == Len(bytes)
           split == RingSize - w.tail
           t == w.tail
           h == w.head
           f == w.freesize
<1>1. n \in Nat /\ 0 < n /\ RingSize \in Nat \ {0} /\ r.freesize > 0
  BY LenProperties, RingFields
<1>2. Alike(r, w) /\ t \in 0 .. RingSize - 1 /\ f = r.freesize /\ RingOK(w)
  BY <1>1, WrapTailAlike DEF Alike
<1>3. /\ h \in 0 .. RingSize /\ f \in 0 .. RingSize /\ Used(w) = RingSize - f
      /\ (h + Used(w) = t \/ h + Used(w) = t + RingSize)
  BY <1>2, RingFields DEF Used
<1>6. n <= f /\ split = RingSize - t
  BY <1>2
<1>4. CASE t >= h /\ split < n /\ split > 0
  <2> DEFINE a == SubSeq(bytes, 1, split)
             b == SubSeq(bytes, split + 1, n)
             v == Write(w, a)
             x == [v EXCEPT !.tail = 0]
  <2>1. split \in 1 .. n - 1 /\ split + t = RingSize /\ split < f /\ n <= f
    <3> HIDE DEF t, n, f, split, w, h
    <3>1. t \in 0 .. RingSize - 1 /\ f \in 0 .. RingSize
      BY <1>2, <1>3
    <3> QED
      BY <3>1, <1>1, <1>4, <1>6
  <2>2. /\ a \in Seq(ByteSet) /\ Len(a) = split /\ b \in Seq(ByteSet) /\ Len(b) = n - split
        /\ \A k \in 1 .. split : a[k] = bytes[k]
        /\ \A k \in 1 .. n - split : b[k] = bytes[split + k]
    <3>1. /\ a \in Seq(ByteSet) /\ Len(a) = split
          /\ \A k \in 1 .. split : a[k] = bytes[k]
      BY <1>1, <2>1, SubSeqProperties
    <3>2. /\ b \in Seq(ByteSet) /\ Len(b) = n - split
          /\ \A k \in 1 .. n - split : b[k] = bytes[split + k]
      BY <1>1, <2>1, SubSeqProperties
    <3> QED
      BY <3>1, <3>2
  <2> HIDE DEF a, b
  <2>3. Pushed(w, a, v) /\ v.tail = t + Len(a) /\ v.head = h /\ v.freesize = f - Len(a)
    <3>1. Len(a) <= f /\ t + Len(a) <= RingSize
      <4> HIDE DEF t, n, f, split, w
      <4>1. t \in 0 .. RingSize - 1 /\ f \in 0 .. RingSize /\ Len(a) = split
        BY <1>2, <1>3, <2>2
      <4> QED
        BY <4>1, <1>1, <2>1
    <3> QED
      BY <1>2, <2>2, <3>1, WritePushes
  <2>4. RingOK(v) /\ v.tail = RingSize /\ v.freesize = f - split /\ v.freesize > 0
    <3>1. RingOK(v)
      BY <2>3 DEF Pushed
    <3> HIDE DEF v
    <3>2. v.tail = RingSize /\ v.freesize = f - split
      BY <1>2, <2>1, <2>2, <2>3
    <3>3. f - split > 0
      BY <1>3, <2>1
    <3> QED
      BY <3>1, <3>2, <3>3
  <2> HIDE DEF v
  <2>5. Alike(v, x) /\ x.tail = 0 /\ x.freesize = f - split
    BY <2>4, TailWraps DEF Alike
  <2>6. RingOK(x)
    BY <2>5 DEF Alike
  <2> HIDE DEF x
  <2>7. Pushed(x, b, Write(x, b))
    <3>1. Len(b) <= x.freesize /\ x.tail + Len(b) <= RingSize
      <4> HIDE DEF t, n, f, split, w
      <4>1. f \in 0 .. RingSize /\ Len(b) = n - split /\ x.freesize = f - split /\ x.tail = 0
        BY <1>3, <2>2, <2>5
      <4> QED
        BY <4>1, <1>1, <2>1
    <3> QED
      BY <2>2, <2>6, <3>1, WritePushes
  <2>8. Pushed(v, b, Write(x, b))
    BY <2>5, <2>7, AlikePushed
  <2>9. Pushed(w, a \o b, Write(x, b))
    BY <1>2, <2>2, <2>3, <2>8, PushedTwice
  <2>10. a \o b = bytes
    <3>1. /\ a \o b \in Seq(ByteSet) /\ Len(a \o b) = Len(a) + Len(b)
          /\ \A k \in 1 .. Len(a) + Len(b) : (a \o b)[k] = IF k <= Len(a) THEN a[k] ELSE b[k - Len(a)]
      BY <2>2, ConcatProperties
    <3>2. Len(a) + Len(b) = n
      BY <1>1, <2>1, <2>2
    <3>3. ASSUME NEW k \in 1 .. n PROVE (a \o b)[k] = bytes[k]
      <4>1. CASE k <= split
        <5>1. k \in 1 .. split
          BY <1>1, <2>1, <4>1
        <5> QED
          BY <2>2, <3>1, <3>2, <4>1, <5>1
      <4>2. CASE ~(k <= split)
        <5>1. k - split \in 1 .. n - split /\ split + (k - split) = k
          BY <1>1, <2>1, <4>2
        <5>2. (a \o b)[k] = b[k - split]
          BY <2>2, <3>1, <3>2, <4>2
        <5> QED
          BY <2>2, <5>1, <5>2
      <4> QED
        BY <4>1, <4>2
    <3> QED
      BY <3>1, <3>2, <3>3, SeqEqual
  <2>11. Put(r, bytes) = Write(x, b)
    BY <1>4 DEF Put, a, b, v, x
  <2> QED
    BY <1>2, <2>9, <2>10, <2>11, AlikePushed
<1>5. CASE ~(t >= h /\ split < n /\ split > 0)
  <2>1. n <= f /\ t + n <= RingSize
    BY <1>1, <1>2, <1>3, <1>5
  <2>2. Pushed(w, bytes, Write(w, bytes))
    BY <1>2, <2>1, WritePushes
  <2>3. Put(r, bytes) = Write(w, bytes)
    BY <1>5 DEF Put
  <2> QED
    BY <1>2, <2>2, <2>3, AlikePushed
<1> QED
  BY <1>4, <1>5

-----------------------------------------------------------------------------
(* The fields of a ring from which bytes were read. *)
LEMMA SkipFields ==
  ASSUME NEW r \in RingType, NEW n
  PROVE  LET w == Skip(r, n)
         IN  /\ w.head = r.head + n /\ w.tail = r.tail /\ w.freesize = r.freesize + n
             /\ w.buf = [p \in 0 .. RingSize - 1 |->
                           IF p \in r.head .. r.head + n - 1 THEN Garbage ELSE r.buf[p]]
             /\ w = [buf |-> w.buf, head |-> w.head, tail |-> w.tail, freesize |-> w.freesize]
<1>1. DOMAIN r.buf = 0 .. RingSize - 1
  BY DEF RingType
<1>2. r = [buf |-> r.buf, head |-> r.head, tail |-> r.tail, freesize |-> r.freesize]
  BY DEF RingType
<1> DEFINE b == [p \in 0 .. RingSize - 1 |-> IF p \in r.head .. r.head + n - 1
                                             THEN Garbage ELSE r.buf[p]]
           h == r.head + n
           f == r.freesize + n
<1>3. Skip(r, n) = [r EXCEPT !.buf = b, !.head = h, !.freesize = f]
  BY <1>1 DEF Skip
<1> HIDE DEF b, h, f
<1>4. Skip(r, n) = [buf |-> b, head |-> h, tail |-> r.tail, freesize |-> f]
  BY <1>2, <1>3
<1> QED
  BY <1>4 DEF b, h, f

(* memcpy from the head. *)
LEMMA SkipPops ==
  ASSUME NEW r, RingOK(r), NEW n \in 0 .. Used(r), r.head + n <= RingSize
  PROVE  /\ Popped(r, n, Skip(r, n)) /\ FirstBytes(r, n, Read(r, n))
         /\ Skip(r, n).head = r.head + n /\ Skip(r, n).tail = r.tail
<1> DEFINE w == Skip(r, n)
           h == r.head
           t == r.tail
           f == r.freesize
           u == Used(r)
<1>1. /\ h \in 0 .. RingSize /\ t \in 0 .. RingSize /\ f \in 0 .. RingSize
      /\ u \in 0 .. RingSize /\ RingSize \in Nat \ {0} /\ (h + u = t \/ h + u = t + RingSize)
      /\ u = RingSize - f
  BY RingFields DEF Used
<1>2. r \in RingType /\ r.buf \in [0 .. RingSize - 1 -> ByteSet] /\ Garbage \in ByteSet
  BY RingFields DEF RingOK
<1>3. n \in 0 .. u /\ h + n <= RingSize
  OBVIOUS
<1>4. /\ w.head = h + n /\ w.tail = t /\ w.freesize = f + n
      /\ w.buf = [p \in 0 .. RingSize - 1 |-> IF p \in h .. h + n - 1 THEN Garbage ELSE r.buf[p]]
      /\ w = [buf |-> w.buf, head |-> w.head, tail |-> w.tail, freesize |-> w.freesize]
  BY <1>2, SkipFields
<1>5. Used(w) = RingSize - w.freesize
  BY DEF Used
<1>6. \A o : ByteAt(w, o) = w.buf[Place(w.head, o)] /\ ByteAt(r, o) = r.buf[Place(h, o)]
  BY DEF ByteAt
<1>7. Read(r, n) = [k \in 1 .. n |-> IF h + k - 1 < RingSize THEN r.buf[h + k - 1] ELSE Garbage]
  BY DEF Read
<1> HIDE DEF w, h, t, f, u
<1>8. /\ h + n \in 0 .. RingSize /\ f + n \in 0 .. RingSize /\ RingSize - (f + n) = u - n
      /\ (h + n + (u - n) = t \/ h + n + (u - n) = t + RingSize)
  BY <1>1, <1>3
<1>9. Used(w) = u - n
  BY <1>4, <1>5, <1>8
<1>10. RingOK(w)
  <2>1. w.buf \in [0 .. RingSize - 1 -> ByteSet]
    BY <1>2, <1>4
  <2>2. w \in RingType
    BY <1>1, <1>4, <1>8, <2>1 DEF RingType
  <2> QED
    BY <1>4, <1>8, <1>9, <2>2 DEF RingOK
<1>11. ASSUME NEW o \in 0 .. u - n - 1 PROVE ByteAt(w, o) = ByteAt(r, o + n)
  <2> DEFINE p == Place(h + n, o)
  <2>1. p \in 0 .. RingSize - 1 /\ p \notin h .. h + n - 1 /\ p = Place(h, o + n)
    BY <1>1, <1>3 DEF Place
  <2>2. ByteAt(w, o) = w.buf[p] /\ ByteAt(r, o + n) = r.buf[Place(h, o + n)]
    BY <1>4, <1>6
  <2> HIDE DEF p
  <2>3. w.buf[p] = r.buf[p]
    BY <1>4, <2>1
  <2> QED
    BY <2>1, <2>2, <2>3
<1>12. FirstBytes(r, n, Read(r, n))
  <2> DEFINE s == Read(r, n)
  <2>1. ASSUME NEW k \in 1 .. n PROVE s[k] = ByteAt(r, k - 1) /\ s[k] \in ByteSet
    <3> DEFINE p == h + k - 1
    <3>1. p \in 0 .. RingSize - 1 /\ p = Place(h, k - 1) /\ p < RingSize
      BY <1>1, <1>3 DEF Place
    <3>2. s[k] = r.buf[p]
      BY <1>7, <3>1
    <3>3. ByteAt(r, k - 1) = r.buf[Place(h, k - 1)]
      BY <1>6
    <3> HIDE DEF p
    <3> QED
      BY <1>2, <3>1, <3>2, <3>3
  <2>2. s \in [1 .. n -> ByteSet]
    BY <1>7, <2>1
  <2>3. n \in Nat
    BY <1>1, <1>3
  <2>4. s \in Seq(ByteSet) /\ Len(s) = n
    <3> HIDE DEF s
    <3>1. s \in Seq(ByteSet)
      BY <2>2, <2>3
    <3>2. DOMAIN s = 1 .. n /\ DOMAIN s = 1 .. Len(s) /\ Len(s) \in Nat
      BY <2>2, <3>1, LenProperties
    <3> QED
      BY <2>3, <3>1, <3>2
  <2> QED
    BY <2>1, <2>4 DEF FirstBytes
<1> QED
  BY <1>4, <1>9, <1>10, <1>11, <1>12 DEF Popped, w, h, t, f, u

(* A head at the end of the buffer is as good as one at its beginning, if there are
   bytes to read. *)
LEMMA HeadWraps ==
  ASSUME NEW r, RingOK(r), Used(r) > 0
  PROVE  LET w == [r EXCEPT !.head = 0]
         IN  r.head = RingSize => Alike(r, w) /\ w.head = 0 /\ w.tail = r.tail
<1> SUFFICES ASSUME r.head = RingSize
             PROVE  Alike(r, [r EXCEPT !.head = 0]) /\ [r EXCEPT !.head = 0].head = 0
                    /\ [r EXCEPT !.head = 0].tail = r.tail
  OBVIOUS
<1> DEFINE w == [r EXCEPT !.head = 0]
           t == r.tail
           u == Used(r)
<1>1. /\ t \in 0 .. RingSize /\ r.freesize \in 0 .. RingSize /\ RingSize \in Nat \ {0}
      /\ u \in 0 .. RingSize /\ u > 0 /\ (RingSize + u = t \/ RingSize + u = t + RingSize)
      /\ r.buf \in [0 .. RingSize - 1 -> ByteSet]
  BY RingFields
<1>2. r = [buf |-> r.buf, head |-> r.head, tail |-> t, freesize |-> r.freesize]
  BY DEF RingOK, RingType
<1>3. w = [buf |-> r.buf, head |-> 0, tail |-> t, freesize |-> r.freesize]
  BY <1>2
<1>4. /\ u = RingSize - r.freesize /\ Used(w) = RingSize - w.freesize
      /\ \A o : ByteAt(w, o) = w.buf[Place(w.head, o)] /\ ByteAt(r, o) = r.buf[Place(RingSize, o)]
  BY DEF Used, ByteAt
<1> HIDE DEF w, t, u
<1>5. w.tail = t /\ w.head = 0 /\ w.freesize = r.freesize /\ w.buf = r.buf
  BY <1>3
<1>6. Used(w) = u /\ 0 + u = t
  BY <1>1, <1>4, <1>5
<1>7. RingOK(w)
  <2>1. w \in RingType
    BY <1>1, <1>3 DEF RingType
  <2> QED
    BY <1>5, <1>6, <2>1 DEF RingOK
<1>8. \A o \in 0 .. u - 1 : Place(0, o) = Place(RingSize, o)
  BY <1>1 DEF Place
<1>9. \A o \in 0 .. u - 1 : ByteAt(w, o) = ByteAt(r, o)
  BY <1>4, <1>5, <1>8
<1> QED
  BY <1>5, <1>6, <1>7, <1>9 DEF Alike, w, t, u

(* So is a head. *)
LEMMA WrapHeadAlike ==
  ASSUME NEW r, RingOK(r), Used(r) > 0
  PROVE  /\ Alike(r, WrapHead(r)) /\ WrapHead(r).head \in 0 .. RingSize - 1
         /\ WrapHead(r).tail = r.tail
<1>1. r.head \in 0 .. RingSize /\ RingSize \in Nat \ {0}
  BY RingFields
<1>2. CASE r.head = RingSize
  <2>1. WrapHead(r) = [r EXCEPT !.head = 0]
    BY <1>2 DEF WrapHead
  <2> QED
    BY <1>1, <1>2, <2>1, HeadWraps
<1>3. CASE r.head # RingSize
  <2>1. WrapHead(r) = r
    BY <1>3 DEF WrapHead
  <2>2. r.head \in 0 .. RingSize - 1
    BY <1>1, <1>3
  <2> QED
    BY <2>1, <2>2 DEF Alike
<1> QED
  BY <1>2, <1>3

(* What ringbuf_pop gets: the first n bytes, and the ring without them. *)
Taken(r, n, g) == Popped(r, n, g.ring) /\ FirstBytes(r, n, g.bytes)

(* What is taken from a ring with the same bytes is taken from the ring. *)
LEMMA AlikeTaken ==
  ASSUME NEW r, NEW v, NEW n \in 0 .. Used(r), NEW g, RingOK(r), Alike(r, v), Taken(v, n, g)
  PROVE  Taken(r, n, g)
<1>1. Used(v) = Used(r) /\ Used(r) \in Nat /\ Used(g.ring) = Used(r) - n /\ RingOK(g.ring)
  BY RingFields DEF Alike, Taken, Popped
<1>2. ASSUME NEW o \in 0 .. Used(g.ring) - 1 PROVE ByteAt(g.ring, o) = ByteAt(r, o + n)
  <2>1. o + n \in 0 .. Used(r) - 1
    BY <1>1
  <2> QED
    BY <2>1 DEF Alike, Taken, Popped
<1>3. ASSUME NEW k \in 1 .. n PROVE g.bytes[k] = ByteAt(r, k - 1)
  <2>1. k - 1 \in 0 .. Used(r) - 1
    BY <1>1
  <2> QED
    BY <2>1 DEF Alike, Taken, FirstBytes
<1> QED
  BY <1>1, <1>2, <1>3 DEF Taken, Popped, FirstBytes

(* Two pieces that are read one after the other. *)
LEMMA TakenTwice ==
  ASSUME NEW r, RingOK(r), NEW i \in Nat, NEW j \in Nat, i + j <= Used(r),
         NEW v, NEW x, NEW w, NEW a, NEW b,
         Popped(r, i, v), FirstBytes(r, i, a), Alike(v, x), Popped(x, j, w), FirstBytes(x, j, b)
  PROVE  Popped(r, i + j, w) /\ FirstBytes(r, i + j, a \o b)
<1> DEFINE u == Used(r)
<1>1. u \in Nat /\ i + j <= u
  BY RingFields
<1>2. /\ Used(v) = u - i /\ \A o \in 0 .. Used(v) - 1 : ByteAt(v, o) = ByteAt(r, o + i)
      /\ Used(x) = Used(v) /\ \A o \in 0 .. Used(v) - 1 : ByteAt(x, o) = ByteAt(v, o)
      /\ Used(w) = Used(x) - j /\ \A o \in 0 .. Used(w) - 1 : ByteAt(w, o) = ByteAt(x, o + j)
      /\ RingOK(w)
  BY DEF Popped, Alike
<1>3. /\ a \in Seq(ByteSet) /\ Len(a) = i /\ \A k \in 1 .. i : a[k] = ByteAt(r, k - 1)
      /\ b \in Seq(ByteSet) /\ Len(b) = j /\ \A k \in 1 .. j : b[k] = ByteAt(x, k - 1)
  BY DEF FirstBytes
<1> HIDE DEF u
<1>4. Used(w) = u - (i + j) /\ Used(v) = u - i
  BY <1>1, <1>2
<1>5. ASSUME NEW o \in 0 .. Used(w) - 1 PROVE ByteAt(w, o) = ByteAt(r, o + (i + j))
  <2>1. o + j \in 0 .. Used(v) - 1 /\ o + j + i = o + (i + j)
    BY <1>1, <1>4
  <2>2. ByteAt(w, o) = ByteAt(x, o + j)
    BY <1>2
  <2>3. ByteAt(x, o + j) = ByteAt(r, o + j + i)
    BY <1>2, <2>1
  <2> QED
    BY <2>1, <2>2, <2>3
<1>6. /\ a \o b \in Seq(ByteSet) /\ Len(a \o b) = i + j
      /\ \A k \in 1 .. i + j : (a \o b)[k] = IF k <= i THEN a[k] ELSE b[k - i]
  BY <1>3, ConcatProperties
<1>7. ASSUME NEW k \in 1 .. i + j PROVE (a \o b)[k] = ByteAt(r, k - 1)
  <2>1. CASE k <= i
    <3>1. k \in 1 .. i
      BY <2>1
    <3> QED
      BY <1>3, <1>6, <2>1, <3>1
  <2>2. CASE ~(k <= i)
    <3>1. k - i \in 1 .. j /\ k - i - 1 \in 0 .. Used(v) - 1 /\ k - i - 1 + i = k - 1
      BY <1>1, <1>4, <2>2
    <3>2. (a \o b)[k] = ByteAt(x, k - i - 1)
      BY <1>3, <1>6, <2>2, <3>1
    <3>3. ByteAt(x, k - i - 1) = ByteAt(r, k - i - 1 + i)
      BY <1>2, <3>1
    <3> QED
      BY <3>1, <3>2, <3>3
  <2> QED
    BY <2>1, <2>2
<1> QED
  BY <1>2, <1>4, <1>5, <1>6, <1>7 DEF Popped, FirstBytes, u

(* Bytes that are broken at the end of the buffer. *)
LEMMA BrokenTaken ==
  ASSUME NEW w, RingOK(w), NEW n \in 0 .. Used(w), w.head < RingSize, RingSize - w.head < n
  PROVE  Taken(w, n, TakeBroken(w, n))
<1> DEFINE h == w.head
           split == RingSize - h
           v == Skip(w, split)
           r == [v EXCEPT !.head = 0]
<1>1. /\ h \in 0 .. RingSize /\ h < RingSize /\ RingSize - h < n
      /\ RingSize \in Nat \ {0} /\ Used(w) \in 0 .. RingSize /\ n \in 0 .. Used(w)
  BY RingFields
<1>2. split = RingSize - h
  OBVIOUS
<1> HIDE DEF h, split
<1>3. split \in 0 .. Used(w) /\ split \in Nat /\ split < n /\ h + split = RingSize
      /\ n - split \in Nat /\ split + (n - split) = n /\ n - split > 0 /\ n - split <= Used(w) - split
      /\ n - split <= RingSize
  BY <1>1, <1>2
<1>4. Popped(w, split, v) /\ FirstBytes(w, split, Read(w, split)) /\ v.head = RingSize
  <2>1. w.head + split = RingSize /\ w.head + split <= RingSize
    BY <1>1, <1>3 DEF h
  <2> QED
    BY <1>3, <2>1, SkipPops
<1>5. RingOK(v) /\ Used(v) = Used(w) - split
  BY <1>4 DEF Popped
<1> HIDE DEF v
<1>6. Alike(v, r) /\ r.head = 0
  <2>1. Used(w) - split > 0
    BY <1>1, <1>3
  <2> QED
    BY <1>4, <1>5, <2>1, HeadWraps
<1> HIDE DEF r
<1>7. Popped(r, n - split, Skip(r, n - split)) /\ FirstBytes(r, n - split, Read(r, n - split))
  <2>1. RingOK(r) /\ Used(r) = Used(w) - split
    BY <1>5, <1>6 DEF Alike
  <2>2. n - split \in 0 .. Used(r) /\ r.head + (n - split) <= RingSize
    BY <1>1, <1>3, <1>6, <2>1
  <2> QED
    BY <2>1, <2>2, SkipPops
<1>8. /\ Popped(w, n, Skip(r, n - split))
      /\ FirstBytes(w, n, Read(w, split) \o Read(r, n - split))
  <2>1. split + (n - split) <= Used(w)
    BY <1>1, <1>3
  <2>2. /\ Popped(w, split + (n - split), Skip(r, n - split))
        /\ FirstBytes(w, split + (n - split), Read(w, split) \o Read(r, n - split))
    BY <1>3, <1>4, <1>6, <1>7, <2>1, TakenTwice
  <2> QED
    BY <1>3, <2>2
<1>9. TakeBroken(w, n) = [ring |-> Skip(r, n - split), bytes |-> Read(w, split) \o Read(r, n - split)]
  BY <1>2 DEF TakeBroken, Got, r, v, h
<1> QED
  BY <1>8, <1>9 DEF Taken

(* The length of a message is read. *)
LEMMA LenTaken ==
  ASSUME NEW r, RingOK(r), RING_BUF_LEN <= Used(r)
  PROVE  Taken(r, RING_BUF_LEN, TakeLen(r))
<1> DEFINE w == WrapHead(r)
<1>1. /\ RING_BUF_LEN \in Nat \ {0} /\ Used(r) \in Nat /\ RingSize \in Nat /\ Used(r) > 0
      /\ RING_BUF_LEN \in 0 .. Used(r)
  BY RingFields
<1>2. Alike(r, w) /\ w.head \in 0 .. RingSize - 1
  BY <1>1, WrapHeadAlike
<1>3. RingOK(w) /\ RING_BUF_LEN \in 0 .. Used(w) /\ w.head < RingSize
  BY <1>1, <1>2 DEF Alike
<1>4. Taken(w, RING_BUF_LEN, TakeLen(r))
  <2>1. CASE RingSize - w.head < RING_BUF_LEN
    <3>1. TakeLen(r) = TakeBroken(w, RING_BUF_LEN)
      BY <2>1 DEF TakeLen
    <3> QED
      BY <1>3, <2>1, <3>1, BrokenTaken
  <2>2. CASE ~(RingSize - w.head < RING_BUF_LEN)
    <3>1. TakeLen(r) = [ring |-> Skip(w, RING_BUF_LEN), bytes |-> Read(w, RING_BUF_LEN)]
      BY <2>2 DEF TakeLen, Got
    <3>2. w.head + RING_BUF_LEN <= RingSize
      BY <1>1, <1>2, <2>2
    <3> QED
      BY <1>3, <3>1, <3>2, SkipPops DEF Taken
  <2> QED
    BY <2>1, <2>2
<1> QED
  BY <1>1, <1>2, <1>4, AlikeTaken

(* The data of a message is read.  The ring has lost a length before, so that a head at
   the tail means that it is empty. *)
LEMMA DataTaken ==
  ASSUME NEW r, RingOK(r), Used(r) < RingSize, NEW n \in 1 .. Used(r)
  PROVE  Taken(r, n, TakeData(r, n))
<1> DEFINE w == WrapHead(r)
           h == w.head
           t == w.tail
<1>1. Used(r) \in Nat /\ RingSize \in Nat \ {0} /\ Used(r) > 0 /\ n \in 0 .. Used(r)
  BY RingFields
<1>2. Alike(r, w) /\ h \in 0 .. RingSize - 1
  BY <1>1, WrapHeadAlike
<1>3. RingOK(w) /\ n \in 0 .. Used(w) /\ h < RingSize /\ Used(w) = Used(r)
  BY <1>1, <1>2 DEF Alike
<1>4. t \in 0 .. RingSize /\ (h + Used(w) = t \/ h + Used(w) = t + RingSize)
  BY <1>3, RingFields
<1>5. Taken(w, n, TakeData(r, n))
  <2>1. CASE h > t /\ RingSize - h < n
    <3>1. TakeData(r, n) = TakeBroken(w, n)
      BY <2>1 DEF TakeData
    <3> QED
      BY <1>3, <2>1, <3>1, BrokenTaken
  <2>2. CASE ~(h > t /\ RingSize - h < n)
    <3>1. TakeData(r, n) = [ring |-> Skip(w, n), bytes |-> Read(w, n)]
      BY <2>2 DEF TakeData, Got
    <3>2. h + n <= RingSize
      <4> HIDE DEF h, t, w
      <4> QED
        BY <1>1, <1>2, <1>3, <1>4, <2>2
    <3> QED
      BY <1>3, <3>1, <3>2, SkipPops DEF Taken
  <2> QED
    BY <2>1, <2>2
<1> QED
  BY <1>1, <1>2, <1>5, AlikeTaken

-----------------------------------------------------------------------------
(* The bytes of a message and of a length. *)
LEMMA PieceBytes ==
  /\ \A m \in Msg : /\ MsgLen[m] \in 1 .. RingSize /\ MsgBytes(m) \in Seq(ByteSet)
                    /\ Len(MsgBytes(m)) = MsgLen[m]
                    /\ \A k \in 1 .. MsgLen[m] : MsgBytes(m)[k] = Byte("msg", m, k)
  /\ \A n \in 1 .. RingSize : /\ LenBytes(n) \in Seq(ByteSet) /\ Len(LenBytes(n)) = RING_BUF_LEN
                              /\ \A k \in 1 .. RING_BUF_LEN : LenBytes(n)[k] = Byte("len", n, k)
<1>1. ASSUME NEW m \in Msg
      PROVE  /\ MsgLen[m] \in 1 .. RingSize /\ MsgBytes(m) \in Seq(ByteSet)
             /\ Len(MsgBytes(m)) = MsgLen[m]
             /\ \A k \in 1 .. MsgLen[m] : MsgBytes(m)[k] = Byte("msg", m, k)
  <2> DEFINE s == MsgBytes(m)
  <2>1. MsgLen[m] \in 1 .. RingSize /\ MsgLen[m] \in Nat
    BY RingAssumption
  <2>2. s = [k \in 1 .. MsgLen[m] |-> Byte("msg", m, k)]
    BY DEF MsgBytes
  <2>3. \A k \in 1 .. MsgLen[m] : Byte("msg", m, k) \in ByteSet
    BY <2>1 DEF Byte, ByteSet
  <2> HIDE DEF s
  <2>4. s \in [1 .. MsgLen[m] -> ByteSet]
    BY <2>2, <2>3
  <2>5. s \in Seq(ByteSet) /\ Len(s) = MsgLen[m]
    <3>1. s \in Seq(ByteSet)
      BY <2>1, <2>4
    <3>2. DOMAIN s = 1 .. MsgLen[m] /\ DOMAIN s = 1 .. Len(s) /\ Len(s) \in Nat
      BY <2>4, <3>1, LenProperties
    <3> QED
      BY <2>1, <3>1, <3>2
  <2> QED
    BY <2>1, <2>2, <2>5 DEF s
<1>2. ASSUME NEW n \in 1 .. RingSize
      PROVE  /\ LenBytes(n) \in Seq(ByteSet) /\ Len(LenBytes(n)) = RING_BUF_LEN
             /\ \A k \in 1 .. RING_BUF_LEN : LenBytes(n)[k] = Byte("len", n, k)
  <2> DEFINE s == LenBytes(n)
  <2>1. n \in Nat /\ RING_BUF_LEN \in Nat
    BY RingAssumption
  <2>2. s = [k \in 1 .. RING_BUF_LEN |-> Byte("len", n, k)]
    BY DEF LenBytes
  <2>3. \A k \in 1 .. RING_BUF_LEN : Byte("len", n, k) \in ByteSet
    BY <2>1 DEF Byte, ByteSet
  <2> HIDE DEF s
  <2>4. s \in [1 .. RING_BUF_LEN -> ByteSet]
    BY <2>2, <2>3
  <2>5. s \in Seq(ByteSet) /\ Len(s) = RING_BUF_LEN
    <3>1. s \in Seq(ByteSet)
      BY <2>1, <2>4
    <3>2. DOMAIN s = 1 .. RING_BUF_LEN /\ DOMAIN s = 1 .. Len(s) /\ Len(s) \in Nat
      BY <2>4, <3>1, LenProperties
    <3> QED
      BY <2>1, <3>1, <3>2
  <2> QED
    BY <2>2, <2>5 DEF s
<1> QED
  BY <1>1, <1>2

(* A receiver makes of them the message and the length they are of. *)
LEMMA MsgOfBytes ==
  ASSUME NEW m \in Msg, NEW s \in Seq(ByteSet), Len(s) = MsgLen[m],
         \A k \in 1 .. MsgLen[m] : s[k] = Byte("msg", m, k)
  PROVE  MsgOf(s) = m
<1>1. s = MsgBytes(m)
  BY PieceBytes, SeqEqual
<1>2. ASSUME NEW x \in Msg, s = MsgBytes(x) PROVE x = m
  <2>1. 1 \in 1 .. MsgLen[m] /\ 1 \in 1 .. MsgLen[x]
    BY PieceBytes, RingAssumption
  <2>2. Byte("msg", x, 1) = Byte("msg", m, 1)
    BY <1>1, <1>2, <2>1, PieceBytes
  <2> QED
    BY <2>2 DEF Byte
<1> QED
  BY <1>1, <1>2 DEF MsgOf

(* The bytes of a length are read as that length. *)
LEMMA LenOfBytes ==
  ASSUME NEW n \in 1 .. RingSize, NEW s \in Seq(ByteSet), Len(s) = RING_BUF_LEN,
         \A k \in 1 .. RING_BUF_LEN : s[k] = Byte("len", n, k)
  PROVE  LenOf(s) = n
<1>1. s = LenBytes(n)
  BY PieceBytes, SeqEqual
<1>2. ASSUME NEW x \in 1 .. RingSize, s = LenBytes(x) PROVE x = n
  <2>1. 1 \in 1 .. RING_BUF_LEN
    BY RingAssumption
  <2>2. Byte("len", x, 1) = Byte("len", n, 1)
    BY <1>1, <1>2, <2>1, PieceBytes
  <2> QED
    BY <2>2 DEF Byte
<1> QED
  BY <1>1, <1>2 DEF LenOf

-----------------------------------------------------------------------------
(* The messages of a ring, with their lengths (dyn) or without: the message m begins
   after o bytes; the messages are q, and st[i] bytes precede the i-th. *)
LenPart(dyn) == IF dyn THEN RING_BUF_LEN ELSE 0
SizeOf(dyn, m) == LenPart(dyn) + MsgLen[m]
MsgAt(r, dyn, o, m) ==
  /\ m \in Msg /\ o + SizeOf(dyn, m) <= Used(r)
  /\ dyn => \A k \in 1 .. RING_BUF_LEN : ByteAt(r, o + k - 1) = Byte("len", MsgLen[m], k)
  /\ \A k \in 1 .. MsgLen[m] : ByteAt(r, o + LenPart(dyn) + k - 1) = Byte("msg", m, k)
Holds(r, dyn, q, st) ==
  /\ q \in Seq(Msg) /\ st \in Seq(Nat) /\ Len(st) = Len(q) + 1
  /\ st[1] = 0 /\ st[Len(q) + 1] = Used(r)
  /\ \A i, j \in 1 .. Len(q) + 1 : i <= j => st[i] <= st[j]
  /\ \A i \in 1 .. Len(q) : MsgAt(r, dyn, st[i], q[i]) /\ st[i + 1] = st[i] + SizeOf(dyn, q[i])

(* The bytes of a message as ringbuf_push writes them. *)
PieceOf(dyn, m, bytes) ==
  /\ bytes \in Seq(ByteSet) /\ Len(bytes) = SizeOf(dyn, m)
  /\ dyn => \A k \in 1 .. RING_BUF_LEN : bytes[k] = Byte("len", MsgLen[m], k)
  /\ \A k \in 1 .. MsgLen[m] : bytes[LenPart(dyn) + k] = Byte("msg", m, k)

(* The sizes of a message and of its length are numbers. *)
LEMMA Sizes ==
  ASSUME NEW dyn \in BOOLEAN, NEW m \in Msg
  PROVE  /\ MsgLen[m] \in 1 .. RingSize /\ LenPart(dyn) \in Nat /\ SizeOf(dyn, m) \in Nat \ {0}
         /\ SizeOf(dyn, m) = LenPart(dyn) + MsgLen[m] /\ RING_BUF_LEN \in Nat /\ RingSize \in Nat
         /\ dyn => LenPart(dyn) = RING_BUF_LEN
<1>1. MsgLen[m] \in 1 .. RingSize /\ RING_BUF_LEN \in Nat /\ RingSize \in Nat
  BY RingAssumption
<1>2. LenPart(dyn) \in Nat /\ (dyn => LenPart(dyn) = RING_BUF_LEN)
  BY <1>1 DEF LenPart
<1>3. SizeOf(dyn, m) = LenPart(dyn) + MsgLen[m]
  BY DEF SizeOf
<1> QED
  BY <1>1, <1>2, <1>3

(* A message stays where it is when others are pushed. *)
LEMMA MsgStays ==
  ASSUME NEW r, RingOK(r), NEW w, NEW bytes, Pushed(r, bytes, w), Len(bytes) \in Nat,
         NEW dyn \in BOOLEAN, NEW o \in Nat, NEW m, MsgAt(r, dyn, o, m)
  PROVE  MsgAt(w, dyn, o, m)
<1> DEFINE u == Used(r)
           l == LenPart(dyn)
           z == SizeOf(dyn, m)
<1>1. m \in Msg /\ o + z <= u /\ u \in Nat
  BY RingFields DEF MsgAt
<1>2. /\ MsgLen[m] \in Nat /\ l \in Nat /\ z = l + MsgLen[m] /\ RING_BUF_LEN \in Nat
      /\ dyn => l = RING_BUF_LEN
  BY <1>1, Sizes
<1>3. Used(w) = u + Len(bytes) /\ \A p \in 0 .. u - 1 : ByteAt(w, p) = ByteAt(r, p)
  BY DEF Pushed
<1> HIDE DEF u, l, z
<1>4. o + z <= Used(w)
  BY <1>1, <1>2, <1>3
<1>5. ASSUME dyn, NEW k \in 1 .. RING_BUF_LEN PROVE ByteAt(w, o + k - 1) = Byte("len", MsgLen[m], k)
  <2>1. o + k - 1 \in 0 .. u - 1
    BY <1>1, <1>2, <1>5
  <2> QED
    BY <1>3, <1>5, <2>1 DEF MsgAt
<1>6. ASSUME NEW k \in 1 .. MsgLen[m] PROVE ByteAt(w, o + l + k - 1) = Byte("msg", m, k)
  <2>1. o + l + k - 1 \in 0 .. u - 1
    BY <1>1, <1>2
  <2>2. ByteAt(r, o + l + k - 1) = Byte("msg", m, k)
    BY DEF MsgAt, l
  <2> QED
    BY <1>3, <2>1, <2>2
<1> QED
  BY <1>1, <1>4, <1>5, <1>6 DEF MsgAt, l, z

(* A message that is pushed is the last. *)
LEMMA PushHolds ==
  ASSUME NEW r, RingOK(r), NEW dyn \in BOOLEAN, NEW q, NEW st, Holds(r, dyn, q, st),
         NEW m \in Msg, NEW bytes, PieceOf(dyn, m, bytes), NEW w, Pushed(r, bytes, w)
  PROVE  Holds(w, dyn, Append(q, m), Append(st, Used(w)))
<1> DEFINE u == Used(r)
           n == Len(q)
           q1 == Append(q, m)
           s1 == Append(st, Used(w))
           z == SizeOf(dyn, m)
           l == LenPart(dyn)
<1>1. /\ MsgLen[m] \in Nat /\ l \in Nat /\ z \in Nat /\ z = l + MsgLen[m] /\ RING_BUF_LEN \in Nat
      /\ dyn => l = RING_BUF_LEN
  BY Sizes
<1>2. /\ q \in Seq(Msg) /\ st \in Seq(Nat) /\ Len(st) = n + 1 /\ n \in Nat
      /\ st[1] = 0 /\ st[n + 1] = u /\ u \in Nat
      /\ \A i, j \in 1 .. n + 1 : i <= j => st[i] <= st[j]
  BY RingFields, LenProperties DEF Holds
<1>3. Used(w) = u + z /\ Len(bytes) \in Nat /\ \A k \in 1 .. z : ByteAt(w, u + k - 1) = bytes[k]
  BY <1>1 DEF Pushed, PieceOf
<1>4. u + z \in Nat
  BY <1>1, <1>2
<1>5. /\ q1 \in Seq(Msg) /\ Len(q1) = n + 1 /\ q1[n + 1] = m
      /\ \A i \in 1 .. n : q1[i] = q[i]
  BY <1>2, AppendProperties
<1>6. /\ s1 \in Seq(Nat) /\ Len(s1) = n + 2 /\ s1[n + 2] = u + z
      /\ \A i \in 1 .. n + 1 : s1[i] = st[i]
  <2>1. /\ s1 \in Seq(Nat) /\ Len(s1) = n + 1 + 1 /\ s1[n + 1 + 1] = Used(w)
        /\ \A i \in 1 .. n + 1 : s1[i] = st[i]
    BY <1>2, <1>3, <1>4, AppendProperties
  <2>2. n + 1 + 1 = n + 2
    BY <1>2
  <2> QED
    BY <1>3, <2>1, <2>2
<1> HIDE DEF u, n, q1, s1, z, l
<1>7. ASSUME NEW i \in 1 .. n
      PROVE  MsgAt(w, dyn, s1[i], q1[i]) /\ s1[i + 1] = s1[i] + SizeOf(dyn, q1[i])
  <2>1. MsgAt(r, dyn, st[i], q[i]) /\ st[i + 1] = st[i] + SizeOf(dyn, q[i])
    BY DEF Holds, n
  <2>2. i \in 1 .. n + 1 /\ i + 1 \in 1 .. n + 1
    BY <1>2
  <2>3. st[i] \in Nat
    BY <1>2, <2>2, ElementOfSeq
  <2>4. MsgAt(w, dyn, st[i], q[i])
    BY <1>3, <2>1, <2>3, MsgStays
  <2> QED
    BY <1>5, <1>6, <2>1, <2>2, <2>4
<1>8. MsgAt(w, dyn, s1[n + 1], q1[n + 1]) /\ s1[n + 1 + 1] = s1[n + 1] + SizeOf(dyn, q1[n + 1])
  <2>1. n + 1 \in 1 .. n + 1 /\ n + 1 + 1 = n + 2
    BY <1>2
  <2>2. s1[n + 1] = u /\ s1[n + 1 + 1] = u + z
    BY <1>2, <1>6, <2>1
  <2>3. ASSUME dyn, NEW k \in 1 .. RING_BUF_LEN
        PROVE  ByteAt(w, u + k - 1) = Byte("len", MsgLen[m], k)
    <3>1. k \in 1 .. z
      BY <1>1, <2>3
    <3> QED
      BY <1>3, <2>3, <3>1 DEF PieceOf
  <2>4. ASSUME NEW k \in 1 .. MsgLen[m] PROVE ByteAt(w, u + l + k - 1) = Byte("msg", m, k)
    <3>1. l + k \in 1 .. z /\ u + (l + k) - 1 = u + l + k - 1
      BY <1>1, <1>2
    <3>2. bytes[l + k] = Byte("msg", m, k)
      BY DEF PieceOf, l
    <3>3. ByteAt(w, u + (l + k) - 1) = bytes[l + k]
      BY <1>3, <3>1
    <3> QED
      BY <3>1, <3>2, <3>3
  <2>5. MsgAt(w, dyn, u, m)
    <3>1. u + z <= Used(w)
      BY <1>3, <1>4
    <3> QED
      BY <2>3, <2>4, <3>1 DEF MsgAt, l, z
  <2> QED
    BY <1>5, <2>2, <2>5 DEF z
<1>9. \A i \in 1 .. n + 1 : MsgAt(w, dyn, s1[i], q1[i]) /\ s1[i + 1] = s1[i] + SizeOf(dyn, q1[i])
  <2>1. \A i \in 1 .. n + 1 : i \in 1 .. n \/ i = n + 1
    BY <1>2
  <2> QED
    BY <1>7, <1>8, <2>1
<1>10. ASSUME NEW i \in 1 .. n + 2, NEW j \in 1 .. n + 2, i <= j PROVE s1[i] <= s1[j]
  <2>1. CASE j \in 1 .. n + 1
    <3>1. i \in 1 .. n + 1
      BY <1>2, <1>10, <2>1
    <3> QED
      BY <1>2, <1>6, <1>10, <2>1, <3>1
  <2>2. CASE j = n + 2 /\ i \in 1 .. n + 1
    <3>1. st[i] <= st[n + 1] /\ st[i] \in Nat
      <4>1. n + 1 \in 1 .. n + 1 /\ i <= n + 1
        BY <1>2, <2>2
      <4> QED
        BY <1>2, <2>2, <4>1, ElementOfSeq
    <3>2. st[i] <= u + z
      BY <1>1, <1>2, <3>1
    <3> QED
      BY <1>6, <2>2, <3>2
  <2>3. CASE j = n + 2 /\ i = n + 2
    BY <1>4, <1>6, <2>3
  <2>4. (j \in 1 .. n + 1 \/ j = n + 2) /\ (i \in 1 .. n + 1 \/ i = n + 2)
    BY <1>2
  <2> QED
    BY <2>1, <2>2, <2>3, <2>4
<1>11. s1[1] = 0 /\ n + 1 + 1 = n + 2
  <2>1. 1 \in 1 .. n + 1
    BY <1>2
  <2> QED
    BY <1>2, <1>6, <2>1
<1>12. /\ q1 \in Seq(Msg) /\ s1 \in Seq(Nat) /\ Len(s1) = Len(q1) + 1
       /\ s1[1] = 0 /\ s1[Len(q1) + 1] = Used(w) /\ Len(q1) + 1 = n + 2
  BY <1>3, <1>5, <1>6, <1>11
<1> QED
  BY <1>5, <1>9, <1>10, <1>12 DEF Holds, q1, s1

(* A message moves to the front when those before it are popped. *)
LEMMA MsgMoves ==
  ASSUME NEW r, RingOK(r), NEW n \in Nat, NEW w, Popped(r, n, w),
         NEW dyn \in BOOLEAN, NEW o \in Nat, NEW m, MsgAt(r, dyn, o + n, m)
  PROVE  MsgAt(w, dyn, o, m)
<1> DEFINE u == Used(r)
           l == LenPart(dyn)
           z == SizeOf(dyn, m)
<1>1. m \in Msg /\ o + n + z <= u /\ u \in Nat
  BY RingFields DEF MsgAt
<1>2. /\ MsgLen[m] \in Nat /\ l \in Nat /\ z = l + MsgLen[m] /\ RING_BUF_LEN \in Nat
      /\ dyn => l = RING_BUF_LEN
  BY <1>1, Sizes
<1>3. Used(w) = u - n /\ \A p \in 0 .. u - n - 1 : ByteAt(w, p) = ByteAt(r, p + n)
  BY DEF Popped
<1> HIDE DEF u, l, z
<1>4. o + z <= Used(w)
  BY <1>1, <1>2, <1>3
<1>5. ASSUME dyn, NEW k \in 1 .. RING_BUF_LEN PROVE ByteAt(w, o + k - 1) = Byte("len", MsgLen[m], k)
  <2>1. o + k - 1 \in 0 .. u - n - 1 /\ o + k - 1 + n = o + n + k - 1
    BY <1>1, <1>2, <1>5
  <2>2. ByteAt(r, o + n + k - 1) = Byte("len", MsgLen[m], k)
    BY <1>5 DEF MsgAt
  <2>3. ByteAt(w, o + k - 1) = ByteAt(r, o + k - 1 + n)
    BY <1>3, <2>1
  <2> QED
    BY <2>1, <2>2, <2>3
<1>6. ASSUME NEW k \in 1 .. MsgLen[m] PROVE ByteAt(w, o + l + k - 1) = Byte("msg", m, k)
  <2>1. o + l + k - 1 \in 0 .. u - n - 1 /\ o + l + k - 1 + n = o + n + l + k - 1
    BY <1>1, <1>2
  <2>2. ByteAt(r, o + n + l + k - 1) = Byte("msg", m, k)
    BY DEF MsgAt, l
  <2>3. ByteAt(w, o + l + k - 1) = ByteAt(r, o + l + k - 1 + n)
    BY <1>3, <2>1
  <2> QED
    BY <2>1, <2>2, <2>3
<1> QED
  BY <1>1, <1>4, <1>5, <1>6 DEF MsgAt, l, z

(* A ring from which the first message was popped. *)
LEMMA PopHolds ==
  ASSUME NEW r, RingOK(r), NEW dyn \in BOOLEAN, NEW q, NEW st, Holds(r, dyn, q, st), q # <<>>,
         NEW w, Popped(r, SizeOf(dyn, q[1]), w)
  PROVE  Holds(w, dyn, Tail(q), [i \in 1 .. Len(q) |-> st[i + 1] - SizeOf(dyn, q[1])])
<1> DEFINE u == Used(r)
           n == Len(q)
           z == SizeOf(dyn, q[1])
           q1 == Tail(q)
           s1 == [i \in 1 .. n |-> st[i + 1] - z]
<1>1. /\ q \in Seq(Msg) /\ st \in Seq(Nat) /\ Len(st) = n + 1 /\ n \in Nat \ {0}
      /\ st[1] = 0 /\ st[n + 1] = u /\ u \in Nat
      /\ \A i, j \in 1 .. n + 1 : i <= j => st[i] <= st[j]
      /\ \A i \in 1 .. n : MsgAt(r, dyn, st[i], q[i]) /\ st[i + 1] = st[i] + SizeOf(dyn, q[i])
  BY RingFields, LenProperties, EmptySeq DEF Holds
<1>2. q[1] \in Msg /\ z \in Nat /\ z > 0
  <2>1. 1 \in 1 .. n
    BY <1>1
  <2>2. q[1] \in Msg
    BY <1>1, <2>1, ElementOfSeq
  <2> QED
    BY <2>2, Sizes
<1>3. /\ q1 \in Seq(Msg) /\ Len(q1) = n - 1
      /\ \A i \in 1 .. n - 1 : q1[i] = q[i + 1]
  BY <1>1, HeadTailProperties
<1>4. Used(w) = u - z
  BY DEF Popped
<1> HIDE DEF u, n, q1, s1, z
<1>5. \A i \in 1 .. n + 1 : st[i] \in Nat
  BY <1>1, ElementOfSeq
<1>6. st[2] = z
  <2>1. 1 \in 1 .. n /\ 1 + 1 = 2
    BY <1>1
  <2>2. st[1 + 1] = st[1] + z
    BY <1>1, <2>1 DEF z
  <2> QED
    BY <1>1, <1>2, <2>1, <2>2
<1>7. \A i \in 1 .. n : st[i + 1] >= z /\ st[i + 1] - z \in Nat /\ s1[i] = st[i + 1] - z
  <2> TAKE i \in 1 .. n
  <2>1. i + 1 \in 1 .. n + 1 /\ 2 \in 1 .. n + 1 /\ 2 <= i + 1
    BY <1>1
  <2>2. st[2] <= st[i + 1] /\ st[i + 1] \in Nat
    BY <1>1, <1>5, <2>1
  <2>3. s1[i] = st[i + 1] - z
    BY DEF s1
  <2> QED
    BY <1>2, <1>6, <2>2, <2>3
<1>8. s1 \in Seq(Nat) /\ Len(s1) = n
  <2>1. s1 \in [1 .. n -> Nat]
    BY <1>7 DEF s1
  <2>2. s1 \in Seq(Nat)
    BY <1>1, <2>1
  <2>3. DOMAIN s1 = 1 .. n /\ DOMAIN s1 = 1 .. Len(s1) /\ Len(s1) \in Nat
    BY <2>1, <2>2, LenProperties
  <2> QED
    BY <1>1, <2>2, <2>3
<1>9. s1[1] = 0 /\ s1[n] = Used(w)
  <2>1. 1 \in 1 .. n /\ n \in 1 .. n /\ 1 + 1 = 2
    BY <1>1
  <2>2. s1[1] = st[2] - z /\ s1[n] = st[n + 1] - z
    BY <1>7, <2>1
  <2> QED
    BY <1>1, <1>2, <1>4, <1>6, <2>2
<1>10. ASSUME NEW i \in 1 .. n, NEW j \in 1 .. n, i <= j PROVE s1[i] <= s1[j]
  <2>1. i + 1 \in 1 .. n + 1 /\ j + 1 \in 1 .. n + 1 /\ i + 1 <= j + 1
    BY <1>1, <1>10
  <2>2. st[i + 1] <= st[j + 1] /\ st[i + 1] \in Nat /\ st[j + 1] \in Nat
    BY <1>1, <1>5, <2>1
  <2>3. st[i + 1] - z <= st[j + 1] - z
    BY <1>2, <2>2
  <2> QED
    BY <1>7, <2>3
<1>11. ASSUME NEW i \in 1 .. n - 1
       PROVE  MsgAt(w, dyn, s1[i], q1[i]) /\ s1[i + 1] = s1[i] + SizeOf(dyn, q1[i])
  <2>1. i \in 1 .. n /\ i + 1 \in 1 .. n /\ i + 1 + 1 \in 1 .. n + 1 /\ i + 1 \in 1 .. n + 1
    BY <1>1
  <2>2. /\ MsgAt(r, dyn, st[i + 1], q[i + 1]) /\ st[i + 1 + 1] = st[i + 1] + SizeOf(dyn, q[i + 1])
        /\ q1[i] = q[i + 1] /\ s1[i] = st[i + 1] - z /\ s1[i + 1] = st[i + 1 + 1] - z
    BY <1>1, <1>3, <1>7, <2>1
  <2>3. st[i + 1] \in Nat /\ st[i + 1] - z \in Nat /\ SizeOf(dyn, q[i + 1]) \in Nat
    <3>1. q[i + 1] \in Msg
      BY <1>1, <2>1, ElementOfSeq DEF n
    <3> QED
      BY <1>5, <1>7, <2>1, <3>1, Sizes
  <2>4. s1[i] + z = st[i + 1] /\ s1[i] \in Nat /\ s1[i + 1] = s1[i] + SizeOf(dyn, q1[i])
    BY <1>2, <2>2, <2>3
  <2>5. Popped(r, z, w)
    BY DEF z
  <2>6. MsgAt(r, dyn, s1[i] + z, q1[i])
    BY <2>2, <2>4
  <2>7. MsgAt(w, dyn, s1[i], q1[i])
    BY <1>2, <2>4, <2>5, <2>6, MsgMoves
  <2> QED
    BY <2>4, <2>7
<1>12. /\ Len(q1) + 1 = n /\ Len(q1) = n - 1
  BY <1>1, <1>3
<1> QED
  BY <1>3, <1>8, <1>9, <1>10, <1>11, <1>12 DEF Holds, q1, s1, n, z

-----------------------------------------------------------------------------
(* ringbuf_push and ringbuf_pop of a dynamic ring: the length, then the data. *)
LEMMA DynPushes ==
  ASSUME NEW r, RingOK(r), NEW m \in Msg, ~DynFull(r, m)
  PROVE  \E bytes : PieceOf(TRUE, m, bytes) /\ Pushed(r, bytes, DynPush(r, m))
<1> DEFINE a == LenBytes(MsgLen[m])
           b == MsgBytes(m)
           v == Put(r, a)
           f == r.freesize
           n == MsgLen[m]
           l == RING_BUF_LEN
<1>1. /\ a \in Seq(ByteSet) /\ Len(a) = l /\ \A k \in 1 .. l : a[k] = Byte("len", n, k)
      /\ b \in Seq(ByteSet) /\ Len(b) = n /\ \A k \in 1 .. n : b[k] = Byte("msg", m, k)
      /\ n \in 1 .. RingSize
  BY PieceBytes
<1>2. l \in Nat \ {0} /\ f \in Nat /\ RingSize \in Nat /\ ~(f < l + n)
  BY RingFields DEF DynFull
<1> HIDE DEF a, b, n, f, l
<1>3. 0 < l /\ l <= f /\ 0 < n /\ n <= f - l
  BY <1>1, <1>2
<1>4. Pushed(r, a, v)
  BY <1>1, <1>3, PutPushes DEF f
<1>5. RingOK(v) /\ Used(v) = Used(r) + l
  BY <1>1, <1>4 DEF Pushed
<1>6. v.freesize = f - l
  <2>1. v.freesize \in Int /\ RingSize - v.freesize = (RingSize - f) + l
    <3>1. v.freesize \in 0 .. RingSize
      BY <1>5, RingFields
    <3>2. RingSize - v.freesize = (RingSize - f) + l
      BY <1>5 DEF Used, f
    <3> QED
      BY <3>1, <3>2
  <2> HIDE DEF v
  <2> QED
    BY <1>2, <2>1
<1> HIDE DEF v
<1>7. Pushed(v, b, Put(v, b))
  BY <1>1, <1>3, <1>5, <1>6, PutPushes
<1>8. Pushed(r, a \o b, Put(v, b))
  BY <1>1, <1>4, <1>7, PushedTwice
<1>9. PieceOf(TRUE, m, a \o b)
  <2>1. /\ a \o b \in Seq(ByteSet) /\ Len(a \o b) = l + n
        /\ \A k \in 1 .. l + n : (a \o b)[k] = IF k <= l THEN a[k] ELSE b[k - l]
    BY <1>1, ConcatProperties
  <2>2. LenPart(TRUE) = l /\ SizeOf(TRUE, m) = l + n
    BY DEF LenPart, SizeOf, l, n
  <2>3. ASSUME NEW k \in 1 .. l PROVE (a \o b)[k] = Byte("len", n, k)
    <3>1. k \in 1 .. l + n /\ k <= l
      BY <1>1, <1>2
    <3> QED
      BY <1>1, <2>1, <3>1
  <2>4. ASSUME NEW k \in 1 .. n PROVE (a \o b)[l + k] = Byte("msg", m, k)
    <3> DEFINE j == l + k
    <3>1. j \in 1 .. l + n /\ ~(j <= l) /\ j - l = k
      BY <1>1, <1>2
    <3> HIDE DEF j
    <3>2. (a \o b)[j] = b[j - l]
      BY <2>1, <3>1
    <3>3. (a \o b)[j] = Byte("msg", m, k)
      BY <1>1, <3>1, <3>2
    <3> QED
      BY <3>3 DEF j
  <2> QED
    BY <2>1, <2>2, <2>3, <2>4 DEF PieceOf, l, n
<1>10. DynPush(r, m) = Put(v, b)
  BY DEF DynPush, v, a, b
<1> QED
  BY <1>8, <1>9, <1>10

(* ringbuf_pop of a dynamic ring takes the first message off, and gets it whole. *)
LEMMA DynPops ==
  ASSUME NEW r, RingOK(r), NEW q, NEW st, Holds(r, TRUE, q, st), q # <<>>
  PROVE  /\ Popped(r, SizeOf(TRUE, q[1]), DynPop(r).ring)
         /\ MsgOf(DynPop(r).bytes) = q[1]
<1> DEFINE m == q[1]
           n == MsgLen[m]
           l == RING_BUF_LEN
           g == TakeLen(r)
           h == TakeData(g.ring, LenOf(g.bytes))
<1>1. MsgAt(r, TRUE, 0, m) /\ m \in Msg
  <2>1. q \in Seq(Msg) /\ Len(q) \in Nat \ {0} /\ st[1] = 0
    BY EmptySeq DEF Holds
  <2>2. 1 \in 1 .. Len(q)
    BY <2>1
  <2> QED
    BY <2>1, <2>2, ElementOfSeq DEF Holds
<1>2. LenPart(TRUE) = l /\ SizeOf(TRUE, m) = l + n
  BY DEF LenPart, SizeOf
<1>3. /\ 0 + (l + n) <= Used(r)
      /\ \A k \in 1 .. l : ByteAt(r, 0 + k - 1) = Byte("len", n, k)
      /\ \A k \in 1 .. n : ByteAt(r, 0 + l + k - 1) = Byte("msg", m, k)
  BY <1>1, <1>2 DEF MsgAt
<1>4. /\ n \in 1 .. RingSize /\ l \in Nat \ {0} /\ RingSize \in Nat /\ Used(r) \in 0 .. RingSize
  BY <1>1, PieceBytes, RingFields
<1> HIDE DEF m, n, l
<1>5. Taken(r, l, g)
  <2>1. l <= Used(r)
    BY <1>3, <1>4
  <2> QED
    BY <2>1, LenTaken DEF l
<1>6. LenOf(g.bytes) = n
  <2>1. g.bytes \in Seq(ByteSet) /\ Len(g.bytes) = l /\ \A k \in 1 .. l : g.bytes[k] = ByteAt(r, k - 1)
    BY <1>5 DEF Taken, FirstBytes
  <2>2. \A k \in 1 .. l : g.bytes[k] = Byte("len", n, k)
    <3> TAKE k \in 1 .. l
    <3>1. 0 + k - 1 = k - 1
      BY <1>4
    <3> QED
      BY <1>3, <2>1, <3>1
  <2> QED
    BY <1>4, <2>1, <2>2, LenOfBytes DEF l
<1>7. /\ RingOK(g.ring) /\ Used(g.ring) = Used(r) - l
      /\ \A o \in 0 .. Used(g.ring) - 1 : ByteAt(g.ring, o) = ByteAt(r, o + l)
  BY <1>5 DEF Taken, Popped
<1> HIDE DEF g
<1>8. Taken(g.ring, n, h)
  <2>1. Used(g.ring) < RingSize /\ n \in 1 .. Used(g.ring)
    BY <1>3, <1>4, <1>7
  <2> QED
    BY <1>6, <1>7, <2>1, DataTaken
<1>9. MsgOf(h.bytes) = m
  <2>1. h.bytes \in Seq(ByteSet) /\ Len(h.bytes) = n /\ \A k \in 1 .. n : h.bytes[k] = ByteAt(g.ring, k - 1)
    BY <1>8 DEF Taken, FirstBytes
  <2>2. \A k \in 1 .. n : h.bytes[k] = Byte("msg", m, k)
    <3> TAKE k \in 1 .. n
    <3>1. k - 1 \in 0 .. Used(g.ring) - 1 /\ k - 1 + l = 0 + l + k - 1
      BY <1>3, <1>4, <1>7
    <3>2. ByteAt(g.ring, k - 1) = ByteAt(r, 0 + l + k - 1)
      BY <1>7, <3>1
    <3> QED
      BY <1>3, <2>1, <3>2
  <2> QED
    BY <1>1, <2>1, <2>2, MsgOfBytes DEF n
<1>10. Popped(r, l + n, h.ring)
  <2>1. RingOK(h.ring) /\ Used(h.ring) = Used(g.ring) - n
        /\ \A o \in 0 .. Used(h.ring) - 1 : ByteAt(h.ring, o) = ByteAt(g.ring, o + n)
    BY <1>8 DEF Taken, Popped
  <2> HIDE DEF h
  <2>2. Used(h.ring) = Used(r) - (l + n)
    BY <1>4, <1>7, <2>1
  <2>3. ASSUME NEW o \in 0 .. Used(h.ring) - 1 PROVE ByteAt(h.ring, o) = ByteAt(r, o + (l + n))
    <3>1. o + n \in 0 .. Used(g.ring) - 1 /\ o + n + l = o + (l + n)
      BY <1>3, <1>4, <1>7, <2>2
    <3>2. ByteAt(g.ring, o + n) = ByteAt(r, o + n + l)
      BY <1>7, <3>1
    <3> QED
      BY <2>1, <3>1, <3>2
  <2> QED
    BY <2>1, <2>2, <2>3 DEF Popped
<1>11. DynPop(r) = h
  BY DEF DynPop, g
<1> QED
  BY <1>2, <1>9, <1>10, <1>11 DEF m

(* Those of a ring with messages of one size: nothing is ever broken at the end, since
   head and tail are multiples of the size, as the end is. *)
Aligned(x) == \E a \in Nat : x = a * BlkSize

(* Between two places that blocks start at there is room for a block. *)
LEMMA AlignedFits ==
  /\ \A x, y \in Nat : Aligned(x) /\ Aligned(y) /\ x < y => x + BlkSize <= y
  /\ \A x \in Nat : Aligned(x) => Aligned(x + BlkSize)
  /\ Aligned(0) /\ Aligned(RingSize) /\ BlkSize \in Nat \ {0} /\ RingSize \in Nat \ {0}
<1>1. BlkSize \in Nat \ {0} /\ RingSize \in Nat \ {0} /\ RingSize % BlkSize = 0
  BY BlkAssumption, RingAssumption
<1>2. ASSUME NEW x \in Nat, NEW y \in Nat, Aligned(x), Aligned(y), x < y PROVE x + BlkSize <= y
  <2>1. PICK a \in Nat : x = a * BlkSize
    BY <1>2 DEF Aligned
  <2>2. PICK b \in Nat : y = b * BlkSize
    BY <1>2 DEF Aligned
  <2>3. a * BlkSize < b * BlkSize => a * BlkSize + BlkSize <= b * BlkSize
    BY <1>1
  <2> QED
    BY <1>2, <2>1, <2>2, <2>3
<1>3. ASSUME NEW x \in Nat, Aligned(x) PROVE Aligned(x + BlkSize)
  <2>1. PICK a \in Nat : x = a * BlkSize
    BY <1>3 DEF Aligned
  <2>2. (a + 1) * BlkSize = a * BlkSize + BlkSize /\ a + 1 \in Nat
    BY <1>1
  <2> QED
    BY <2>1, <2>2 DEF Aligned
<1>4. Aligned(0)
  <2>1. 0 * BlkSize = 0
    BY <1>1
  <2> QED
    BY <2>1 DEF Aligned
<1>5. Aligned(RingSize)
  <2>1. \E a \in Nat : RingSize = a * BlkSize
    BY <1>1
  <2> QED
    BY <2>1 DEF Aligned
<1> QED
  BY <1>1, <1>2, <1>3, <1>4, <1>5

(* ringbuf_push of a fixed ring never has to break a block. *)
LEMMA FixPushes ==
  ASSUME NEW r, RingOK(r), NEW m \in Msg, MsgLen[m] = BlkSize, BlkSize <= r.freesize,
         Aligned(r.head), Aligned(r.tail)
  PROVE  /\ PieceOf(FALSE, m, MsgBytes(m)) /\ Pushed(r, MsgBytes(m), FixPush(r, m))
         /\ Aligned(FixPush(r, m).head) /\ Aligned(FixPush(r, m).tail)
<1> DEFINE w == WrapTail(r)
           b == MsgBytes(m)
<1>1. b \in Seq(ByteSet) /\ Len(b) = BlkSize /\ \A k \in 1 .. BlkSize : b[k] = Byte("msg", m, k)
  BY PieceBytes
<1>2. r.freesize > 0 /\ RingSize \in Nat \ {0} /\ BlkSize \in Nat \ {0} /\ r.freesize \in Nat
  BY RingFields, AlignedFits
<1>3. /\ Alike(r, w) /\ w.tail \in 0 .. RingSize - 1 /\ w.head = r.head
      /\ w.tail = IF r.tail = RingSize THEN 0 ELSE r.tail
  BY <1>2, WrapTailAlike
<1>4. Aligned(w.tail)
  BY <1>3, AlignedFits
<1>5. w.tail \in Nat /\ w.tail + BlkSize <= RingSize
  BY <1>2, <1>3, <1>4, AlignedFits
<1>6. RingOK(w) /\ BlkSize <= w.freesize
  BY <1>3 DEF Alike
<1> HIDE DEF w, b
<1>7. /\ Pushed(w, b, Write(w, b)) /\ Write(w, b).tail = w.tail + BlkSize
      /\ Write(w, b).head = w.head
  BY <1>1, <1>5, <1>6, WritePushes
<1>8. FixPush(r, m) = Write(w, b)
  BY DEF FixPush, w, b
<1>9. PieceOf(FALSE, m, b)
  <2>1. LenPart(FALSE) = 0 /\ SizeOf(FALSE, m) = 0 + BlkSize /\ 0 + BlkSize = BlkSize
    BY <1>2 DEF LenPart, SizeOf
  <2>2. \A k \in 1 .. BlkSize : b[0 + k] = Byte("msg", m, k)
    <3> TAKE k \in 1 .. BlkSize
    <3>1. 0 + k = k
      BY <1>2
    <3> QED
      BY <1>1, <3>1
  <2> QED
    BY <1>1, <2>1, <2>2 DEF PieceOf
<1>10. Pushed(r, b, Write(w, b))
  BY <1>3, <1>7, AlikePushed
<1>11. Aligned(Write(w, b).head) /\ Aligned(Write(w, b).tail)
  BY <1>3, <1>4, <1>5, <1>7, AlignedFits
<1> QED
  BY <1>8, <1>9, <1>10, <1>11 DEF b

(* Neither has ringbuf_pop. *)
LEMMA FixPops ==
  ASSUME NEW r, RingOK(r), NEW q, NEW st, Holds(r, FALSE, q, st), q # <<>>,
         MsgLen[q[1]] = BlkSize, Aligned(r.head), Aligned(r.tail)
  PROVE  /\ Popped(r, SizeOf(FALSE, q[1]), FixPop(r, BlkSize).ring)
         /\ MsgOf(FixPop(r, BlkSize).bytes) = q[1]
         /\ Aligned(FixPop(r, BlkSize).ring.head) /\ Aligned(FixPop(r, BlkSize).ring.tail)
<1> DEFINE m == q[1]
           w == WrapHead(r)
<1>1. MsgAt(r, FALSE, 0, m) /\ m \in Msg
  <2>1. q \in Seq(Msg) /\ Len(q) \in Nat \ {0} /\ st[1] = 0
    BY EmptySeq DEF Holds
  <2>2. 1 \in 1 .. Len(q)
    BY <2>1
  <2> QED
    BY <2>1, <2>2, ElementOfSeq DEF Holds
<1>2. BlkSize \in Nat \ {0} /\ RingSize \in Nat \ {0}
  BY AlignedFits
<1>3. LenPart(FALSE) = 0 /\ SizeOf(FALSE, m) = 0 + BlkSize /\ 0 + BlkSize = BlkSize
  BY <1>2 DEF LenPart, SizeOf
<1>4. /\ 0 + BlkSize <= Used(r) /\ Used(r) \in Nat
      /\ \A k \in 1 .. BlkSize : ByteAt(r, 0 + 0 + k - 1) = Byte("msg", m, k)
  <2>1. Used(r) \in Nat
    BY RingFields
  <2>2. MsgLen[m] = BlkSize
    OBVIOUS
  <2> HIDE DEF m
  <2>3. 0 + SizeOf(FALSE, m) <= Used(r)
    BY <1>1 DEF MsgAt
  <2>4. \A k \in 1 .. MsgLen[m] : ByteAt(r, 0 + LenPart(FALSE) + k - 1) = Byte("msg", m, k)
    BY <1>1 DEF MsgAt
  <2> QED
    BY <1>3, <2>1, <2>2, <2>3, <2>4
<1>5. Used(r) > 0 /\ BlkSize \in 0 .. Used(r)
  BY <1>2, <1>4
<1>6. Alike(r, w) /\ w.head \in 0 .. RingSize - 1 /\ w.tail = r.tail
  BY <1>5, WrapHeadAlike
<1>7. Aligned(w.head)
  BY AlignedFits DEF WrapHead, RingOK, RingType
<1>8. w.head + BlkSize <= RingSize
  BY <1>2, <1>6, <1>7, AlignedFits
<1>9. RingOK(w) /\ Used(w) = Used(r)
  BY <1>6 DEF Alike
<1> HIDE DEF w
<1>10. /\ Taken(w, BlkSize, [ring |-> Skip(w, BlkSize), bytes |-> Read(w, BlkSize)])
       /\ Skip(w, BlkSize).head = w.head + BlkSize /\ Skip(w, BlkSize).tail = w.tail
  BY <1>5, <1>8, <1>9, SkipPops DEF Taken
<1>11. FixPop(r, BlkSize) = [ring |-> Skip(w, BlkSize), bytes |-> Read(w, BlkSize)]
  BY DEF FixPop, Got, w
<1>12. Taken(r, BlkSize, FixPop(r, BlkSize))
  BY <1>5, <1>6, <1>10, <1>11, AlikeTaken
<1>13. MsgOf(FixPop(r, BlkSize).bytes) = m
  <2> DEFINE s == FixPop(r, BlkSize).bytes
  <2>1. s \in Seq(ByteSet) /\ Len(s) = BlkSize /\ \A k \in 1 .. BlkSize : s[k] = ByteAt(r, k - 1)
    BY <1>12 DEF Taken, FirstBytes
  <2> HIDE DEF s
  <2>2. \A k \in 1 .. BlkSize : s[k] = Byte("msg", m, k)
    <3> TAKE k \in 1 .. BlkSize
    <3>1. 0 + 0 + k - 1 = k - 1
      BY <1>2
    <3> QED
      BY <1>4, <2>1, <3>1
  <2>3. MsgOf(s) = m
    BY <1>1, <2>1, <2>2, MsgOfBytes
  <2> QED
    BY <2>3 DEF s
<1>14. Aligned(Skip(w, BlkSize).head) /\ Aligned(Skip(w, BlkSize).tail)
  BY <1>6, <1>7, <1>10, AlignedFits
<1>15. FixPop(r, BlkSize).ring = Skip(w, BlkSize)
  BY <1>11
<1>16. Popped(r, SizeOf(FALSE, m), FixPop(r, BlkSize).ring)
  BY <1>3, <1>12 DEF Taken
<1> QED
  BY <1>13, <1>14, <1>15, <1>16

-----------------------------------------------------------------------------
(* The reference Before reads the same bytes. *)
LEMMA BeforeBytes ==
  ASSUME NEW r, RingOK(r), NEW n \in 0 .. Used(r)
  PROVE  /\ Before(r, n) \in Seq(ByteSet) /\ Len(Before(r, n)) = n
         /\ \A k \in 1 .. n : Before(r, n)[k] = ByteAt(r, Used(r) - n + k - 1)
<1> DEFINE u == Used(r)
           h == r.head
           t == r.tail
           R == RingSize
           s == Before(r, n)
<1>1. /\ h \in 0 .. R /\ t \in 0 .. R /\ u \in 0 .. R /\ R \in Nat \ {0} /\ n \in 0 .. u
      /\ (h + u = t \/ h + u = t + R)
  BY RingFields
<1>2. r.buf \in [0 .. R - 1 -> ByteSet]
  BY RingFields
<1>3. s = [k \in 1 .. n |-> r.buf[(t - n + k - 1 + R) % R]]
  BY DEF Before
<1>4. \A o : ByteAt(r, o) = r.buf[Place(h, o)]
  BY DEF ByteAt
<1>5. \A o : Place(h, o) = IF h + o < R THEN h + o ELSE h + o - R
  BY DEF Place
<1> HIDE DEF u, h, t, R, s
<1>6. ASSUME NEW k \in 1 .. n
      PROVE  s[k] = ByteAt(r, u - n + k - 1) /\ s[k] \in ByteSet
  <2> DEFINE x == t - n + k - 1 + R
             p == Place(h, u - n + k - 1)
  <2>1. p \in 0 .. R - 1 /\ (x = p \/ x = p + R)
    BY <1>1, <1>5
  <2> HIDE DEF x, p
  <2>2. p % R = p /\ (p + R) % R = p
    BY <1>1, <2>1
  <2>3. x % R = p
    BY <2>1, <2>2
  <2>4. s[k] = r.buf[x % R]
    BY <1>3 DEF x
  <2>5. ByteAt(r, u - n + k - 1) = r.buf[p]
    BY <1>4 DEF p
  <2> QED
    BY <1>2, <2>1, <2>3, <2>4, <2>5
<1>7. n \in Nat /\ s \in [1 .. n -> ByteSet]
  <2>1. n \in Nat
    BY <1>1
  <2>2. s = [k \in 1 .. n |-> s[k]]
    BY <1>3
  <2>3. \A k \in 1 .. n : s[k] \in ByteSet
    BY <1>6
  <2> QED
    BY <2>1, <2>2, <2>3
<1>8. s \in Seq(ByteSet)
  BY <1>7
<1>9. DOMAIN s = 1 .. n /\ DOMAIN s = 1 .. Len(s) /\ Len(s) \in Nat
  BY <1>7, <1>8, LenProperties
<1> QED
  BY <1>6, <1>7, <1>8, <1>9 DEF s, u

(* A piece of the ring as the reference cuts it out. *)
LEMMA CutBytes ==
  ASSUME NEW r, RingOK(r), NEW n \in 0 .. Used(r), NEW i \in 1 .. n + 1, NEW j \in i - 1 .. n
  PROVE  /\ SubSeq(Before(r, n), i, j) \in Seq(ByteSet) /\ Len(SubSeq(Before(r, n), i, j)) = j - i + 1
         /\ \A k \in 1 .. j - i + 1 : SubSeq(Before(r, n), i, j)[k] = ByteAt(r, Used(r) - n + (i + k - 1) - 1)
<1> DEFINE s == Before(r, n)
           c == SubSeq(s, i, j)
<1>1. n \in Nat /\ Used(r) \in Nat /\ i \in Nat /\ j \in Int /\ i \in Int
  BY RingFields
<1>2. s \in Seq(ByteSet) /\ Len(s) = n /\ \A k \in 1 .. n : s[k] = ByteAt(r, Used(r) - n + k - 1)
  BY BeforeBytes
<1> HIDE DEF s
<1>3. \A k \in i .. j : s[k] \in ByteSet
  <2> TAKE k \in i .. j
  <2>1. k \in 1 .. Len(s)
    BY <1>1, <1>2
  <2> QED
    BY <1>2, <2>1, ElementOfSeq
<1>4. /\ c \in Seq(ByteSet) /\ Len(c) = IF i <= j THEN j - i + 1 ELSE 0
      /\ \A k \in 1 .. j - i + 1 : c[k] = s[i + k - 1]
  BY <1>1, <1>3, SubSeqProperties
<1> HIDE DEF c
<1>5. Len(c) = j - i + 1
  BY <1>1, <1>4
<1>6. ASSUME NEW k \in 1 .. j - i + 1 PROVE c[k] = ByteAt(r, Used(r) - n + (i + k - 1) - 1)
  <2>1. i + k - 1 \in 1 .. n
    BY <1>1
  <2> QED
    BY <1>2, <1>4, <2>1
<1> QED
  BY <1>4, <1>5, <1>6 DEF c, s

(* The message that begins after o bytes, as the reference reads it. *)
LEMMA MsgRead ==
  ASSUME NEW r, RingOK(r), NEW dyn \in BOOLEAN, NEW n \in 0 .. Used(r), NEW m, NEW i \in Nat,
         i + SizeOf(dyn, m) <= n, MsgAt(r, dyn, Used(r) - n + i, m)
  PROVE  LET l == i + LenPart(dyn)
         IN  MsgOf(SubSeq(Before(r, n), l + 1, l + MsgLen[m])) = m
<1> DEFINE l == i + LenPart(dyn)
           z == MsgLen[m]
           u == Used(r)
           c == SubSeq(Before(r, n), l + 1, l + z)
<1>1. m \in Msg /\ \A k \in 1 .. z : ByteAt(r, u - n + i + LenPart(dyn) + k - 1) = Byte("msg", m, k)
  BY DEF MsgAt
<1>2. z \in Nat \ {0} /\ LenPart(dyn) \in Nat /\ SizeOf(dyn, m) = LenPart(dyn) + z /\ u \in Nat /\ n \in 0 .. u
  BY <1>1, Sizes, RingFields
<1>3. l = i + LenPart(dyn) /\ i + SizeOf(dyn, m) <= n
  OBVIOUS
<1> HIDE DEF l, z, u
<1>4. l \in Nat /\ l + 1 \in 1 .. n + 1 /\ l + z \in (l + 1) - 1 .. n /\ (l + z) - (l + 1) + 1 = z
  BY <1>2, <1>3
<1>5. /\ c \in Seq(ByteSet) /\ Len(c) = z
      /\ \A k \in 1 .. z : c[k] = ByteAt(r, u - n + ((l + 1) + k - 1) - 1)
  <2>1. /\ c \in Seq(ByteSet) /\ Len(c) = (l + z) - (l + 1) + 1
        /\ \A k \in 1 .. (l + z) - (l + 1) + 1 : c[k] = ByteAt(r, u - n + ((l + 1) + k - 1) - 1)
    BY <1>4, CutBytes DEF u
  <2> QED
    BY <1>4, <2>1
<1> HIDE DEF c
<1>6. \A k \in 1 .. z : c[k] = Byte("msg", m, k)
  <2> TAKE k \in 1 .. z
  <2>1. u - n + ((l + 1) + k - 1) - 1 = u - n + i + LenPart(dyn) + k - 1
    BY <1>2, <1>3, <1>4
  <2> QED
    BY <1>1, <1>5, <2>1
<1>7. MsgOf(c) = m
  BY <1>1, <1>5, <1>6, MsgOfBytes DEF z
<1> QED
  BY <1>7 DEF c, l, z

(* Blocks of a fixed size, one after another. *)
Blocks(q, st) ==
  /\ \A i \in 1 .. Len(q) : MsgLen[q[i]] = BlkSize
  /\ \A i \in 1 .. Len(q) + 1 : st[i] = (i - 1) * BlkSize

(* The contents of a ring with messages of one size. *)
LEMMA FixContentsExact ==
  ASSUME NEW r, RingOK(r), NEW q, NEW st, Holds(r, FALSE, q, st), Blocks(q, st)
  PROVE  FixContents(r, BlkSize) = q
<1> DEFINE u == Used(r)
           n == Len(q)
           c == FixContents(r, BlkSize)
<1>1. BlkSize \in Nat \ {0} /\ n \in Nat /\ u \in Nat /\ q \in Seq(Msg)
  BY AlignedFits, RingFields, LenProperties DEF Holds
<1>2. u = n * BlkSize /\ u \div BlkSize = n
  <2>1. n + 1 \in 1 .. n + 1 /\ n + 1 - 1 = n
    BY <1>1
  <2>2. u = n * BlkSize
    BY <2>1 DEF Holds, Blocks
  <2>3. (n * BlkSize) \div BlkSize = n
    BY <1>1
  <2> QED
    BY <2>2, <2>3
<1>3. c = [i \in 1 .. u \div BlkSize |->
             MsgOf(SubSeq(Before(r, u), (i - 1) * BlkSize + 1, i * BlkSize))]
  BY DEF FixContents, Used
<1> HIDE DEF u, c
<1>4. ASSUME NEW i \in 1 .. n PROVE c[i] = q[i]
  <2>1. MsgAt(r, FALSE, st[i], q[i]) /\ MsgLen[q[i]] = BlkSize
    BY DEF Holds, Blocks
  <2>2. i \in 1 .. n + 1 /\ i \in Nat /\ i - 1 \in Nat /\ i \in Int
    BY <1>1
  <2> DEFINE o == (i - 1) * BlkSize
  <2>3. st[i] = o
    BY <2>2 DEF Blocks
  <2>4. o \in Nat /\ i * BlkSize = o + BlkSize
    BY <1>1, <2>2
  <2> HIDE DEF o
  <2>5. LenPart(FALSE) = 0 /\ SizeOf(FALSE, q[i]) = BlkSize
    BY <1>1, <2>1 DEF LenPart, SizeOf
  <2>6. o + BlkSize <= u
    BY <2>1, <2>3, <2>5 DEF MsgAt, u
  <2>7. u - u + o = o /\ u \in 0 .. u /\ o + 0 = o
    BY <1>1, <2>4
  <2>8. MsgAt(r, FALSE, u - u + o, q[i])
    BY <2>1, <2>3, <2>7
  <2>9. MsgOf(SubSeq(Before(r, u), o + 0 + 1, o + 0 + BlkSize)) = q[i]
    <3>1. o + SizeOf(FALSE, q[i]) <= u /\ u \in 0 .. Used(r) /\ FALSE \in BOOLEAN
      BY <2>5, <2>6, <2>7 DEF u
    <3>2. MsgAt(r, FALSE, Used(r) - u + o, q[i])
      BY <2>8 DEF u
    <3> HIDE DEF u
    <3>3. MsgOf(SubSeq(Before(r, u), (o + LenPart(FALSE)) + 1, (o + LenPart(FALSE)) + MsgLen[q[i]])) = q[i]
      BY <2>4, <3>1, <3>2, MsgRead
    <3> QED
      BY <2>1, <2>5, <3>3
  <2>10. c[i] = MsgOf(SubSeq(Before(r, u), o + 1, i * BlkSize))
    BY <1>2, <1>3 DEF o
  <2> QED
    BY <2>4, <2>7, <2>9, <2>10
<1>5. c \in [1 .. n -> Msg]
  <2>1. \A i \in 1 .. n : c[i] \in Msg
    BY <1>1, <1>4, ElementOfSeq
  <2>2. c = [i \in 1 .. n |-> c[i]]
    BY <1>2, <1>3
  <2> QED
    BY <2>1, <2>2
<1>6. c \in Seq(Msg)
  BY <1>1, <1>5
<1>7. DOMAIN c = 1 .. n /\ DOMAIN c = 1 .. Len(c) /\ Len(c) \in Nat
  BY <1>5, <1>6, LenProperties
<1>8. Len(c) = Len(q)
  BY <1>1, <1>7
<1> QED
  BY <1>1, <1>4, <1>6, <1>8, SeqEqual DEF c

(* The recursion of DynContents: the messages in the last n bytes, when f tells those in
   fewer. *)
DynLen(r, n) == LenOf(SubSeq(Before(r, n), 1, RING_BUF_LEN))
DynBody(r, f, n) ==
  CASE n = 0 -> <<>>
    [] n \in 1 .. RING_BUF_LEN -> <<Garbage>>
    [] OTHER -> IF DynLen(r, n) = 0 \/ RING_BUF_LEN + DynLen(r, n) > n THEN <<Garbage>>
                ELSE <<MsgOf(SubSeq(Before(r, n), RING_BUF_LEN + 1, RING_BUF_LEN + DynLen(r, n)))>>
                       \o f[n - RING_BUF_LEN - DynLen(r, n)]
DynMsgs(r) == CHOOSE f : f = [n \in 0 .. RingSize |-> DynBody(r, f, n)]

(* The recursion of DynContents, by name. *)
LEMMA DynContentsBody == \A r : DynContents(r) = DynMsgs(r)[RingSize - r.freesize]
BY DEF DynContents, DynMsgs, DynBody, DynLen

(* The recursion goes to fewer bytes. *)
LEMMA DynBodyLocal ==
  ASSUME NEW r, NEW n \in Nat, NEW f, NEW g, \A i \in 0 .. n - 1 : f[i] = g[i]
  PROVE  DynBody(r, f, n) = DynBody(r, g, n)
<1> DEFINE len == DynLen(r, n)
<1>1. len \in Nat /\ RING_BUF_LEN \in Nat \ {0}
  <2>1. RingSize \in Nat /\ RING_BUF_LEN \in Nat \ {0}
    BY RingAssumption
  <2>2. \A s : LenOf(s) \in 0 .. RingSize
    BY <2>1 DEF LenOf
  <2> QED
    BY <2>1, <2>2 DEF DynLen
<1> HIDE DEF len
<1>2. CASE n = 0 \/ n \in 1 .. RING_BUF_LEN \/ len = 0 \/ RING_BUF_LEN + len > n
  BY <1>2 DEF DynBody, len
<1>3. CASE ~(n = 0 \/ n \in 1 .. RING_BUF_LEN \/ len = 0 \/ RING_BUF_LEN + len > n)
  <2>1. n - RING_BUF_LEN - len \in 0 .. n - 1
    BY <1>1, <1>3
  <2>2. f[n - RING_BUF_LEN - len] = g[n - RING_BUF_LEN - len]
    BY <2>1
  <2> QED
    BY <1>3, <2>2 DEF DynBody, len
<1> QED
  BY <1>2, <1>3

(* So there is a function that it defines. *)
LEMMA DynMsgsDefined ==
  ASSUME NEW r
  PROVE  DynMsgs(r) = [n \in 0 .. RingSize |-> DynBody(r, DynMsgs(r), n)]
<1> DEFINE Fits(k, f) == f = [n \in 0 .. k |-> DynBody(r, f, n)]
           Bad == {k \in Nat : ~\E f : Fits(k, f)}
<1>1. Bad = {}
  <2> SUFFICES ASSUME Bad # {} PROVE FALSE
    OBVIOUS
  <2>1. PICK k \in Bad : \A j \in Bad : k <= j
    BY LeastNat
  <2>2. k \in Nat /\ ~\E f : Fits(k, f)
    OBVIOUS
  <2>3. CASE k = 0
    <3> DEFINE f == [n \in 0 .. 0 |-> <<>>]
    <3>1. \A n \in 0 .. 0 : DynBody(r, f, n) = <<>>
      <4>1. \A x : DynBody(r, x, 0) = <<>>
        BY DEF DynBody
      <4>2. \A n \in 0 .. 0 : n = 0
        OBVIOUS
      <4> HIDE DEF f
      <4> QED
        BY <4>1, <4>2
    <3>2. f = [n \in 0 .. 0 |-> DynBody(r, f, n)]
      BY <3>1
    <3>3. Fits(0, f)
      BY <3>2
    <3> QED
      BY <2>2, <2>3, <3>3
  <2>4. CASE k # 0
    <3>1. k - 1 \in Nat /\ ~(k <= k - 1)
      BY <2>2, <2>4
    <3>2. k - 1 \notin Bad
      BY <2>1, <3>1
    <3>3. PICK f : Fits(k - 1, f)
      BY <3>1, <3>2
    <3> DEFINE g == [n \in 0 .. k |-> IF n <= k - 1 THEN f[n] ELSE DynBody(r, f, n)]
    <3>4. \A n \in 0 .. k - 1 : f[n] = DynBody(r, f, n)
      <4>1. f = [n \in 0 .. k - 1 |-> DynBody(r, f, n)]
        BY <3>3
      <4> DEFINE h(n) == DynBody(r, f, n)
      <4>2. f = [n \in 0 .. k - 1 |-> h(n)]
        BY <4>1
      <4> HIDE DEF h
      <4>3. \A n \in 0 .. k - 1 : f[n] = h(n)
        BY <4>2
      <4> QED
        BY <4>3 DEF h
    <3>5. ASSUME NEW n \in 0 .. k PROVE g[n] = DynBody(r, g, n)
      <4>1. g[n] = DynBody(r, f, n)
        <5>1. g[n] = IF n <= k - 1 THEN f[n] ELSE DynBody(r, f, n)
          OBVIOUS
        <5>2. n <= k - 1 => n \in 0 .. k - 1
          BY <2>2, <3>1
        <5> QED
          BY <3>4, <5>1, <5>2
      <4>2. \A i \in 0 .. n - 1 : f[i] = g[i]
        <5> TAKE i \in 0 .. n - 1
        <5>1. i \in 0 .. k /\ i <= k - 1
          BY <2>2
        <5> QED
          BY <5>1
      <4>3. n \in Nat
        BY <2>2
      <4> HIDE DEF g
      <4> QED
        BY <4>1, <4>2, <4>3, DynBodyLocal
    <3>6. g = [n \in 0 .. k |-> g[n]]
      OBVIOUS
    <3>7. Fits(k, g)
      <4> HIDE DEF g
      <4> QED
        BY <3>5, <3>6
    <3> QED
      BY <2>2, <3>7
  <2> QED
    BY <2>3, <2>4
<1>2. \E f : f = [n \in 0 .. RingSize |-> DynBody(r, f, n)]
  <2>1. RingSize \in Nat
    BY RingAssumption
  <2> QED
    BY <1>1, <2>1
<1> QED
  BY <1>2 DEF DynMsgs

(* The contents of a dynamic ring. *)
LEMMA DynContentsExact ==
  ASSUME NEW r, RingOK(r), NEW q, NEW st, Holds(r, TRUE, q, st)
  PROVE  DynContents(r) = q
<1> DEFINE u == Used(r)
           n == Len(q)
           F == DynMsgs(r)
           l == RING_BUF_LEN
           Rest(i) == SubSeq(q, i, n)
           Bad == {j \in Nat : j <= n /\ F[u - st[n + 1 - j]] # Rest(n + 1 - j)}
<1>1. /\ q \in Seq(Msg) /\ st \in Seq(Nat) /\ Len(st) = n + 1 /\ n \in Nat
      /\ st[1] = 0 /\ st[n + 1] = u /\ u \in 0 .. RingSize /\ RingSize \in Nat
      /\ \A i, j \in 1 .. n + 1 : i <= j => st[i] <= st[j]
      /\ \A i \in 1 .. n : MsgAt(r, TRUE, st[i], q[i]) /\ st[i + 1] = st[i] + SizeOf(TRUE, q[i])
  BY RingFields, LenProperties DEF Holds
<1>2. \A i \in 1 .. n + 1 : st[i] \in 0 .. u
  <2> TAKE i \in 1 .. n + 1
  <2>1. st[i] \in Nat /\ n + 1 \in 1 .. n + 1 /\ i <= n + 1
    BY <1>1, ElementOfSeq
  <2>2. st[i] <= u
    BY <1>1, <2>1
  <2> QED
    BY <1>1, <2>1, <2>2
<1>3. \A k \in 0 .. RingSize : F[k] = DynBody(r, F, k)
  <2> DEFINE h(k) == DynBody(r, F, k)
  <2>1. F = [k \in 0 .. RingSize |-> h(k)]
    BY DynMsgsDefined
  <2> HIDE DEF F, h
  <2>2. \A k \in 0 .. RingSize : F[k] = h(k)
    BY <2>1
  <2> QED
    BY <2>2 DEF h
<1>4. DynContents(r) = F[u]
  BY DynContentsBody DEF Used
<1> HIDE DEF u, n, F
<1>5. ASSUME NEW i \in 1 .. n, F[u - st[i + 1]] = Rest(i + 1) PROVE F[u - st[i]] = Rest(i)
  <2> DEFINE m == q[i]
             k == u - st[i]
             z == MsgLen[m]
  <2>1. m \in Msg /\ MsgAt(r, TRUE, st[i], m) /\ st[i + 1] = st[i] + SizeOf(TRUE, m)
    BY <1>1, ElementOfSeq DEF n
  <2>2. z \in 1 .. RingSize /\ l \in Nat \ {0} /\ LenPart(TRUE) = l /\ SizeOf(TRUE, m) = l + z
    BY <2>1, PieceBytes, RingFields DEF LenPart, SizeOf
  <2>3. st[i] \in 0 .. u /\ st[i + 1] \in 0 .. u
    <3>1. i \in 1 .. n + 1 /\ i + 1 \in 1 .. n + 1
      BY <1>1
    <3> QED
      BY <1>2, <3>1
  <2>4. k = u - st[i]
    OBVIOUS
  <2> HIDE DEF m, k, z, l
  <2>5. k \in 0 .. u /\ k \in 0 .. RingSize /\ u - k = st[i] /\ l + z <= k /\ k - l - z = u - st[i + 1]
    <3> DEFINE a == st[i]
               b == st[i + 1]
    <3>1. a \in 0 .. u /\ b \in 0 .. u /\ b = a + (l + z) /\ k = u - a
      BY <2>1, <2>2, <2>3, <2>4
    <3> HIDE DEF a, b
    <3>2. k \in 0 .. u /\ k \in 0 .. RingSize /\ u - k = a /\ l + z <= k /\ k - l - z = u - b
      BY <1>1, <2>2, <3>1
    <3> QED
      BY <3>2 DEF a, b
  <2>6. DynLen(r, k) = z
    <3> DEFINE c == SubSeq(Before(r, k), 1, l)
    <3>1. k \in 0 .. Used(r) /\ 1 \in 1 .. k + 1 /\ l \in 1 - 1 .. k /\ l - 1 + 1 = l
      BY <2>2, <2>5 DEF u
    <3>2. /\ c \in Seq(ByteSet) /\ Len(c) = l
          /\ \A j \in 1 .. l : c[j] = ByteAt(r, u - k + (1 + j - 1) - 1)
      <4>1. /\ c \in Seq(ByteSet) /\ Len(c) = l - 1 + 1
            /\ \A j \in 1 .. l - 1 + 1 : c[j] = ByteAt(r, Used(r) - k + (1 + j - 1) - 1)
        BY <3>1, CutBytes
      <4> QED
        BY <3>1, <4>1 DEF u
    <3> HIDE DEF c
    <3>3. \A j \in 1 .. l : c[j] = Byte("len", z, j)
      <4> TAKE j \in 1 .. l
      <4>1. u - k + (1 + j - 1) - 1 = st[i] + j - 1
        BY <1>1, <2>2, <2>3, <2>5
      <4>2. ByteAt(r, st[i] + j - 1) = Byte("len", z, j)
        BY <2>1 DEF MsgAt, l, z
      <4> QED
        BY <3>2, <4>1, <4>2
    <3>4. LenOf(c) = z
      BY <2>2, <3>2, <3>3, LenOfBytes DEF l
    <3> QED
      BY <3>4 DEF c, DynLen, l
  <2>7. MsgOf(SubSeq(Before(r, k), l + 1, l + z)) = m
    <3>1. 0 + SizeOf(TRUE, m) <= k /\ Used(r) - k + 0 = st[i] /\ k \in 0 .. Used(r)
          /\ 0 + LenPart(TRUE) = l /\ 0 \in Nat
      <4>1. k \in Nat /\ u \in Nat /\ u - k + 0 = u - k
        BY <1>1, <2>5
      <4>2. 0 + (l + z) = l + z /\ 0 + l = l
        BY <2>2
      <4>3. 0 + SizeOf(TRUE, m) <= k /\ 0 + LenPart(TRUE) = l
        <5>1. 0 + SizeOf(TRUE, m) = l + z
          BY ONLY <2>2, <4>2, Zenon
        <5>2. 0 + LenPart(TRUE) = l
          BY ONLY <2>2, <4>2, Zenon
        <5> QED
          BY ONLY <2>5, <5>1, <5>2, Zenon
      <4> QED
        BY <2>5, <4>1, <4>3 DEF u
    <3>2. MsgAt(r, TRUE, Used(r) - k + 0, m)
      BY <2>1, <3>1
    <3>3. MsgOf(SubSeq(Before(r, k), 0 + LenPart(TRUE) + 1, 0 + LenPart(TRUE) + MsgLen[m])) = m
      BY <3>1, <3>2, MsgRead
    <3> QED
      BY <3>1, <3>3 DEF z
  <2>8. DynBody(r, F, k) = <<m>> \o F[u - st[i + 1]]
    <3>1. k # 0 /\ k \notin 1 .. l /\ ~(z = 0 \/ l + z > k)
      BY <1>1, <2>2, <2>5
    <3>2. DynBody(r, F, k) = <<MsgOf(SubSeq(Before(r, k), l + 1, l + z))>> \o F[k - l - z]
      BY <2>6, <3>1 DEF DynBody, l
    <3> QED
      BY <2>5, <2>7, <3>2
  <2>9. Rest(i) = <<m>> \o Rest(i + 1)
    <3>1. i \in 1 .. Len(q) /\ n \in i .. Len(q)
      BY <1>1 DEF n
    <3> QED
      BY <1>1, <3>1, SubSeqRecursiveFirst DEF m
  <2> QED
    BY <1>3, <1>5, <2>4, <2>5, <2>8, <2>9
<1>6. F[u - st[n + 1]] = Rest(n + 1)
  <2>1. u - st[n + 1] = 0 /\ 0 \in 0 .. RingSize
    BY <1>1
  <2>2. F[0] = <<>>
    <3>1. F[0] = DynBody(r, F, 0)
      BY ONLY <1>3, <2>1
    <3>2. \A x : DynBody(r, x, 0) = <<>>
      BY DEF DynBody
    <3> QED
      BY ONLY <3>1, <3>2, Zenon
  <2>3. Rest(n + 1) = <<>>
    <3>1. n + 1 \in Int /\ n \in Int /\ n < n + 1
      BY <1>1
    <3> QED
      BY <3>1, SubSeqEmpty
  <2> QED
    BY <2>1, <2>2, <2>3
<1> HIDE DEF Rest
<1>7. Bad = {}
  <2> SUFFICES ASSUME Bad # {} PROVE FALSE
    OBVIOUS
  <2>1. PICK j \in Bad : \A i \in Bad : j <= i
    BY LeastNat
  <2>2. j \in Nat /\ j <= n /\ F[u - st[n + 1 - j]] # Rest(n + 1 - j)
    OBVIOUS
  <2>3. j # 0
    <3>1. n + 1 - 0 = n + 1
      BY <1>1
    <3> QED
      BY <1>6, <2>2, <3>1
  <2>4. j - 1 \in Nat /\ ~(j <= j - 1) /\ j - 1 <= n /\ n + 1 - j \in 1 .. n
        /\ n + 1 - (j - 1) = n + 1 - j + 1
    BY <1>1, <2>2, <2>3
  <2>5. j - 1 \notin Bad
    BY <2>1, <2>4
  <2>6. F[u - st[n + 1 - (j - 1)]] = Rest(n + 1 - (j - 1))
    BY <2>4, <2>5
  <2>7. F[u - st[n + 1 - j + 1]] = Rest(n + 1 - j + 1)
    BY <2>4, <2>6
  <2> QED
    BY <1>5, <2>2, <2>4, <2>7
<1>8. F[u] = Rest(1)
  <2>1. n \in Nat /\ n <= n /\ n + 1 - n = 1
    BY <1>1
  <2>2. F[u - st[1]] = Rest(1)
    BY <1>7, <2>1
  <2>3. u - st[1] = u
    BY <1>1
  <2> QED
    BY <2>2, <2>3
<1>9. Rest(1) = q
  BY <1>1, SubSeqFull DEF Rest, n
<1> QED
  BY <1>4, <1>8, <1>9

-----------------------------------------------------------------------------
(* What a queue holds: the messages q, which start at st in its ring and are counted
   by c.  Where the size is fixed the bytes at the end of the ring are never broken. *)
Layout(r, c, dyn, q, st) ==
  /\ RingOK(r) /\ Holds(r, dyn, q, st) /\ c = Len(q)
  /\ ~dyn => /\ \A i \in 1 .. Len(q) : MsgLen[q[i]] = BlkSize
             /\ \A i \in 1 .. Len(q) + 1 : st[i] = (i - 1) * BlkSize
             /\ Aligned(r.head) /\ Aligned(r.tail)

(* The ring holds no bytes just when it holds no messages. *)
LEMMA LayoutEmpty ==
  ASSUME NEW r, NEW c, NEW dyn \in BOOLEAN, NEW q, NEW st, Layout(r, c, dyn, q, st)
  PROVE  /\ (ringbuf_is_empty(r) <=> q = <<>>) /\ (c = 0 <=> q = <<>>)
         /\ q \in Seq(Msg) /\ c = Len(q) /\ c \in Nat
<1> DEFINE n == Len(q)
<1>1. /\ q \in Seq(Msg) /\ n \in Nat /\ c = n /\ (n = 0 <=> q = <<>>)
      /\ RingOK(r) /\ Holds(r, dyn, q, st)
  <2>1. q \in Seq(Msg) /\ c = n /\ RingOK(r) /\ Holds(r, dyn, q, st)
    BY DEF Layout, Holds
  <2>2. n \in Nat /\ (n = 0 <=> q = <<>>)
    BY <2>1, EmptySeq, LenProperties
  <2> QED
    BY <2>1, <2>2
<1>2. Used(r) \in 0 .. RingSize /\ r.freesize \in 0 .. RingSize /\ RingSize \in Nat
  BY <1>1, RingFields
<1>3. ringbuf_is_empty(r) <=> Used(r) = 0
  BY <1>2 DEF ringbuf_is_empty, Used
<1>4. n = 0 => Used(r) = 0
  BY <1>1 DEF Holds
<1>5. n # 0 => Used(r) # 0
  <2> SUFFICES ASSUME n # 0 PROVE Used(r) # 0
    OBVIOUS
  <2>1. 1 \in 1 .. n /\ q[1] \in Msg
    BY <1>1, ElementOfSeq
  <2>2. MsgAt(r, dyn, st[1], q[1]) /\ st[1] = 0
    BY <1>1, <2>1 DEF Holds
  <2>3. SizeOf(dyn, q[1]) \in Nat \ {0}
    BY <2>1, Sizes
  <2>4. 0 + SizeOf(dyn, q[1]) <= Used(r)
    BY <2>2 DEF MsgAt
  <2> QED
    BY <1>2, <2>3, <2>4
<1> QED
  BY <1>1, <1>3, <1>4, <1>5

(* ringbuf_reset: no messages. *)
LEMMA ResetLayout ==
  ASSUME NEW dyn \in BOOLEAN
  PROVE  Layout(ringbuf_reset, 0, dyn, <<>>, <<0>>)
<1> DEFINE r == ringbuf_reset
<1>1. RingSize \in Nat \ {0}
  BY RingAssumption
<1>2. r \in RingType /\ r.head = 0 /\ r.tail = 0 /\ r.freesize = RingSize
  BY <1>1 DEF ringbuf_reset, RingType, ByteSet, Garbage, Byte
<1>3. Used(r) = 0
  BY <1>1, <1>2 DEF Used
<1>4. RingOK(r)
  BY <1>1, <1>2, <1>3 DEF RingOK
<1>5. Holds(r, dyn, <<>>, <<0>>)
  BY <1>3 DEF Holds
<1>6. Aligned(r.head) /\ Aligned(r.tail)
  BY <1>2, AlignedFits
<1>7. \A i \in 1 .. Len(<<>>) + 1 : <<0>>[i] = (i - 1) * BlkSize
  <2>1. BlkSize \in Nat
    BY AlignedFits
  <2>2. 1 .. Len(<<>>) + 1 = {1} /\ <<0>>[1] = 0 /\ (1 - 1) * BlkSize = 0
    BY <2>1
  <2> QED
    BY <2>2
<1> HIDE DEF r
<1>8. Layout(r, 0, dyn, <<>>, <<0>>)
  BY <1>4, <1>5, <1>6, <1>7 DEF Layout
<1> QED
  BY <1>8 DEF r

(* A fixed ring holds as many blocks as messages. *)
LEMMA FixUsed ==
  ASSUME NEW r, NEW c, NEW q, NEW st, Layout(r, c, FALSE, q, st)
  PROVE  Used(r) = c * BlkSize /\ c \in Nat /\ BlkSize \in Nat \ {0}
<1>1. c \in Nat /\ c = Len(q) /\ BlkSize \in Nat \ {0}
  BY LayoutEmpty, AlignedFits
<1>2. st[c + 1] = Used(r) /\ \A i \in 1 .. c + 1 : st[i] = (i - 1) * BlkSize
  BY <1>1 DEF Layout, Holds
<1>3. c + 1 \in 1 .. c + 1 /\ c + 1 - 1 = c
  BY <1>1
<1>4. st[c + 1] = c * BlkSize
  <2> DEFINE g(i) == (i - 1) * BlkSize
  <2>1. \A i \in 1 .. c + 1 : st[i] = g(i)
    BY <1>2
  <2> HIDE DEF g
  <2>2. st[c + 1] = g(c + 1)
    BY <1>3, <2>1
  <2>3. g(c + 1) = c * BlkSize
    BY <1>1, <1>3 DEF g
  <2> QED
    BY <2>2, <2>3
<1> QED
  BY <1>1, <1>2, <1>3, <1>4

(* A message is put behind the others. *)
LEMMA PushLayout ==
  ASSUME NEW r, NEW c, NEW dyn \in BOOLEAN, NEW q, NEW st, Layout(r, c, dyn, q, st),
         NEW m \in Msg, dyn => ~DynFull(r, m),
         ~dyn => MsgLen[m] = BlkSize /\ BlkSize <= r.freesize,
         NEW w, w = IF dyn THEN DynPush(r, m) ELSE FixPush(r, m)
  PROVE  \E s : Layout(w, c + 1, dyn, Append(q, m), s)
<1> DEFINE n == Len(q)
           q1 == Append(q, m)
           s1 == Append(st, Used(w))
<1>1. /\ RingOK(r) /\ Holds(r, dyn, q, st) /\ q \in Seq(Msg) /\ st \in Seq(Nat)
      /\ c = n /\ n \in Nat /\ Len(st) = n + 1
  BY LayoutEmpty DEF Layout, Holds
<1>2. PICK bytes : PieceOf(dyn, m, bytes) /\ Pushed(r, bytes, w)
  <2>1. CASE dyn
    BY <1>1, <2>1, DynPushes
  <2>2. CASE ~dyn
    <3>1. Aligned(r.head) /\ Aligned(r.tail)
      BY <2>2 DEF Layout
    <3> QED
      BY <1>1, <2>2, <3>1, FixPushes
  <2> QED
    BY <2>1, <2>2
<1>3. RingOK(w) /\ Holds(w, dyn, q1, s1)
  BY <1>1, <1>2, PushHolds DEF Pushed
<1>4. Len(q1) = n + 1 /\ c + 1 = Len(q1) /\ Used(w) \in Nat
  <2>1. Used(w) \in Nat
    BY <1>3, RingFields
  <2> QED
    BY <1>1, <2>1, AppendProperties
<1>5. ASSUME ~dyn
      PROVE  /\ \A i \in 1 .. Len(q1) : MsgLen[q1[i]] = BlkSize
             /\ \A i \in 1 .. Len(q1) + 1 : s1[i] = (i - 1) * BlkSize
             /\ Aligned(w.head) /\ Aligned(w.tail)
  <2>1. /\ \A i \in 1 .. n : MsgLen[q[i]] = BlkSize
        /\ \A i \in 1 .. n + 1 : st[i] = (i - 1) * BlkSize
        /\ Aligned(r.head) /\ Aligned(r.tail)
    BY <1>5 DEF Layout
  <2>2. Aligned(w.head) /\ Aligned(w.tail)
    BY <1>1, <1>5, <2>1, FixPushes
  <2>3. \A i \in 1 .. n + 1 : q1[i] = IF i = n + 1 THEN m ELSE q[i]
    BY <1>1, AppendProperties
  <2>4. \A i \in 1 .. n + 1 + 1 : s1[i] = IF i = n + 1 + 1 THEN Used(w) ELSE st[i]
    BY <1>1, <1>4, AppendProperties
  <2>5. Used(w) = (n + 1) * BlkSize
    <3>1. Used(w) = Used(r) + Len(bytes) /\ Len(bytes) = MsgLen[m]
      <4>1. MsgLen[m] \in Nat
        BY RingAssumption
      <4> QED
        BY <1>2, <1>5, <4>1 DEF Pushed, PieceOf, SizeOf, LenPart
    <3>2. Used(r) = n * BlkSize /\ BlkSize \in Nat
      BY <1>1, <1>5, FixUsed
    <3>3. n * BlkSize + BlkSize = (n + 1) * BlkSize
      BY <1>1, <3>2
    <3> QED
      BY <1>5, <3>1, <3>2, <3>3
  <2> HIDE DEF q1, s1
  <2>6. \A i \in 1 .. n + 1 : MsgLen[q1[i]] = BlkSize
    BY <1>1, <1>5, <2>1, <2>3
  <2>7. \A i \in 1 .. n + 1 + 1 : s1[i] = (i - 1) * BlkSize
    <3> TAKE i \in 1 .. n + 1 + 1
    <3>1. CASE i = n + 1 + 1
      <4>1. i - 1 = n + 1
        BY <1>1, <3>1
      <4> QED
        BY <2>4, <2>5, <3>1, <4>1
    <3>2. CASE i # n + 1 + 1
      <4>1. i \in 1 .. n + 1
        BY <1>1, <3>2
      <4> QED
        BY <2>1, <2>4, <3>2, <4>1
    <3> QED
      BY <3>1, <3>2
  <2> QED
    BY <1>4, <2>2, <2>6, <2>7
<1> HIDE DEF q1, s1
<1>6. Layout(w, c + 1, dyn, q1, s1)
  BY <1>3, <1>4, <1>5 DEF Layout
<1> QED
  BY <1>6 DEF q1

(* The first message is taken off, and its receiver is given it whole. *)
LEMMA PopLayout ==
  ASSUME NEW r, NEW c, NEW dyn \in BOOLEAN, NEW q, NEW st, Layout(r, c, dyn, q, st), q # <<>>,
         NEW g, dyn => g = DynPop(r), ~dyn => g = FixPop(r, BlkSize)
  PROVE  MsgOf(g.bytes) = Head(q) /\ \E s : Layout(g.ring, c - 1, dyn, Tail(q), s)
<1> DEFINE n == Len(q)
           w == g.ring
           z == SizeOf(dyn, q[1])
           q1 == Tail(q)
           s1 == [i \in 1 .. n |-> st[i + 1] - z]
<1>1. /\ RingOK(r) /\ Holds(r, dyn, q, st) /\ q \in Seq(Msg) /\ st \in Seq(Nat)
      /\ c = n /\ n \in Nat \ {0} /\ Len(st) = n + 1
  BY LayoutEmpty DEF Layout, Holds
<1>2. Head(q) = q[1] /\ Len(q1) = n - 1 /\ \A i \in 1 .. n - 1 : q1[i] = q[i + 1]
  BY <1>1, HeadTailProperties
<1>3. 1 \in 1 .. n /\ q[1] \in Msg
  BY <1>1, ElementOfSeq
<1>4. /\ ~dyn => /\ \A i \in 1 .. n : MsgLen[q[i]] = BlkSize
                 /\ \A i \in 1 .. n + 1 : st[i] = (i - 1) * BlkSize
                 /\ Aligned(r.head) /\ Aligned(r.tail)
  BY DEF Layout
<1>5. /\ MsgOf(g.bytes) = q[1] /\ Popped(r, z, w)
      /\ ~dyn => Aligned(w.head) /\ Aligned(w.tail)
  <2>1. CASE dyn
    BY <1>1, <2>1, DynPops
  <2>2. CASE ~dyn
    <3>1. g = FixPop(r, BlkSize) /\ MsgLen[q[1]] = BlkSize /\ Aligned(r.head) /\ Aligned(r.tail)
      BY <1>3, <1>4, <2>2
    <3>2. Holds(r, FALSE, q, st) /\ z = SizeOf(FALSE, q[1])
      BY <1>1, <2>2
    <3>3. /\ Popped(r, SizeOf(FALSE, q[1]), FixPop(r, BlkSize).ring)
          /\ MsgOf(FixPop(r, BlkSize).bytes) = q[1]
          /\ Aligned(FixPop(r, BlkSize).ring.head) /\ Aligned(FixPop(r, BlkSize).ring.tail)
      BY <1>1, <3>1, <3>2, FixPops
    <3> QED
      BY <3>1, <3>2, <3>3
  <2> QED
    BY <2>1, <2>2
<1>6. RingOK(w) /\ Holds(w, dyn, q1, s1)
  BY <1>1, <1>5, PopHolds DEF Popped
<1>7. ASSUME ~dyn
      PROVE  /\ \A i \in 1 .. Len(q1) : MsgLen[q1[i]] = BlkSize
             /\ \A i \in 1 .. Len(q1) + 1 : s1[i] = (i - 1) * BlkSize
  <2>1. z = BlkSize /\ BlkSize \in Nat
    <3>1. MsgLen[q[1]] = BlkSize /\ BlkSize \in Nat
      BY <1>3, <1>4, <1>7, AlignedFits
    <3> QED
      BY <1>7, <3>1 DEF SizeOf, LenPart
  <2>2. \A i \in 1 .. n : s1[i] = st[i + 1] - z
    OBVIOUS
  <2> HIDE DEF q1, s1, z
  <2>3. \A i \in 1 .. n - 1 : MsgLen[q1[i]] = BlkSize
    <3> TAKE i \in 1 .. n - 1
    <3>1. i + 1 \in 1 .. n
      BY <1>1
    <3> QED
      BY <1>2, <1>4, <1>7, <3>1
  <2>4. \A i \in 1 .. n : s1[i] = (i - 1) * BlkSize
    <3> TAKE i \in 1 .. n
    <3>1. i + 1 \in 1 .. n + 1 /\ i + 1 - 1 = i /\ i \in Nat
      BY <1>1
    <3>2. st[i + 1] = i * BlkSize
      BY <1>4, <1>7, <3>1
    <3>3. i * BlkSize - BlkSize = (i - 1) * BlkSize
      BY <2>1, <3>1
    <3> QED
      BY <2>1, <2>2, <3>2, <3>3
  <2>5. Len(q1) = n - 1 /\ Len(q1) + 1 = n
    BY <1>1, <1>2
  <2> QED
    BY <2>3, <2>4, <2>5
<1> HIDE DEF q1, s1, w
<1>8. Layout(w, c - 1, dyn, q1, s1)
  BY <1>1, <1>2, <1>5, <1>6, <1>7 DEF Layout
<1> QED
  BY <1>2, <1>5, <1>8 DEF q1, w

(* What the bytes before the tail are read as. *)
LEMMA LayoutContents ==
  ASSUME NEW r, NEW c, NEW dyn \in BOOLEAN, NEW q, NEW st, Layout(r, c, dyn, q, st)
  PROVE  q = IF dyn THEN DynContents(r) ELSE FixContents(r, BlkSize)
<1>1. RingOK(r) /\ Holds(r, dyn, q, st)
  BY DEF Layout
<1>2. CASE dyn
  BY <1>1, <1>2, DynContentsExact
<1>3. CASE ~dyn
  <2>1. Blocks(q, st)
    BY <1>3 DEF Layout, Blocks
  <2> QED
    BY <1>1, <1>3, <2>1, FixContentsExact
<1> QED
  BY <1>2, <1>3

-----------------------------------------------------------------------------
(* The inductive invariant of the ring and of what its receivers are given.  While the
   queue exists its ring holds whole messages, counted by cur_num; the loop of
   krhino_queue_all_send runs over an empty queue; a task whose wait goes on, or has
   ended for another reason than a message, was given none. *)
RingTyped == RingOK(ring) /\ cur_num \in Nat /\ msg \in [Task -> Msg \cup {None}]
KindFits ==
  /\ obj_type \in {"RHINO_OBJ_TYPE_NONE",
                   IF kind = "event" THEN "RHINO_EVENT_OBJ_TYPE" ELSE QueueType}
  /\ kind # "event" /\ cs.op = "del" => obj_type = "RHINO_OBJ_TYPE_NONE"
RingHeld == obj_type = QueueType => \E q, st : Layout(ring, cur_num, kind = "buf_queue", q, st)
AllSendOK ==
  cs.op = "all_send" => cs.arg \in Msg /\ kind = "queue" /\ obj_type = QueueType /\ cur_num = 0
NothingGiven ==
  kind # "event" => \A t \in Task : pc[t] \notin {"run", "BLK_FINISH"} => msg[t] = None
RingInv == RingTyped /\ KindFits /\ RingHeld /\ AllSendOK /\ NothingGiven

(* Whether the queue is empty, and what is in it. *)
LEMMA QueueHolds ==
  ASSUME RingInv, obj_type = QueueType
  PROVE  \E st : /\ Layout(ring, cur_num, kind = "buf_queue", Contents, st)
                 /\ Contents \in Seq(Msg) /\ cur_num = Len(Contents)
                 /\ (Empty <=> Contents = <<>>)
<1>1. PICK q, st : Layout(ring, cur_num, kind = "buf_queue", q, st)
  BY DEF RingInv, RingHeld
<1>2. (kind = "buf_queue") \in BOOLEAN
  OBVIOUS
<1>3. q = Contents
  BY <1>1, <1>2, LayoutContents DEF Contents
<1>4. Contents \in Seq(Msg) /\ cur_num = Len(Contents) /\ (Empty <=> Contents = <<>>)
  <2>1. /\ (ringbuf_is_empty(ring) <=> q = <<>>) /\ (cur_num = 0 <=> q = <<>>)
        /\ q \in Seq(Msg) /\ cur_num = Len(q)
    <3> DEFINE d == kind = "buf_queue"
               r == ring
               c == cur_num
    <3>1. Layout(r, c, d, q, st) /\ d \in BOOLEAN
      BY <1>1
    <3> HIDE DEF d, r, c
    <3>2. /\ (ringbuf_is_empty(r) <=> q = <<>>) /\ (c = 0 <=> q = <<>>)
          /\ q \in Seq(Msg) /\ c = Len(q)
      BY ONLY <3>1, LayoutEmpty
    <3> QED
      BY <3>2 DEF r, c
  <2>2. Empty <=> q = <<>>
    BY <2>1 DEF Empty
  <2> QED
    BY <1>3, <2>1, <2>2
<1> QED
  BY <1>1, <1>3, <1>4

(* A send to a queue that is not full. *)
LEMMA PushStep ==
  ASSUME RingInv, obj_type = QueueType, NEW m \in Sendable, ~Full(m), kind \in Kinds, kind # "event"
  PROVE  \E st : Layout(Push(m), cur_num + 1, kind = "buf_queue", Append(Contents, m), st)
<1> DEFINE dyn == kind = "buf_queue"
<1>1. PICK st : Layout(ring, cur_num, dyn, Contents, st)
  BY QueueHolds
<1>2. m \in Msg /\ (~dyn => MsgLen[m] = BlkSize) /\ dyn \in BOOLEAN
  BY DEF Sendable
<1>3. kind \in {"queue", "fix_buf_queue", "buf_queue"}
  BY WaitAssumption
<1>4. dyn => ~DynFull(ring, m)
  BY DEF Full
<1>5. ASSUME ~dyn PROVE BlkSize <= ring.freesize
  <2>1. Used(ring) = cur_num * BlkSize /\ cur_num \in Nat /\ BlkSize \in Nat \ {0}
    BY <1>1, <1>5, FixUsed
  <2>2. ring.freesize \in Nat /\ RingSize \in Nat /\ Used(ring) = RingSize - ring.freesize
    BY RingFields DEF RingInv, RingTyped, Used
  <2>3. CASE kind = "fix_buf_queue"
    <3>1. ~(ring.freesize < MsgLen[m])
      BY <2>3 DEF Full, FixFull
    <3> QED
      BY <1>2, <1>5, <2>1, <2>2, <3>1
  <2>4. CASE kind = "queue"
    <3>1. ~(cur_num >= RingSize \div BlkSize)
      BY <2>4 DEF Full
    <3>2. cur_num + 1 <= RingSize \div BlkSize
      <4>1. RingSize \div BlkSize \in Nat
        BY <2>1, <2>2
      <4> QED
        BY <2>1, <3>1, <4>1
    <3>3. (RingSize \div BlkSize) * BlkSize <= RingSize
      BY <2>1, <2>2
    <3>4. (cur_num + 1) * BlkSize <= (RingSize \div BlkSize) * BlkSize
      <4> DEFINE d == RingSize \div BlkSize
      <4>1. d \in Nat /\ cur_num + 1 <= d
        BY <2>1, <2>2, <3>2
      <4> HIDE DEF d
      <4>2. (cur_num + 1) * BlkSize <= d * BlkSize
        BY <2>1, <4>1
      <4> QED
        BY <4>2 DEF d
    <3>5. (cur_num + 1) * BlkSize = cur_num * BlkSize + BlkSize /\ cur_num * BlkSize \in Nat
      BY <2>1
    <3>6. cur_num * BlkSize + BlkSize <= RingSize
      <4>1. (RingSize \div BlkSize) * BlkSize \in Int
        BY <2>1, <2>2
      <4> DEFINE e == (RingSize \div BlkSize) * BlkSize
                 x == (cur_num + 1) * BlkSize
                 y == cur_num * BlkSize + BlkSize
      <4>2. e \in Int /\ e <= RingSize /\ x <= e /\ x = y /\ y \in Nat
        BY <2>1, <3>3, <3>4, <3>5, <4>1
      <4> HIDE DEF e, x, y
      <4>3. y <= RingSize
        BY <2>2, <4>2
      <4> QED
        BY <4>3 DEF y
    <3> HIDE <3>1, <3>2, <3>3, <3>4
    <3> DEFINE v == cur_num * BlkSize
    <3>7. v \in Nat /\ v + BlkSize <= RingSize /\ v = RingSize - ring.freesize
      BY <2>1, <2>2, <3>5, <3>6
    <3> HIDE DEF v
    <3> QED
      BY <2>1, <2>2, <3>7
  <2> QED
    BY <1>3, <1>5, <2>3, <2>4
<1>6. Push(m) = IF dyn THEN DynPush(ring, m) ELSE FixPush(ring, m)
  BY DEF Push
<1> HIDE DEF dyn
<1>7. \E st1 : Layout(Push(m), cur_num + 1, dyn, Append(Contents, m), st1)
  BY <1>1, <1>2, <1>4, <1>5, <1>6, PushLayout
<1> QED
  BY <1>7 DEF dyn

(* A receive from a queue that is not empty. *)
LEMMA PopStep ==
  ASSUME RingInv, obj_type = QueueType, ~Empty
  PROVE  /\ Contents # <<>> /\ Contents \in Seq(Msg) /\ MsgOf(Pop.bytes) = Head(Contents)
         /\ \E st : Layout(Pop.ring, cur_num - 1, kind = "buf_queue", Tail(Contents), st)
<1> DEFINE dyn == kind = "buf_queue"
<1>1. PICK st : /\ Layout(ring, cur_num, dyn, Contents, st) /\ Contents # <<>>
                /\ Contents \in Seq(Msg)
  BY QueueHolds
<1>2. Pop = (IF dyn THEN DynPop(ring) ELSE FixPop(ring, BlkSize)) /\ dyn \in BOOLEAN
  BY DEF Pop
<1> HIDE DEF dyn
<1>3. /\ MsgOf(Pop.bytes) = Head(Contents)
      /\ \E st1 : Layout(Pop.ring, cur_num - 1, dyn, Tail(Contents), st1)
  <2> DEFINE g == Pop
             q == Contents
             r == ring
             c == cur_num
  <2>1. (dyn => g = DynPop(r)) /\ (~dyn => g = FixPop(r, BlkSize)) /\ dyn \in BOOLEAN
    BY <1>2
  <2>2. Layout(r, c, dyn, q, st) /\ q # <<>>
    BY <1>1
  <2> HIDE DEF g, q, r, c
  <2>3. MsgOf(g.bytes) = Head(q) /\ \E st1 : Layout(g.ring, c - 1, dyn, Tail(q), st1)
    BY ONLY <2>1, <2>2, PopLayout
  <2> QED
    BY <2>3 DEF g, q, c
<1> QED
  BY <1>1, <1>3 DEF dyn

(* An event never becomes a queue. *)
LEMMA EventRing ==
  ASSUME RingInv, kind = "event", EventNext, UNCHANGED <<kind, queueVars>>
  PROVE  RingInv'
<1> USE DEF RingInv
<1>1. obj_type \in {"RHINO_OBJ_TYPE_NONE", "RHINO_EVENT_OBJ_TYPE"} /\ cs.op # "all_send"
  BY DEF KindFits, AllSendOK
<1>2. obj_type' \in {"RHINO_OBJ_TYPE_NONE", "RHINO_EVENT_OBJ_TYPE"} /\ cs'.op # "all_send"
  <2>1. CASE krhino_event_create
    BY <1>1, <2>1 DEF krhino_event_create, Create
  <2>2. CASE krhino_event_del
    BY <1>1, <2>2 DEF krhino_event_del, DelBegin, DelWake, DelEnd, Loop, NoCs
  <2>3. CASE \E f \in SUBSET Flag : SetAnd(f) \/ SetOr(f)
    BY <1>1, <2>3 DEF SetAnd, SetOr, waitVars, Loop
  <2>4. CASE SetNext
    <3>1. obj_type' = obj_type /\ cs' = [cs EXCEPT !.iter = Tail(@)]
      BY <2>4 DEF SetNext
    <3>2. cs'.op = cs.op
      BY <3>1
    <3> QED
      BY <1>1, <3>1, <3>2
  <2>5. CASE SetEnd
    BY <1>1, <2>5 DEF SetEnd, NoCs
  <2>6. CASE \E t \in Task : krhino_event_get(t)
    BY <1>1, <2>6 DEF krhino_event_get, GetNow, GetWait, GetEnd, pend_state_end_proc, waitVars
  <2>7. CASE WaitNext
    BY <1>1, <2>7 DEF WaitNext, Timeout, krhino_task_wait_abort, task_pri_change
  <2> QED
    BY <2>1, <2>2, <2>3, <2>4, <2>5, <2>6, <2>7 DEF EventNext, krhino_event_set
<1>3. QueueType' = "RHINO_BUF_QUEUE_OBJ_TYPE"
  BY DEF QueueType
<1>4. RingTyped'
  BY DEF RingTyped, queueVars
<1>5. KindFits' /\ RingHeld' /\ AllSendOK' /\ NothingGiven'
  BY <1>2, <1>3 DEF KindFits, RingHeld, AllSendOK, NothingGiven
<1> QED
  BY <1>4, <1>5

(* Steps that leave the queue and its content alone, unless they end it. *)
LEMMA RingStays ==
  ASSUME RingInv, kind # "event", UNCHANGED <<kind, ring, cur_num>>,
         (obj_type' = obj_type /\ cs' = cs) \/ (obj_type' = obj_type /\ cs'.op = "none")
           \/ (obj_type' = "RHINO_OBJ_TYPE_NONE" /\ cs'.op # "all_send"),
         msg' \in [Task -> Msg \cup {None}],
         \A t \in Task : pc'[t] \notin {"run", "BLK_FINISH"} => msg'[t] = None
  PROVE  RingInv'
<1> USE DEF RingInv
<1>1. QueueType' = QueueType /\ QueueType # "RHINO_OBJ_TYPE_NONE"
  BY DEF QueueType
<1>2. RingTyped' /\ NothingGiven' /\ KindFits'
  BY <1>1 DEF RingTyped, NothingGiven, KindFits
<1>3. AllSendOK'
  BY <1>1 DEF AllSendOK
<1>4. RingHeld'
  <2> SUFFICES ASSUME obj_type' = QueueType
               PROVE  \E q, st : Layout(ring, cur_num, kind = "buf_queue", q, st)
    BY <1>1 DEF RingHeld
  <2>1. obj_type = QueueType
    BY <1>1
  <2> QED
    BY <2>1 DEF RingHeld
<1> QED
  BY <1>2, <1>3, <1>4

(* Steps that empty it. *)
LEMMA RingReset ==
  ASSUME RingInv, kind # "event", kind' = kind, ring' = ringbuf_reset, msg' = msg, pc' = pc,
         cs'.op = "none",
         \/ obj_type' = QueueType /\ cur_num' = 0
         \/ obj_type' = "RHINO_OBJ_TYPE_NONE" /\ cur_num' = cur_num
  PROVE  RingInv'
<1> USE DEF RingInv
<1>1. QueueType' = QueueType /\ QueueType # "RHINO_OBJ_TYPE_NONE"
  BY DEF QueueType
<1>2. (kind = "buf_queue") \in BOOLEAN
  OBVIOUS
<1>3. Layout(ringbuf_reset, 0, kind = "buf_queue", <<>>, <<0>>)
  BY <1>2, ResetLayout
<1>4. RingTyped'
  BY <1>3 DEF RingTyped, Layout
<1>5. NothingGiven' /\ KindFits' /\ AllSendOK'
  BY <1>1 DEF NothingGiven, KindFits, AllSendOK
<1>6. RingHeld'
  BY <1>1, <1>3 DEF RingHeld
<1> QED
  BY <1>4, <1>5, <1>6

(* A waiter is woken: with a message, or with none. *)
LEMMA RingWakes ==
  ASSUME IpcInv, RingInv, kind # "event", NEW t \in ToSet(blk_list), NEW why \in BlkStates,
         Wake(t, why), UNCHANGED <<kind, obj_type, cs, ring, cur_num>>,
         \/ msg' = msg
         \/ why = "BLK_FINISH" /\ \E m \in Msg : msg' = [msg EXCEPT ![t] = m]
  PROVE  RingInv'
<1>1. t \in Task /\ pc[t] = "pend" /\ pc \in [Task -> {"run", "pend"} \cup BlkStates]
  BY DEF IpcInv, WaitersListed, WaitTypeOK
<1>2. pc' = [pc EXCEPT ![t] = why]
  BY DEF Wake
<1>3. msg \in [Task -> Msg \cup {None}] /\ msg[t] = None
      /\ \A u \in Task : pc[u] \notin {"run", "BLK_FINISH"} => msg[u] = None
  BY <1>1 DEF RingInv, RingTyped, NothingGiven
<1>4. msg' \in [Task -> Msg \cup {None}]
  BY <1>1, <1>3
<1>5. ASSUME NEW u \in Task, pc'[u] \notin {"run", "BLK_FINISH"} PROVE msg'[u] = None
  <2>1. CASE u = t
    <3>1. msg' = msg
      BY <1>1, <1>2, <1>5, <2>1
    <3> QED
      BY <1>3, <2>1, <3>1
  <2>2. CASE u # t
    BY <1>1, <1>2, <1>3, <1>5, <2>2
  <2> QED
    BY <2>1, <2>2
<1> QED
  BY <1>4, <1>5, RingStays

(* A message goes to the ring. *)
LEMMA RingPush ==
  ASSUME IpcInv, RingInv, kind # "event", kind' = kind, NEW m \in Sendable, SendPush(m)
  PROVE  RingInv'
<1>1. /\ obj_type = QueueType /\ cs.op = "none" /\ ~Full(m) /\ ring' = Push(m)
      /\ cur_num' = cur_num + 1 /\ UNCHANGED <<obj_type, pc, cs, msg>>
  BY QuietOp DEF SendPush, IsQueue, IpcInv, waitVars
<1>2. PICK st : Layout(ring', cur_num', kind = "buf_queue", Append(Contents, m), st)
  BY <1>1, PushStep DEF IpcInv, WaitTypeOK
<1>3. QueueType' = QueueType
  BY DEF QueueType
<1>4. RingTyped'
  BY <1>1, <1>2 DEF RingInv, RingTyped, Layout
<1>5. RingHeld'
  BY <1>2 DEF RingHeld
<1>6. KindFits' /\ NothingGiven' /\ AllSendOK'
  BY <1>1, <1>3 DEF RingInv, KindFits, NothingGiven, AllSendOK
<1> QED
  BY <1>4, <1>5, <1>6 DEF RingInv

(* A message is taken from it. *)
LEMMA RingPop ==
  ASSUME IpcInv, RingInv, kind # "event", kind' = kind, NEW t \in Task, RecvPop(t)
  PROVE  /\ RingInv' /\ msg' = [msg EXCEPT ![t] = Head(Contents)]
         /\ Contents # <<>> /\ Contents \in Seq(Msg)
<1>1. /\ obj_type = QueueType /\ cs.op = "none" /\ ~Empty /\ ring' = Pop.ring /\ pc[t] = "run"
      /\ cur_num' = cur_num - 1 /\ msg' = [msg EXCEPT ![t] = MsgOf(Pop.bytes)]
      /\ UNCHANGED <<obj_type, pc, cs>>
  BY QuietOp DEF RecvPop, IsQueue, IpcInv, waitVars
<1>2. /\ Contents # <<>> /\ Contents \in Seq(Msg) /\ MsgOf(Pop.bytes) = Head(Contents)
      /\ \E st : Layout(ring', cur_num', kind = "buf_queue", Tail(Contents), st)
  BY <1>1, PopStep
<1>3. PICK st : Layout(ring', cur_num', kind = "buf_queue", Tail(Contents), st)
  BY <1>2
<1>4. Head(Contents) \in Msg
  BY <1>2, HeadTailProperties
<1>5. QueueType' = QueueType
  BY DEF QueueType
<1>6. RingTyped'
  <2>1. cur_num' \in Nat /\ RingOK(ring')
    <3>1. cur_num' = Len(Tail(Contents)) /\ RingOK(ring')
      BY <1>3 DEF Layout
    <3>2. Tail(Contents) \in Seq(Msg)
      BY <1>2, HeadTailProperties
    <3>3. Len(Tail(Contents)) \in Nat
      BY <3>2, LenProperties
    <3> QED
      BY <3>1, <3>3
  <2> QED
    BY <1>1, <1>2, <1>4, <2>1 DEF RingInv, RingTyped
<1>7. RingHeld'
  BY <1>3 DEF RingHeld
<1>8. KindFits' /\ AllSendOK'
  BY <1>1, <1>5 DEF RingInv, KindFits, AllSendOK
<1>9. NothingGiven'
  <2> DEFINE x == MsgOf(Pop.bytes)
  <2> HIDE DEF x
  <2>1. msg' = [msg EXCEPT ![t] = x]
    BY <1>1 DEF x
  <2> QED
    BY <1>1, <2>1 DEF RingInv, RingTyped, NothingGiven
<1> QED
  BY <1>1, <1>2, <1>6, <1>7, <1>8, <1>9 DEF RingInv

(* Sends that reach waiters. *)
LEMMA RingSends ==
  ASSUME IpcInv, RingInv, kind # "event", kind' = kind,
         \/ \E m \in Sendable : SendWake(m) \/ SendAll(m)
         \/ SendAllNext \/ SendAllEnd
  PROVE  RingInv'
<1>1. blk_list \in Seq(Task)
  BY DEF IpcInv, WaitTypeOK
<1>2. ASSUME NEW m \in Sendable, SendWake(m) PROVE RingInv'
  <2>1. /\ blk_list # <<>> /\ Wake(Head(blk_list), "BLK_FINISH") /\ m \in Msg
        /\ msg' = [msg EXCEPT ![Head(blk_list)] = m] /\ UNCHANGED <<obj_type, cs, ring, cur_num>>
    BY <1>2 DEF SendWake, Hand, Sendable
  <2>2. Head(blk_list) \in ToSet(blk_list)
    BY <1>1, <2>1, FirstEntry
  <2> QED
    BY <2>1, <2>2, RingWakes DEF BlkStates
<1>3. CASE SendAllNext
  <2>1. /\ blk_list # <<>> /\ Wake(Head(blk_list), "BLK_FINISH") /\ cs.op = "all_send"
        /\ msg' = [msg EXCEPT ![Head(blk_list)] = cs.arg] /\ UNCHANGED <<obj_type, cs, ring, cur_num>>
    BY <1>3 DEF SendAllNext, Hand
  <2>2. Head(blk_list) \in ToSet(blk_list) /\ cs.arg \in Msg
    BY <1>1, <2>1, FirstEntry DEF RingInv, AllSendOK
  <2> QED
    BY <2>1, <2>2, RingWakes DEF BlkStates
<1>4. ASSUME NEW m \in Sendable, SendAll(m) PROVE RingInv'
  <2>1. /\ cs' = [op |-> "all_send", iter |-> <<>>, arg |-> m] /\ m \in Msg /\ kind = "queue"
        /\ IsQueue /\ obj_type = QueueType /\ blk_list # <<>>
        /\ UNCHANGED <<obj_type, pc, ring, cur_num, msg>>
    BY <1>4 DEF SendAll, Loop, IsQueue, Sendable, queueVars
  <2>2. cur_num = 0 /\ QueueType' = QueueType
    BY <2>1 DEF IpcInv, NoIdleMessage, Empty, QueueType
  <2>3. AllSendOK'
    BY <2>1, <2>2 DEF AllSendOK
  <2>4. RingTyped' /\ KindFits' /\ RingHeld' /\ NothingGiven'
    BY <2>1, <2>2 DEF RingInv, RingTyped, KindFits, RingHeld, NothingGiven
  <2> QED
    BY <2>3, <2>4 DEF RingInv
<1>5. CASE SendAllEnd
  <2>1. cs'.op = "none" /\ UNCHANGED <<obj_type, pc, ring, cur_num, msg>>
    BY <1>5 DEF SendAllEnd, NoCs, queueVars
  <2>2. /\ msg \in [Task -> Msg \cup {None}]
        /\ \A t \in Task : pc[t] \notin {"run", "BLK_FINISH"} => msg[t] = None
    BY DEF RingInv, RingTyped, NothingGiven
  <2> QED
    BY <2>1, <2>2, RingStays
<1> QED
  BY <1>2, <1>3, <1>4, <1>5

(* Receives that find no message, and the end of a wait. *)
LEMMA RingWaits ==
  ASSUME IpcInv, RingInv, kind # "event", kind' = kind, NEW t \in Task,
         RecvNoWait(t) \/ RecvWait(t) \/ RecvEnd(t)
  PROVE  RingInv'
<1>1. /\ msg \in [Task -> Msg \cup {None}] /\ pc \in [Task -> {"run", "pend"} \cup BlkStates]
      /\ \A u \in Task : pc[u] \notin {"run", "BLK_FINISH"} => msg[u] = None
  BY DEF RingInv, RingTyped, NothingGiven, IpcInv, WaitTypeOK
<1>2. UNCHANGED <<obj_type, cs, ring, cur_num>>
  BY DEF RecvNoWait, RecvWait, RecvEnd, pend_state_end_proc, waitVars
<1>3. /\ msg' = [msg EXCEPT ![t] = None] \/ (pc' = [pc EXCEPT ![t] = "run"] /\ msg' = msg)
      /\ pc' = pc \/ pc' = [pc EXCEPT ![t] = "pend"] \/ pc' = [pc EXCEPT ![t] = "run"]
  BY <1>1 DEF RecvNoWait, RecvWait, RecvEnd, pend_to_blk_obj, pend_state_end_proc, waitVars
<1>4. msg' \in [Task -> Msg \cup {None}]
  BY <1>1, <1>3
<1>5. \A u \in Task : pc'[u] \notin {"run", "BLK_FINISH"} => msg'[u] = None
  BY <1>1, <1>3
<1> QED
  BY <1>2, <1>4, <1>5, RingStays

(* Time, aborted waits, changes of priority. *)
LEMMA RingTime ==
  ASSUME IpcInv, RingInv, kind # "event", WaitNext, UNCHANGED <<kind, queueVars>>
  PROVE  RingInv'
<1>1. PICK t \in Task : Timeout(t) \/ krhino_task_wait_abort(t) \/ task_pri_change(t)
  BY DEF WaitNext
<1>2. CASE Timeout(t)
  <2>1. t \in ToSet(blk_list) /\ Wake(t, "BLK_TIMEOUT") /\ UNCHANGED <<obj_type, cs, ring, cur_num, msg>>
    BY <1>2 DEF Timeout, IpcInv, WaitersListed, queueVars
  <2> QED
    BY <2>1, RingWakes DEF BlkStates
<1>3. CASE krhino_task_wait_abort(t)
  <2>1. t \in ToSet(blk_list) /\ Wake(t, "BLK_ABORT") /\ UNCHANGED <<obj_type, cs, ring, cur_num, msg>>
    BY <1>3 DEF krhino_task_wait_abort, IpcInv, WaitersListed, queueVars
  <2> QED
    BY <2>1, RingWakes DEF BlkStates
<1>4. CASE task_pri_change(t)
  <2>1. UNCHANGED <<obj_type, cs, pc, ring, cur_num, msg>>
    BY <1>4 DEF task_pri_change, queueVars
  <2>2. /\ msg \in [Task -> Msg \cup {None}]
        /\ \A u \in Task : pc[u] \notin {"run", "BLK_FINISH"} => msg[u] = None
    BY DEF RingInv, RingTyped, NothingGiven
  <2> QED
    BY <2>1, <2>2, RingStays
<1> QED
  BY <1>1, <1>2, <1>3, <1>4

(* The deletion of a queue. *)
LEMMA RingDel ==
  ASSUME IpcInv, RingInv, kind # "event", krhino_queue_del, kind' = kind
  PROVE  RingInv'
<1>1. /\ msg \in [Task -> Msg \cup {None}]
      /\ \A u \in Task : pc[u] \notin {"run", "BLK_FINISH"} => msg[u] = None
  BY DEF RingInv, RingTyped, NothingGiven
<1>2. CASE DelBegin /\ UNCHANGED queueVars
  <2>1. /\ obj_type' = "RHINO_OBJ_TYPE_NONE" /\ cs'.op # "all_send"
        /\ UNCHANGED <<pc, ring, cur_num, msg>>
    BY <1>2 DEF DelBegin, Loop, queueVars
  <2> QED
    BY <1>1, <2>1, RingStays
<1>3. CASE DelWake /\ UNCHANGED queueVars
  <2>1. /\ blk_list # <<>> /\ Wake(Head(blk_list), "BLK_DEL")
        /\ UNCHANGED <<obj_type, cs, ring, cur_num, msg>>
    BY <1>3 DEF DelWake, queueVars
  <2>2. Head(blk_list) \in ToSet(blk_list)
    BY <2>1, FirstEntry DEF IpcInv, WaitTypeOK
  <2> QED
    BY <2>1, <2>2, RingWakes DEF BlkStates
<1>4. CASE DelEnd /\ ring' = ringbuf_reset /\ UNCHANGED <<cur_num, msg>>
  <2>1. cs'.op = "none" /\ UNCHANGED <<obj_type, pc>> /\ obj_type = "RHINO_OBJ_TYPE_NONE"
    BY <1>4 DEF DelEnd, NoCs, RingInv, KindFits
  <2> QED
    BY <1>4, <2>1, RingReset
<1> QED
  BY <1>2, <1>3, <1>4 DEF krhino_queue_del

(* Every step of a queue. *)
LEMMA QueueRing ==
  ASSUME IpcInv, RingInv, kind # "event", QueueNext, UNCHANGED kind
  PROVE  RingInv'
<1>1. CASE krhino_queue_create
  <2>1. /\ ring' = ringbuf_reset /\ msg' = msg /\ pc' = pc /\ cs'.op = "none"
        /\ obj_type' = QueueType /\ cur_num' = 0
    BY <1>1, QuietOp DEF krhino_queue_create, Create, ringbuf_init, IpcInv
  <2> QED
    BY <2>1, RingReset
<1>2. CASE krhino_queue_flush
  <2>1. /\ ring' = ringbuf_reset /\ msg' = msg /\ pc' = pc /\ cs'.op = "none"
        /\ obj_type' = QueueType /\ cur_num' = 0
    BY <1>2, QuietOp DEF krhino_queue_flush, IsQueue, waitVars, IpcInv
  <2> QED
    BY <2>1, RingReset
<1> QED
  BY <1>1, <1>2, RingDel, RingPush, RingSends, RingPop, RingWaits, RingTime DEF QueueNext

(* In the beginning there is no object. *)
LEMMA RingInitial == Init => RingInv
<1> SUFFICES ASSUME Init PROVE RingInv
  OBVIOUS
<1>1. /\ obj_type = "RHINO_OBJ_TYPE_NONE" /\ pc = [t \in Task |-> "run"] /\ cs.op = "none"
      /\ ring = ringbuf_reset /\ cur_num = 0 /\ msg = [t \in Task |-> None]
  BY DEF Init, WaitInit, QueueInit, ringbuf_init, NoCs
<1>2. RingOK(ring)
  BY <1>1, ResetLayout DEF Layout
<1>3. RingTyped /\ KindFits /\ RingHeld /\ AllSendOK /\ NothingGiven
  BY <1>1, <1>2 DEF RingTyped, KindFits, RingHeld, AllSendOK, NothingGiven, QueueType
<1> QED
  BY <1>3 DEF RingInv

(* Every step keeps the invariant. *)
LEMMA RingStep == IpcInv /\ RingInv /\ [Next]_vars => RingInv'
<1> SUFFICES ASSUME IpcInv, RingInv, [Next]_vars PROVE RingInv'
  OBVIOUS
<1>1. CASE kind = "event" /\ EventNext /\ UNCHANGED <<kind, queueVars>>
  BY <1>1, EventRing
<1>2. CASE kind # "event" /\ QueueNext /\ UNCHANGED kind
  BY <1>2, QueueRing
<1>3. CASE UNCHANGED vars
  <2>1. UNCHANGED <<kind, obj_type, pc, cs, ring, cur_num, msg>>
    BY <1>3 DEF vars, waitVars, queueVars
  <2> QED
    BY <2>1 DEF RingInv, RingTyped, KindFits, RingHeld, AllSendOK, NothingGiven, QueueType
<1> QED
  BY <1>1, <1>2, <1>3 DEF Next

(* So it holds in every state. *)
LEMMA RingAlways == Spec => [](IpcInv /\ RingInv)
BY IpcInitial, IpcStep, RingInitial, RingStep, PTL DEF Spec

(* The state of the kernel objects keeps its types: head, tail and freesize stay within
   the ring, the count of messages never falls below zero, and a receive is given a
   message or nothing. *)
THEOREM IpcTypeCorrect == Spec => []TypeOK
<1>1. IpcInv /\ RingInv => TypeOK
  BY RingFields DEF IpcInv, RingInv, RingTyped, TypeOK, QueueTypeOK
<1> QED
  BY <1>1, RingAlways, PTL

(* For rings of any size and messages of any lengths, wherever they are broken at the
   end of the ring: what freesize and tail delimit is whole messages and nothing else,
   and cur_num counts them. *)
THEOREM RingIsExact == Spec => []RingExact
<1>1. ASSUME IpcInv, RingInv PROVE RingExact
  <2> SUFFICES ASSUME obj_type = QueueType
               PROVE  /\ cur_num = Len(Contents)
                      /\ \A i \in DOMAIN Contents : Contents[i] \in Msg
                      /\ kind # "buf_queue" => RingSize - ring.freesize = cur_num * BlkSize
    BY DEF RingExact
  <2>1. PICK st : /\ Layout(ring, cur_num, kind = "buf_queue", Contents, st)
                  /\ Contents \in Seq(Msg) /\ cur_num = Len(Contents)
    BY <1>1, QueueHolds
  <2>2. \A i \in DOMAIN Contents : Contents[i] \in Msg
    BY <2>1
  <2>3. ASSUME kind # "buf_queue" PROVE RingSize - ring.freesize = cur_num * BlkSize
    <3>1. Layout(ring, cur_num, FALSE, Contents, st)
      BY <2>1, <2>3
    <3>2. Used(ring) = cur_num * BlkSize
      BY <3>1, FixUsed
    <3> QED
      BY <3>2 DEF Used
  <2> QED
    BY <2>1, <2>2, <2>3
<1> QED
  BY <1>1, RingAlways, PTL

-----------------------------------------------------------------------------
(* The abstract fifo: who waits there, and for whom the next message is. *)
LEMMA AbsWaits ==
  ASSUME IpcInv, RingInv
  PROVE  /\ \A t \in Task : Answer[t] = "waiting" <=> kind # "event" /\ pc[t] = "pend"
         /\ kind # "event" => Abs!Waiters = ToSet(blk_list)
         /\ blk_list # <<>> /\ kind # "event" => Head(blk_list) \in Abs!Foremost
<1>1. \A t \in Task : msg[t] # "waiting"
  <2>1. msg \in [Task -> Msg \cup {None}]
    BY DEF RingInv, RingTyped
  <2> QED
    BY <2>1, MarkAssumption
<1>2. \A t \in Task : Answer[t] = "waiting" <=> kind # "event" /\ pc[t] = "pend"
  BY <1>1 DEF Answer
<1>3. kind # "event" => Abs!Waiters = ToSet(blk_list)
  BY <1>2 DEF Abs!Waiters, IpcInv, WaitersListed
<1>4. ASSUME blk_list # <<>>, kind # "event" PROVE Head(blk_list) \in Abs!Foremost
  <2>1. blk_list \in Seq(Task) /\ Sorted(blk_list, prio)
    BY DEF IpcInv, WaitTypeOK, WaitersListed
  <2>2. Len(blk_list) \in Nat \ {0} /\ Head(blk_list) = blk_list[1] /\ Head(blk_list) \in ToSet(blk_list)
    BY <1>4, <2>1, EmptySeq, LenProperties, HeadTailProperties, FirstEntry
  <2>3. ASSUME NEW u \in ToSet(blk_list) PROVE prio[Head(blk_list)] <= prio[u]
    <3>1. PICK i \in 1 .. Len(blk_list) : u = blk_list[i]
      BY <2>1, LenProperties DEF ToSet
    <3>2. 1 \in 1 .. Len(blk_list) /\ 1 <= i
      BY <2>2
    <3>3. prio[blk_list[1]] <= prio[blk_list[i]]
      BY <2>1, <3>2 DEF Sorted
    <3> QED
      BY <2>2, <3>1, <3>3
  <2> QED
    BY <1>3, <1>4, <2>2, <2>3 DEF Abs!Foremost
<1> QED
  BY <1>2, <1>3, <1>4

(* The answer of one task changes. *)
LEMMA AnswerOf ==
  ASSUME kind' = kind, NEW t \in Task, NEW x,
         \A u \in Task \ {t} : msg'[u] = msg[u] /\ (pc'[u] = "pend" <=> pc[u] = "pend"),
         x = IF kind # "event" /\ pc'[t] = "pend" THEN "waiting" ELSE msg'[t]
  PROVE  Answer' = [Answer EXCEPT ![t] = x]
BY DEF Answer

(* No answer changes. *)
LEMMA SameAnswers ==
  ASSUME kind' = kind, msg' = msg, pc' = pc
  PROVE  Answer' = Answer
BY DEF Answer

(* The messages after a step of the ring. *)
LEMMA NextContents ==
  ASSUME kind' = kind, kind # "event", obj_type' = QueueType, NEW q, NEW st,
         Layout(ring', cur_num', kind = "buf_queue", q, st)
  PROVE  Fifo' = q
<1>1. q = IF kind = "buf_queue" THEN DynContents(ring') ELSE FixContents(ring', BlkSize)
  <2> DEFINE d == kind = "buf_queue"
             r == ring'
             c == cur_num'
  <2>1. Layout(r, c, d, q, st) /\ d \in BOOLEAN
    OBVIOUS
  <2> HIDE DEF d, r, c
  <2>2. q = IF d THEN DynContents(r) ELSE FixContents(r, BlkSize)
    BY ONLY <2>1, LayoutContents
  <2> QED
    BY <2>2 DEF d, r
<1>2. obj_type' # "RHINO_OBJ_TYPE_NONE"
  BY DEF QueueType
<1> QED
  BY <1>1, <1>2 DEF Fifo, Contents

(* A ring that stays as it is. *)
LEMMA SameFifo ==
  ASSUME UNCHANGED <<kind, obj_type, ring>>
  PROVE  Fifo' = Fifo
BY DEF Fifo, Contents

(* The fifo of a queue that exists, and of one that does not. *)
LEMMA FifoNow ==
  ASSUME RingInv, kind # "event"
  PROVE  /\ obj_type = QueueType => Fifo = Contents /\ (Empty <=> Fifo = <<>>)
         /\ obj_type = "RHINO_OBJ_TYPE_NONE" => Fifo = <<>>
<1>1. ASSUME obj_type = QueueType PROVE Fifo = Contents /\ (Empty <=> Fifo = <<>>)
  <2>1. obj_type # "RHINO_OBJ_TYPE_NONE"
    BY <1>1 DEF QueueType
  <2>2. Empty <=> Contents = <<>>
    BY <1>1, QueueHolds
  <2>3. Fifo = Contents
    BY <2>1 DEF Fifo
  <2> QED
    BY <2>2, <2>3
<1> QED
  BY <1>1 DEF Fifo

(* A wait ends without a message. *)
LEMMA AbsGiveUp ==
  ASSUME IpcInv, RingInv, kind # "event", NEW t \in ToSet(blk_list), NEW why \in BlkStates,
         Wake(t, why), UNCHANGED <<kind, obj_type, ring, msg>>
  PROVE  t \in Task /\ Abs!GiveUp(t)
<1>1. /\ t \in Task /\ pc[t] = "pend" /\ pc' = [pc EXCEPT ![t] = why] /\ prio' = prio
      /\ pc \in [Task -> {"run", "pend"} \cup BlkStates] /\ why # "pend"
  BY DEF IpcInv, WaitersListed, WaitTypeOK, Wake, BlkStates
<1>2. msg[t] = None
  BY <1>1 DEF RingInv, NothingGiven
<1>3. Answer[t] = "waiting"
  BY <1>1, AbsWaits
<1>4. Answer' = [Answer EXCEPT ![t] = None]
  BY <1>1, <1>2, AnswerOf
<1> QED
  BY <1>1, <1>3, <1>4, SameFifo DEF Abs!GiveUp

(* A message is handed to the first waiter. *)
LEMMA AbsHand ==
  ASSUME IpcInv, RingInv, kind # "event", UNCHANGED kind, blk_list # <<>>, Fifo = <<>>, NEW m \in Msg,
         Hand(Head(blk_list), m)
  PROVE  Abs!Send(m)
<1> DEFINE t == Head(blk_list)
<1>1. t \in ToSet(blk_list) /\ t \in Abs!Foremost
  BY FirstEntry, AbsWaits DEF IpcInv, WaitTypeOK
<1>2. /\ t \in Task /\ pc' = [pc EXCEPT ![t] = "BLK_FINISH"] /\ prio' = prio
      /\ pc \in [Task -> {"run", "pend"} \cup BlkStates] /\ msg' = [msg EXCEPT ![t] = m]
      /\ msg \in [Task -> Msg \cup {None}] /\ UNCHANGED <<obj_type, ring>>
  BY <1>1 DEF IpcInv, WaitersListed, WaitTypeOK, Hand, Wake, RingInv, RingTyped
<1> HIDE DEF t
<1>3. Answer' = [Answer EXCEPT ![t] = m]
  BY <1>2, AnswerOf
<1>4. Fifo' = Fifo
  BY <1>2, SameFifo
<1> QED
  BY <1>1, <1>2, <1>3, <1>4 DEF Abs!Send

(* Time, aborted waits, changes of priority. *)
LEMMA AbsTime ==
  ASSUME IpcInv, RingInv, WaitNext, UNCHANGED <<kind, ring, msg>>
  PROVE  Abs!Next \/ UNCHANGED <<Fifo, Answer, prio>>
<1>1. PICK t \in Task : Timeout(t) \/ krhino_task_wait_abort(t) \/ task_pri_change(t)
  BY DEF WaitNext
<1>2. UNCHANGED obj_type
  BY <1>1 DEF Timeout, krhino_task_wait_abort, task_pri_change
<1>3. CASE task_pri_change(t)
  <2>1. pc' = pc /\ \E p \in Prios : prio' = [prio EXCEPT ![t] = p]
    BY <1>3 DEF task_pri_change
  <2>2. Abs!SetPrio(t)
    BY <1>2, <2>1, SameFifo, SameAnswers DEF Abs!SetPrio
  <2> QED
    BY <2>2 DEF Abs!Next
<1>4. CASE kind = "event" /\ (Timeout(t) \/ krhino_task_wait_abort(t))
  <2>1. prio' = prio
    BY <1>4 DEF Timeout, krhino_task_wait_abort, Wake
  <2>2. Answer' = Answer
    BY <1>4 DEF Answer
  <2> QED
    BY <1>2, <2>1, <2>2, SameFifo
<1>5. CASE kind # "event" /\ (Timeout(t) \/ krhino_task_wait_abort(t))
  <2>1. t \in ToSet(blk_list) /\ \E why \in BlkStates : Wake(t, why)
    BY <1>5 DEF Timeout, krhino_task_wait_abort, IpcInv, WaitersListed, BlkStates
  <2>2. Abs!GiveUp(t)
    BY <1>2, <1>5, <2>1, AbsGiveUp
  <2> QED
    BY <2>2 DEF Abs!Next
<1> QED
  BY <1>1, <1>3, <1>4, <1>5

(* Nothing is to be seen of the steps of an event, but the priorities. *)
LEMMA AbsEvent ==
  ASSUME IpcInv, RingInv, kind = "event", EventNext, UNCHANGED <<kind, queueVars>>
  PROVE  Abs!Next \/ UNCHANGED <<Fifo, Answer, prio>>
<1>1. CASE WaitNext
  BY <1>1, AbsTime DEF queueVars
<1>2. CASE ~WaitNext
  <2>1. Fifo' = Fifo /\ Answer' = Answer
    BY DEF Fifo, Answer, queueVars
  <2>2. prio' = prio
    <3>1. CASE krhino_event_create
      BY <3>1 DEF krhino_event_create, Create
    <3>2. CASE krhino_event_del
      BY <3>2 DEF krhino_event_del, DelBegin, DelWake, DelEnd, Wake
    <3>3. CASE \E f \in SUBSET Flag : SetAnd(f) \/ SetOr(f)
      BY <3>3 DEF SetAnd, SetOr, waitVars
    <3>4. CASE SetNext
      BY <3>4 DEF SetNext, Wake
    <3>5. CASE SetEnd
      BY <3>5 DEF SetEnd
    <3>6. CASE \E t \in Task : krhino_event_get(t)
      BY <3>6 DEF krhino_event_get, GetNow, GetWait, GetEnd, pend_to_blk_obj, pend_state_end_proc,
                  waitVars
    <3> QED
      BY <1>2, <3>1, <3>2, <3>3, <3>4, <3>5, <3>6 DEF EventNext, krhino_event_set
  <2> QED
    BY <2>1, <2>2
<1> QED
  BY <1>1, <1>2

(* A queue that is created, emptied or deleted. *)
LEMMA AbsEnds ==
  ASSUME IpcInv, RingInv, kind # "event", UNCHANGED kind,
         krhino_queue_create \/ krhino_queue_flush \/ krhino_queue_del
  PROVE  Abs!Next \/ UNCHANGED <<Fifo, Answer, prio>>
<1>1. Layout(ringbuf_reset, 0, kind = "buf_queue", <<>>, <<0>>)
  BY ResetLayout
<1>2. ASSUME Fifo' = <<>>, UNCHANGED <<msg, pc, prio>> PROVE Abs!Next
  <2>1. Abs!Discard
    BY <1>2, SameAnswers DEF Abs!Discard
  <2> QED
    BY <2>1 DEF Abs!Next
<1>3. CASE krhino_queue_create \/ krhino_queue_flush
  <2>1. /\ ring' = ringbuf_reset /\ cur_num' = 0 /\ obj_type' = QueueType
        /\ UNCHANGED <<msg, pc, prio>>
    BY <1>3 DEF krhino_queue_create, krhino_queue_flush, Create, IsQueue, waitVars, ringbuf_init
  <2>2. Fifo' = <<>>
    BY <1>1, <2>1, NextContents
  <2> QED
    BY <1>2, <2>1, <2>2
<1>4. CASE krhino_queue_del
  <2>1. CASE DelBegin \/ DelEnd
    <3>1. obj_type' = "RHINO_OBJ_TYPE_NONE" /\ UNCHANGED <<msg, pc, prio>>
      BY <1>4, <2>1 DEF krhino_queue_del, DelBegin, DelWake, DelEnd, RingInv, KindFits, queueVars
    <3>2. Fifo' = <<>>
      BY <3>1 DEF Fifo
    <3> QED
      BY <1>2, <3>1, <3>2
  <2>2. CASE DelWake /\ UNCHANGED queueVars
    <3>1. /\ blk_list # <<>> /\ Wake(Head(blk_list), "BLK_DEL")
          /\ UNCHANGED <<obj_type, ring, msg>>
      BY <2>2 DEF DelWake, queueVars
    <3>2. Head(blk_list) \in ToSet(blk_list)
      BY <3>1, FirstEntry DEF IpcInv, WaitTypeOK
    <3>3. Head(blk_list) \in Task /\ Abs!GiveUp(Head(blk_list))
      BY <3>1, <3>2, AbsGiveUp DEF BlkStates
    <3> QED
      BY <3>3 DEF Abs!Next
  <2> QED
    BY <1>4, <2>1, <2>2 DEF krhino_queue_del
<1> QED
  BY <1>3, <1>4

(* A message is sent. *)
LEMMA AbsSends ==
  ASSUME IpcInv, RingInv, kind # "event", UNCHANGED kind,
         \/ \E m \in Sendable : SendPush(m) \/ SendWake(m) \/ SendAll(m)
         \/ SendAllNext \/ SendAllEnd
  PROVE  Abs!Next \/ UNCHANGED <<Fifo, Answer, prio>>
<1>1. \A m \in Sendable : m \in Msg
  BY DEF Sendable
<1>2. ASSUME NEW m \in Sendable, SendPush(m) PROVE Abs!Send(m)
  <2>1. /\ obj_type = QueueType /\ ~Full(m) /\ blk_list = <<>> /\ ring' = Push(m)
        /\ cur_num' = cur_num + 1 /\ UNCHANGED <<obj_type, pc, prio, msg>>
    BY <1>2 DEF SendPush, IsQueue, waitVars
  <2>2. PICK st : Layout(ring', cur_num', kind = "buf_queue", Append(Contents, m), st)
    BY <2>1, PushStep DEF IpcInv, WaitTypeOK
  <2>3. Fifo' = Append(Contents, m) /\ Fifo = Contents
    <3> DEFINE q == Append(Contents, m)
    <3>1. Layout(ring', cur_num', kind = "buf_queue", q, st)
      BY <2>2
    <3> HIDE DEF q
    <3>2. Fifo' = q
      BY <2>1, <3>1, NextContents
    <3> QED
      BY <2>1, <3>2, FifoNow DEF q
  <2>4. Abs!Waiters = {}
    BY <2>1, AbsWaits, NobodyListed DEF IpcInv
  <2> QED
    BY <2>1, <2>3, <2>4, SameAnswers DEF Abs!Send
<1>3. ASSUME NEW m \in Sendable, SendWake(m) PROVE Abs!Send(m)
  <2>1. IsQueue /\ obj_type = QueueType /\ blk_list # <<>> /\ Hand(Head(blk_list), m)
    BY <1>3 DEF SendWake, IsQueue
  <2>2. Fifo = <<>>
    BY <2>1, FifoNow DEF IpcInv, NoIdleMessage
  <2> QED
    BY <1>1, <2>1, <2>2, AbsHand
<1>4. CASE SendAllNext
  <2>1. cs.op = "all_send" /\ blk_list # <<>> /\ Hand(Head(blk_list), cs.arg)
    BY <1>4 DEF SendAllNext
  <2>2. cs.arg \in Msg /\ Empty /\ obj_type = QueueType
    BY <2>1 DEF RingInv, AllSendOK, Empty
  <2>3. Abs!Send(cs.arg)
    BY <2>1, <2>2, FifoNow, AbsHand
  <2> QED
    BY <2>2, <2>3 DEF Abs!Next
<1>5. CASE SendAllEnd \/ \E m \in Sendable : SendAll(m)
  <2>1. UNCHANGED <<obj_type, pc, prio, ring, msg>>
    BY <1>5 DEF SendAllEnd, SendAll, queueVars
  <2> QED
    BY <2>1, SameFifo, SameAnswers
<1> QED
  BY <1>1, <1>2, <1>3, <1>4, <1>5 DEF Abs!Next

(* A message is received, or waited for. *)
LEMMA AbsRecvs ==
  ASSUME IpcInv, RingInv, kind # "event", UNCHANGED kind, NEW t \in Task,
         RecvPop(t) \/ RecvNoWait(t) \/ RecvWait(t) \/ RecvEnd(t)
  PROVE  Abs!Next \/ UNCHANGED <<Fifo, Answer, prio>>
<1>1. /\ msg \in [Task -> Msg \cup {None}] /\ pc \in [Task -> {"run", "pend"} \cup BlkStates]
  BY DEF RingInv, RingTyped, IpcInv, WaitTypeOK
<1>2. pc[t] = "run" => Answer[t] # "waiting"
  BY AbsWaits
<1>3. CASE RecvPop(t)
  <2>1. /\ obj_type = QueueType /\ ~Empty /\ ring' = Pop.ring /\ pc[t] = "run"
        /\ cur_num' = cur_num - 1 /\ UNCHANGED <<obj_type, pc, prio>>
    BY <1>3 DEF RecvPop, IsQueue, waitVars
  <2>2. Contents # <<>> /\ msg' = [msg EXCEPT ![t] = Head(Contents)] /\ Fifo = Contents
    BY <1>3, <2>1, RingPop, FifoNow
  <2>3. PICK st : Layout(ring', cur_num', kind = "buf_queue", Tail(Contents), st)
    BY <2>1, PopStep
  <2>4. Fifo' = Tail(Contents)
    <3> DEFINE q == Tail(Contents)
    <3>1. Layout(ring', cur_num', kind = "buf_queue", q, st)
      BY <2>3
    <3> HIDE DEF q
    <3>2. Fifo' = q
      BY <2>1, <3>1, NextContents
    <3> QED
      BY <3>2 DEF q
  <2>5. Answer' = [Answer EXCEPT ![t] = Head(Contents)]
    <3> DEFINE x == Head(Contents)
    <3>1. msg' = [msg EXCEPT ![t] = x]
      BY <2>2
    <3> HIDE DEF x
    <3>2. Answer' = [Answer EXCEPT ![t] = x]
      BY <1>1, <2>1, <3>1, AnswerOf
    <3> QED
      BY <3>2 DEF x
  <2>6. Abs!Recv(t)
    BY <1>2, <2>1, <2>2, <2>4, <2>5 DEF Abs!Recv
  <2> QED
    BY <2>6 DEF Abs!Next
<1>4. CASE RecvNoWait(t) \/ RecvWait(t)
  <2>1. /\ obj_type = QueueType /\ Empty /\ pc[t] = "run" /\ msg' = [msg EXCEPT ![t] = None]
        /\ UNCHANGED <<obj_type, prio, ring>> /\ (pc' = pc \/ pc' = [pc EXCEPT ![t] = "pend"])
    BY <1>4 DEF RecvNoWait, RecvWait, pend_to_blk_obj, IsQueue, waitVars
  <2>2. Fifo = <<>> /\ Fifo' = Fifo
    BY <2>1, FifoNow, SameFifo
  <2>3. \E a \in {None, "waiting"} : Answer' = [Answer EXCEPT ![t] = a]
    <3>1. CASE pc' = pc
      BY <1>1, <2>1, <3>1, AnswerOf
    <3>2. CASE pc' = [pc EXCEPT ![t] = "pend"]
      BY <1>1, <2>1, <3>2, AnswerOf
    <3> QED
      BY <2>1, <3>1, <3>2
  <2>4. Abs!Recv(t)
    BY <1>2, <2>1, <2>2, <2>3 DEF Abs!Recv
  <2> QED
    BY <2>4 DEF Abs!Next
<1>5. CASE RecvEnd(t)
  <2>1. /\ pc[t] \in BlkStates /\ pc' = [pc EXCEPT ![t] = "run"] /\ UNCHANGED <<obj_type, prio, ring>>
        /\ msg' = [msg EXCEPT ![t] = IF pc[t] = "BLK_FINISH" THEN @ ELSE None]
    BY <1>5 DEF RecvEnd, pend_state_end_proc
  <2>2. pc[t] # "BLK_FINISH" => msg[t] = None
    BY <2>1 DEF RingInv, NothingGiven, BlkStates
  <2>3. msg' = msg
    BY <1>1, <2>1, <2>2
  <2>4. Answer' = Answer
    BY <1>1, <2>1, <2>3 DEF Answer, BlkStates
  <2> QED
    BY <2>1, <2>4, SameFifo
<1> QED
  BY <1>3, <1>4, <1>5

(* Every step is one of the abstract fifo, or is not to be seen there. *)
LEMMA AbsStep == IpcInv /\ RingInv /\ [Next]_vars => [Abs!Next]_<<Fifo, Answer, prio>>
<1> SUFFICES ASSUME IpcInv, RingInv, [Next]_vars
             PROVE  Abs!Next \/ UNCHANGED <<Fifo, Answer, prio>>
  OBVIOUS
<1>1. CASE kind = "event" /\ EventNext /\ UNCHANGED <<kind, queueVars>>
  BY <1>1, AbsEvent
<1>2. CASE kind # "event" /\ QueueNext /\ UNCHANGED kind
  <2>1. CASE WaitNext /\ UNCHANGED queueVars
    BY <1>2, <2>1, AbsTime DEF queueVars
  <2> QED
    BY <1>2, <2>1, AbsEnds, AbsSends, AbsRecvs DEF QueueNext
<1>3. CASE UNCHANGED vars
  <2>1. UNCHANGED <<kind, obj_type, ring, msg, pc, prio>>
    BY <1>3 DEF vars, waitVars, queueVars
  <2> QED
    BY <2>1, SameFifo, SameAnswers
<1> QED
  BY <1>1, <1>2, <1>3 DEF Next

(* Message queues and buffer queues implement MsgFifo: for any number of tasks and
   priorities, any messages and any size of the ring, messages come out whole and in
   the order in which they were sent, and one that finds waiters goes to the first of
   the highest priority, whatever ends a wait or reorders the waiters. *)
THEOREM QueueIsFifo == Spec => Refines
<1>1. Init => Abs!Init
  BY DEF Init, WaitInit, QueueInit, Abs!Init, Fifo, Answer
<1>2. IpcInv /\ RingInv /\ [Next]_vars => [Abs!Next]_<<Fifo, Answer, prio>>
  BY AbsStep
<1> QED
  BY <1>1, <1>2, RingAlways, PTL DEF Spec, Refines, Abs!Spec

==============================================================================
