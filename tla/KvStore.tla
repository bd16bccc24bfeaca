------------------------------ MODULE KvStore ------------------------------
(***************************************************************************)
(* The key-value store of kernel/rhino/fs/kv/kvmgr.c, in the default build *)
(* with one block in use and one reserved for the garbage collector.       *)
(*                                                                         *)
(* A step makes at most one write to the flash, so that a power failure    *)
(* between any two writes is a behaviour; a failure inside the write of an *)
(* item leaves a part of it.  Everything done with the mutex held and      *)
(* without a write belongs to the step of the write that follows, or to    *)
(* the step that unlocks.  A write of one byte, a block header and an      *)
(* erase are atomic; reads, writes and memory allocations succeed.         *)
(***************************************************************************)
EXTENDS Integers, FiniteSets, FiniteSetsExt

CONSTANTS
  Task,           \* the tasks that call the store
  Keys, Values,
  None,           \* no task, no key, no value
  Requests,       \* the calls tasks make: [op, keys, val]
  ItemLen,        \* the length of an item with a value, rounded by KV_ALIGN
  BLK_NUMS, BLK_SIZE, BLK_HDR_SIZE, ITEM_HDR_SIZE, ITEM_MAX_LEN,
  MaxCalls,       \* bound: calls in a behaviour
  MaxFails,       \* bound: power failures in a behaviour
  FailInCopy      \* may power fail when a copied item lies at its own origin_off?

KV_GC_RESERVED == 1

ASSUME KvAssumption ==
  /\ BLK_NUMS = KV_GC_RESERVED + 1
  /\ None \notin Task \cup Keys \cup Values \cup {"gc", "boot"}
  /\ "gc" \notin Task /\ "boot" \notin Task
  /\ {"RES_OK", "RES_NO_SPACE", "RES_ITEM_NOT_FOUND"} \cap Values = {}
  /\ BLK_SIZE \in Nat /\ BLK_HDR_SIZE \in Nat \ {0} /\ ITEM_HDR_SIZE \in Nat \ {0}
  /\ ITEM_MAX_LEN \in Nat
  /\ ItemLen \in [Values -> (ITEM_HDR_SIZE + 1) .. ITEM_MAX_LEN]
  /\ ITEM_MAX_LEN + BLK_HDR_SIZE < BLK_SIZE
  /\ Requests \subseteq [op : {"set"}, keys : {{k} : k \in Keys}, val : Values]
                  \cup [op : {"get", "del"}, keys : {{k} : k \in Keys}, val : {None}]
                  \cup [op : {"prefix"}, keys : SUBSET Keys, val : {None}]
  /\ MaxCalls \in Nat /\ MaxFails \in Nat /\ FailInCopy \in BOOLEAN

Blocks == 0 .. BLK_NUMS - 1

VARIABLES
  hdr, items,                          \* the flash: block headers and items
  info, clean_blk_nums, write_pos,     \* g_kv_mgr
  gc_trigger,                          \* also: a collector task is there
  gc_waiter,                           \* whether the counter is not 0
  gc_sem,                              \* the count of the semaphore
  ending,                              \* collectors between their unlock and their end
  pc, call,                            \* where each task is, and its call
  job,                                 \* what the owner of the mutex does; kv_init too
  ans, req,                            \* history: answers, changes still to be made
  ncalls, fails                        \* counters of the bounds

flash == <<hdr, items>>
gcVars == <<gc_trigger, gc_waiter, gc_sem, ending>>
counters == <<ncalls, fails>>
vars == <<flash, info, clean_blk_nums, write_pos, gcVars, pc, call, job, ans, req, counters>>

NoCall == [op |-> "none", keys |-> {}, val |-> None]

(* by: a task, "gc", "boot" or None when the mutex is free; pos: the item at hand;
   blk: the block of the scan or of the collection; mark: the block to mark DIRTY;
   unclean: the array of kv_init. *)
Job(by, step, pos, blk) ==
  [by |-> by, step |-> step, pos |-> pos, blk |-> blk, mark |-> 0, unclean |-> {}]
Free == Job(None, "free", 0, 0)

Blk(pos) == pos \div BLK_SIZE
Start(b) == b * BLK_SIZE
InBlock(its, b) == {i \in its : Blk(i.pos) = b}

(* A NORMAL item; of what is left of another one only the length counts.  A write
   cut off in the header is skipped by the size of a header, a later one has a
   header and a wrong crc. *)
Item(pos, key, val, origin) ==
  [pos |-> pos, state |-> "NORMAL", len |-> ItemLen[val], key |-> key, val |-> val, origin |-> origin]
Rest(state, pos, len) ==
  [pos |-> pos, state |-> state, len |-> len, key |-> None, val |-> None, origin |-> 0]

Normal(its) == {i \in its : i.state = "NORMAL"}
Garbage == {"DELETE", "HOLE", "TORN"}
First(its) == CHOOSE i \in its : \A j \in its : i.pos <= j.pos

(* Where kv_item_traverse stops, and the space it then notes. *)
FreePos(its, b) == Max({Start(b) + BLK_HDR_SIZE} \cup {i.pos + i.len : i \in InBlock(its, b)})
SpaceOf(its, b) ==
  LET end == Start(b) + BLK_SIZE
  IN  IF end > FreePos(its, b) THEN end - FreePos(its, b) ELSE ITEM_HDR_SIZE

(* kv_item_get: the first item of the key in the blocks that are not clean; the
   traversals that find nothing note the space of their block.  (A USED block holds
   no garbage then, see Reserve: no traversal has to mark it.) *)
Candidates(k) == {i \in Normal(items) : i.key = k /\ info[Blk(i.pos)].state # "CLEAN"}
InfoAfterGet(k) ==
  [b \in Blocks |->
     IF /\ info[b].state # "CLEAN"
        /\ \A i \in Candidates(k) : b < Blk(i.pos)
     THEN [info[b] EXCEPT !.space = SpaceOf(items, b)]
     ELSE info[b]]

(* The contents of the store, for the callers. *)
ViewOf(its) ==
  [k \in Keys |-> LET f == {i \in Normal(its) : i.key = k}
                  IN  IF f = {} THEN None ELSE First(f).val]
View == ViewOf(items)

Unmade(changes) == {c \in changes : ViewOf(items')[c[1]] # c[2]}
Changes(c) == IF c.op = "get" THEN {} ELSE c.keys \X {c.val}

Up == job.by # "boot"

(* A new flash: no block has a header. *)
Init ==
  /\ hdr = [b \in Blocks |-> "BAD"] /\ items = {}
  /\ info = [b \in Blocks |-> [state |-> "NONE", space |-> 0]]
  /\ clean_blk_nums = 0 /\ write_pos = 0
  /\ gc_trigger = FALSE /\ gc_waiter = FALSE /\ gc_sem = 0 /\ ending = 0
  /\ pc = [t \in Task |-> "idle"] /\ call = [t \in Task |-> NoCall]
  /\ job = Job("boot", "scan", 0, 0)
  /\ ans = [t \in Task |-> "RES_OK"] /\ req = [o \in Task \cup {None} |-> {}]
  /\ ncalls = 0 /\ fails = 0

-----------------------------------------------------------------------------
(* kv_trigger_gc, when cond holds. *)
TriggerGc(cond) ==
  /\ gc_trigger' = (gc_trigger \/ cond)
  /\ gc_waiter' = (gc_waiter /\ (gc_trigger \/ ~cond))
  /\ UNCHANGED <<gc_sem, ending>>

(* The writes of the flash: an item is appended, kv_item_del clears the state of
   one; info1 is block_info by then, and the job goes on with step next. *)
WriteItem(i) == items' = items \cup {i}

DeleteItem(p, info1, j, next) ==
  LET i == CHOOSE x \in items : x.pos = p
      b == Blk(p)
  IN  /\ items' = (items \ {i}) \cup {Rest("DELETE", p, i.len)}
      /\ job' = IF info1[b].state = "USED"
                THEN [j EXCEPT !.step = "mark", !.mark = b]
                ELSE [j EXCEPT !.step = next]

AfterMark ==
  CASE job.by = "boot" -> "scan"
    [] job.by \in Task /\ call[job.by].op = "prefix" -> "prefix"
    [] OTHER -> "return"

(* The end of kv_item_del: the block is no longer free of garbage. *)
MarkDirty ==
  /\ job.step = "mark"
  /\ hdr' = [hdr EXCEPT ![job.mark] = "DIRTY"]
  /\ info' = [info EXCEPT ![job.mark].state = "DIRTY"]
  /\ job' = [job EXCEPT !.step = AfterMark]
  /\ UNCHANGED <<items, clean_blk_nums, write_pos, gcVars, pc, call, ans, req, counters>>

-----------------------------------------------------------------------------
(* Power fails, and the RAM is lost.  Between the copy of an item and the erase of
   its original the store is not safe when the item lies where its origin_off
   points (see Refines): FailInCopy says whether power may fail then. *)
StaleCopy ==
  /\ job.by = "gc" /\ job.step = "copy"
  /\ \E i \in Normal(InBlock(items, job.blk)) : i.pos <= job.pos /\ i.origin = i.pos

FailAllowed == fails < MaxFails /\ (StaleCopy => FailInCopy)

RamLost ==
  /\ info' = [b \in Blocks |-> [state |-> "NONE", space |-> 0]]
  /\ clean_blk_nums' = 0 /\ write_pos' = 0
  /\ gc_trigger' = FALSE /\ gc_waiter' = FALSE /\ gc_sem' = 0 /\ ending' = 0
  /\ pc' = [t \in Task |-> "idle"] /\ call' = [t \in Task |-> NoCall]
  /\ job' = Job("boot", "scan", 0, 0)
  /\ ans' = [t \in Task |-> "RES_OK"]
  /\ req' = [o \in Task \cup {None} |->
               IF o = None THEN UNION {req[p] : p \in Task \cup {None}} ELSE {}]

PowerFail ==
  /\ FailAllowed
  /\ fails' = fails + 1
  /\ RamLost
  /\ UNCHANGED <<flash, ncalls>>

(* Power fails inside the write of an item of this length at write_pos. *)
TornWrite(len) ==
  /\ FailAllowed
  /\ fails' = fails + 1
  /\ \/ WriteItem(Rest("HOLE", write_pos, ITEM_HDR_SIZE))
     \/ WriteItem(Rest("TORN", write_pos, len))
  /\ RamLost
  /\ UNCHANGED <<hdr, ncalls>>

(* aos_kv_deinit, called when nothing is under way, and aos_kv_init after it. *)
Deinit ==
  /\ job = Free /\ ~gc_trigger /\ ending = 0
  /\ \A t \in Task : pc[t] = "idle"
  /\ ncalls < MaxCalls /\ ncalls' = ncalls + 1
  /\ RamLost
  /\ UNCHANGED <<flash, fails>>

-----------------------------------------------------------------------------
(* A call.  aos_kv_set looks at gc_trigger, counts itself and takes the semaphore,
   all without the mutex. *)
Invoke(t) ==
  /\ Up /\ pc[t] = "idle"
  /\ ncalls < MaxCalls /\ ncalls' = ncalls + 1
  /\ \E c \in Requests :
       /\ call' = [call EXCEPT ![t] = c]
       /\ req' = [req EXCEPT ![t] = Changes(c)]
       /\ pc' = [pc EXCEPT ![t] = IF c.op = "set" /\ gc_trigger THEN "count" ELSE "lock"]
  /\ UNCHANGED <<flash, info, clean_blk_nums, write_pos, gcVars, job, ans, fails>>

CountWaiter(t) ==
  /\ pc[t] = "count"
  /\ gc_waiter' = TRUE
  /\ pc' = [pc EXCEPT ![t] = "take"]
  /\ UNCHANGED <<flash, info, clean_blk_nums, write_pos, gc_trigger, gc_sem, ending, call, job,
                 ans, req, counters>>

TakeGcSem(t) ==
  /\ pc[t] = "take"
  /\ \/ gc_sem > 0 /\ gc_sem' = gc_sem - 1 /\ pc' = [pc EXCEPT ![t] = "lock"]
     \/ gc_sem = 0 /\ pc' = [pc EXCEPT ![t] = "blocked"] /\ UNCHANGED gc_sem
  /\ UNCHANGED <<flash, info, clean_blk_nums, write_pos, gc_trigger, gc_waiter, ending, call, job,
                 ans, req, counters>>

Locks(t, op) == pc[t] = "lock" /\ job = Free /\ call[t].op = op
KeyOf(t) == CHOOSE k \in call[t].keys : TRUE

(* Unlock the mutex and answer. *)
Finish(t, res) ==
  /\ job' = Free
  /\ pc' = [pc EXCEPT ![t] = "idle"]
  /\ call' = [call EXCEPT ![t] = NoCall]
  /\ ans' = [ans EXCEPT ![t] = res]
  /\ req' = [req EXCEPT ![t] = {}]

Return(t) ==
  /\ job.by = t /\ job.step = "return"
  /\ Finish(t, "RES_OK")
  /\ UNCHANGED <<flash, info, clean_blk_nums, write_pos, gcVars, counters>>

(* aos_kv_get *)
Get(t) ==
  /\ Locks(t, "get")
  /\ LET f == Candidates(KeyOf(t))
     IN  Finish(t, IF f = {} THEN "RES_ITEM_NOT_FOUND" ELSE First(f).val)
  /\ info' = InfoAfterGet(KeyOf(t))
  /\ UNCHANGED <<flash, clean_blk_nums, write_pos, gcVars, counters>>

(* aos_kv_set: kv_item_get, and for another value kv_item_store with the position of
   the old item, then kv_item_del of that item. *)
Same(t) == LET f == Candidates(KeyOf(t)) IN f # {} /\ First(f).val = call[t].val
SetLen(t) == ItemLen[call[t].val]
SpaceFor(t) == InfoAfterGet(KeyOf(t))[Blk(write_pos)].space

SetSame(t) ==
  /\ Locks(t, "set") /\ Same(t)
  /\ Finish(t, "RES_OK")
  /\ info' = InfoAfterGet(KeyOf(t))
  /\ UNCHANGED <<flash, clean_blk_nums, write_pos, gcVars, counters>>

(* kv_calc_position finds no room. *)
SetFull(t) ==
  /\ Locks(t, "set") /\ ~Same(t)
  /\ SpaceFor(t) <= SetLen(t)
  /\ TriggerGc(TRUE)
  /\ Finish(t, "RES_NO_SPACE")
  /\ info' = InfoAfterGet(KeyOf(t))
  /\ UNCHANGED <<flash, clean_blk_nums, write_pos, counters>>

SetStore(t) ==
  /\ Locks(t, "set") /\ ~Same(t)
  /\ SpaceFor(t) > SetLen(t)
  /\ TriggerGc(SpaceFor(t) - SetLen(t) < ITEM_MAX_LEN /\ clean_blk_nums <= KV_GC_RESERVED)
  /\ LET f   == Candidates(KeyOf(t))
         old == IF f = {} THEN 0 ELSE First(f).pos
     IN  /\ WriteItem(Item(write_pos, KeyOf(t), call[t].val, old))
         /\ job' = Job(t, IF f = {} THEN "return" ELSE "delete", old, 0)
  /\ write_pos' = write_pos + SetLen(t)
  /\ info' = [InfoAfterGet(KeyOf(t)) EXCEPT ![Blk(write_pos')].space = @ - SetLen(t)]
  /\ req' = [req EXCEPT ![t] = Unmade(@)]
  /\ UNCHANGED <<hdr, clean_blk_nums, pc, call, ans, counters>>

SetTorn(t) ==
  /\ Locks(t, "set") /\ ~Same(t)
  /\ SpaceFor(t) > SetLen(t)
  /\ TornWrite(SetLen(t))

SetDelete(t) ==
  /\ job.by = t /\ job.step = "delete"
  /\ DeleteItem(job.pos, info, job, "return")
  /\ req' = [req EXCEPT ![t] = Unmade(@)]
  /\ UNCHANGED <<hdr, info, clean_blk_nums, write_pos, gcVars, pc, call, ans, counters>>

(* aos_kv_del *)
Del(t) ==
  /\ Locks(t, "del")
  /\ info' = InfoAfterGet(KeyOf(t))
  /\ LET f == Candidates(KeyOf(t))
     IN  \/ /\ f = {}
            /\ Finish(t, "RES_ITEM_NOT_FOUND")
            /\ UNCHANGED items
         \/ /\ f # {}
            /\ DeleteItem(First(f).pos, info', Job(t, "delete", 0, 0), "return")
            /\ req' = [req EXCEPT ![t] = Unmade(@)]
            /\ UNCHANGED <<pc, call, ans>>
  /\ UNCHANGED <<hdr, clean_blk_nums, write_pos, gcVars, counters>>

(* __item_del_by_prefix_cb: the items to delete; keys is the set with the prefix. *)
WithPrefix(keys) == {i \in Normal(items) : i.key \in keys}

(* aos_kv_del_by_prefix: every block is traversed, and every item of a key with the
   prefix deleted. *)
DelByPrefix(t) ==
  /\ Locks(t, "prefix") \/ (job.by = t /\ job.step = "prefix")
  /\ LET f == WithPrefix(call[t].keys)
     IN  \/ /\ f = {}
            /\ info' = [b \in Blocks |-> [info[b] EXCEPT !.space = SpaceOf(items, b)]]
            /\ Finish(t, "RES_OK")
            /\ UNCHANGED items
         \/ /\ f # {}
            /\ DeleteItem(First(f).pos, info, Job(t, "prefix", 0, 0), "prefix")
            /\ req' = [req EXCEPT ![t] = Unmade(@)]
            /\ UNCHANGED <<info, pc, call, ans>>
  /\ UNCHANGED <<hdr, clean_blk_nums, write_pos, gcVars, counters>>

-----------------------------------------------------------------------------
(* kv_gc_task: from the block after the one in use, the first DIRTY block is copied
   to the first clean one, formatted, and the copy put to use. *)
CleanBlocks == {b \in Blocks : info[b].state = "CLEAN"}
Distance(b) == (b + BLK_NUMS - Blk(write_pos) - 1) % BLK_NUMS
GcSources ==
  {b \in Blocks : /\ info[b].state = "DIRTY"
                  /\ \A c \in Blocks : info[c].state = "DIRTY" => Distance(b) <= Distance(c)}

(* gc_trigger = 0, the unlock; the look at gc_waiter is still to come. *)
GcExit ==
  /\ gc_trigger' = FALSE
  /\ ending' = ending + 1
  /\ job' = Free
  /\ UNCHANGED <<gc_waiter, gc_sem>>

(* Faulty: write_pos is not put back when there is nothing to collect. *)
GcStartMoved ==
  /\ gc_trigger /\ job = Free
  /\ CleanBlocks # {} /\ clean_blk_nums # 0
  /\ \/ GcSources = {} /\ GcExit
     \/ /\ \E b \in GcSources : job' = Job("gc", "copy", Start(b), b)
        /\ UNCHANGED gcVars
  /\ write_pos' = Start(Min(CleanBlocks)) + BLK_HDR_SIZE
  /\ UNCHANGED <<flash, info, clean_blk_nums, pc, call, ans, req, counters>>

GcStart ==
  /\ gc_trigger /\ job = Free
  /\ \/ /\ (CleanBlocks = {} \/ clean_blk_nums = 0 \/ GcSources = {})
        /\ GcExit
        /\ UNCHANGED write_pos
     \/ /\ CleanBlocks # {} /\ clean_blk_nums # 0
        /\ \E b \in GcSources : job' = Job("gc", "copy", Start(b), b)
        /\ write_pos' = Start(Min(CleanBlocks)) + BLK_HDR_SIZE
        /\ UNCHANGED gcVars
  /\ UNCHANGED <<flash, info, clean_blk_nums, pc, call, ans, req, counters>>

GcLeft == {i \in Normal(InBlock(items, job.blk)) : i.pos > job.pos}

(* __item_gc_cb: the bytes are copied, origin_off with them. *)
GcCopy ==
  /\ job.by = "gc" /\ job.step = "copy" /\ GcLeft # {}
  /\ LET i == First(GcLeft)
     IN  /\ WriteItem([i EXCEPT !.pos = write_pos])
         /\ write_pos' = write_pos + i.len
         /\ info' = [info EXCEPT ![Blk(write_pos')].space = @ - i.len]
         /\ job' = [job EXCEPT !.pos = i.pos]
  /\ UNCHANGED <<hdr, clean_blk_nums, gcVars, pc, call, ans, req, counters>>

GcTorn ==
  /\ job.by = "gc" /\ job.step = "copy" /\ GcLeft # {}
  /\ TornWrite(First(GcLeft).len)

(* kv_block_format: the erase, then the header. *)
Erase(b) ==
  /\ items' = items \ InBlock(items, b)
  /\ hdr' = [hdr EXCEPT ![b] = "BAD"]

WriteHeader(b) ==
  /\ hdr' = [hdr EXCEPT ![b] = "CLEAN"]
  /\ info' = [info EXCEPT ![b] = [state |-> "CLEAN", space |-> BLK_SIZE - BLK_HDR_SIZE]]
  /\ clean_blk_nums' = clean_blk_nums + 1

GcErase ==
  /\ job.by = "gc" /\ job.step = "copy" /\ GcLeft = {}
  /\ Erase(job.blk)
  /\ job' = [job EXCEPT !.step = "format"]
  /\ UNCHANGED <<info, clean_blk_nums, write_pos, gcVars, pc, call, ans, req, counters>>

GcFormat ==
  /\ job.by = "gc" /\ job.step = "format"
  /\ WriteHeader(job.blk)
  /\ job' = [job EXCEPT !.step = "use"]
  /\ UNCHANGED <<items, write_pos, gcVars, pc, call, ans, req, counters>>

(* Faulty: the block put to use is still counted as clean. *)
GcUseUncounted ==
  /\ job.by = "gc" /\ job.step = "use"
  /\ hdr' = [hdr EXCEPT ![Blk(write_pos)] = "USED"]
  /\ info' = [info EXCEPT ![Blk(write_pos)].state = "USED"]
  /\ GcExit
  /\ UNCHANGED <<items, clean_blk_nums, write_pos, pc, call, ans, req, counters>>

GcUse ==
  /\ job.by = "gc" /\ job.step = "use"
  /\ hdr' = [hdr EXCEPT ![Blk(write_pos)] = "USED"]
  /\ info' = [info EXCEPT ![Blk(write_pos)].state = "USED"]
  /\ clean_blk_nums' = clean_blk_nums - 1
  /\ GcExit
  /\ UNCHANGED <<items, write_pos, pc, call, ans, req, counters>>

(* After the unlock: kv_os_sem_give_all wakes every task blocked on the semaphore,
   or adds one to its count when there is none. *)
GcSignal ==
  /\ ending > 0
  /\ ending' = ending - 1
  /\ LET blocked == {t \in Task : pc[t] = "blocked"}
     IN  /\ pc' = [t \in Task |-> IF gc_waiter /\ t \in blocked THEN "lock" ELSE pc[t]]
         /\ gc_sem' = IF gc_waiter /\ blocked = {} THEN gc_sem + 1 ELSE gc_sem
  /\ UNCHANGED <<flash, info, clean_blk_nums, write_pos, gc_trigger, gc_waiter, call, job, ans, req,
                 counters>>

-----------------------------------------------------------------------------
(* aos_kv_init and kv_init: every block is scanned, its items recovered. *)
Scanning == job.by = "boot" /\ job.step = "scan"

NextBlock(j) == IF j.blk + 1 = BLK_NUMS THEN [j EXCEPT !.step = "settle"] ELSE [j EXCEPT !.blk = @ + 1]

BootNoHeader ==
  /\ Scanning /\ hdr[job.blk] = "BAD"
  /\ items' = items \ InBlock(items, job.blk)
  /\ WriteHeader(job.blk)
  /\ job' = NextBlock(job)
  /\ UNCHANGED <<write_pos, gcVars, pc, call, ans, req, counters>>

(* What __item_recovery_cb and kv_item_traverse have to write in the block: an item
   with a wrong crc is deleted, and the item at origin_off if it has the same key;
   a USED block with garbage becomes DIRTY. *)
Original(i) == {o \in Normal(items) : o.pos = i.origin /\ o.pos # i.pos /\ o.key = i.key}

(* Faulty: the item an update was to replace is left alone. *)
BootWorkNoUpdate ==
  {i \in InBlock(items, job.blk) :
     CASE i.state = "TORN"   -> TRUE
       [] i.state = "NORMAL" -> FALSE
       [] OTHER              -> hdr[job.blk] = "USED"}

BootWork ==
  {i \in InBlock(items, job.blk) :
     CASE i.state = "TORN"   -> TRUE
       [] i.state = "NORMAL" -> Original(i) # {}
       [] OTHER              -> hdr[job.blk] = "USED"}

BootRecover ==
  /\ Scanning /\ hdr[job.blk] # "BAD" /\ BootWork # {}
  /\ LET i     == First(BootWork)
         info1 == [info EXCEPT ![job.blk].state = hdr[job.blk]]
     IN  \/ /\ i.state \in {"TORN", "NORMAL"}
            /\ DeleteItem(IF i.state = "TORN" THEN i.pos ELSE i.origin, info1, job, "scan")
            /\ info' = info1
            /\ UNCHANGED hdr
         \/ /\ i.state \notin {"TORN", "NORMAL"}
            /\ hdr' = [hdr EXCEPT ![job.blk] = "DIRTY"]
            /\ info' = [info EXCEPT ![job.blk].state = "DIRTY"]
            /\ UNCHANGED <<items, job>>
  /\ req' = [req EXCEPT ![None] = Unmade(@)]
  /\ UNCHANGED <<clean_blk_nums, write_pos, gcVars, pc, call, ans, counters>>

BootBlock ==
  /\ Scanning /\ hdr[job.blk] # "BAD" /\ BootWork = {}
  /\ LET b == job.blk
         s == SpaceOf(items, b)
         clean == hdr[b] = "CLEAN" /\ s = BLK_SIZE - BLK_HDR_SIZE
     IN  /\ info' = [info EXCEPT ![b] = [state |-> hdr[b], space |-> s]]
         /\ clean_blk_nums' = clean_blk_nums + (IF clean THEN 1 ELSE 0)
         /\ job' = NextBlock([job EXCEPT !.unclean =
                                IF hdr[b] = "CLEAN" /\ ~clean THEN @ \cup {b} ELSE @])
  /\ UNCHANGED <<flash, write_pos, gcVars, pc, call, ans, req, counters>>

(* The target of a collection that was cut off: it holds the only copy of its items
   if there is a clean block beside it, and copies of them if not. *)
Settling == job.by = "boot" /\ job.step = "settle"

BootKeep ==
  /\ Settling /\ job.unclean # {} /\ clean_blk_nums >= KV_GC_RESERVED
  /\ LET b == Max(job.unclean)
     IN  /\ hdr' = [hdr EXCEPT ![b] = "DIRTY"]
         /\ info' = [info EXCEPT ![b].state = "DIRTY"]
         /\ job' = [job EXCEPT !.unclean = @ \ {b}]
  /\ UNCHANGED <<items, clean_blk_nums, write_pos, gcVars, pc, call, ans, req, counters>>

(* Faulty: the target of a collection is erased whether or not it holds the only copy. *)
BootEraseTarget ==
  /\ Settling /\ (job.unclean # {} \/ clean_blk_nums = 0)
  /\ LET b == IF job.unclean = {} THEN 0 ELSE Max(job.unclean)
     IN  /\ Erase(b)
         /\ job' = [job EXCEPT !.unclean = @ \ {b}, !.blk = b, !.step = "format"]
  /\ UNCHANGED <<info, clean_blk_nums, write_pos, gcVars, pc, call, ans, req, counters>>

(* The loop over unclean formats it when there is no clean block yet; after the loop
   block 0 is formatted if there is still none. *)
BootErase ==
  /\ Settling /\ clean_blk_nums < (IF job.unclean = {} THEN 1 ELSE KV_GC_RESERVED)
  /\ LET b == IF job.unclean = {} THEN 0 ELSE Max(job.unclean)
     IN  /\ Erase(b)
         /\ job' = [job EXCEPT !.unclean = @ \ {b}, !.blk = b,
                               !.step = IF job.unclean = {} THEN "format 0" ELSE "format"]
  /\ UNCHANGED <<info, clean_blk_nums, write_pos, gcVars, pc, call, ans, req, counters>>

BootFormat ==
  /\ job.by = "boot" /\ job.step \in {"format", "format 0"}
  /\ WriteHeader(job.blk)
  /\ job' = [job EXCEPT !.step = IF job.step = "format" THEN "settle" ELSE "ready"]
  /\ UNCHANGED <<items, write_pos, gcVars, pc, call, ans, req, counters>>

(* The store is up: block 0 is put to use if all are clean, else writing goes on in
   the block before a clean one; a collection is due when little room is left. *)
InUse == {b \in Blocks : /\ info[b].state \in {"USED", "DIRTY"}
                         /\ info[(b + 1) % BLK_NUMS].state = "CLEAN"}

BootReady ==
  /\ \/ Settling /\ job.unclean = {} /\ clean_blk_nums # 0
     \/ job.by = "boot" /\ job.step = "ready"
  /\ \/ /\ clean_blk_nums = BLK_NUMS
        /\ hdr' = [hdr EXCEPT ![0] = "USED"]
        /\ info' = [info EXCEPT ![0].state = "USED"]
        /\ clean_blk_nums' = clean_blk_nums - 1
        /\ write_pos' = BLK_HDR_SIZE
     \/ /\ clean_blk_nums # BLK_NUMS
        /\ write_pos' = IF InUse = {} THEN 0
                        ELSE Start(Min(InUse)) + BLK_SIZE - info[Min(InUse)].space
        /\ UNCHANGED <<hdr, info, clean_blk_nums>>
  /\ TriggerGc(info[Blk(write_pos')].space < ITEM_MAX_LEN /\ clean_blk_nums' < KV_GC_RESERVED + 1)
  /\ job' = Free
  /\ req' = [req EXCEPT ![None] = {}]
  /\ UNCHANGED <<items, pc, call, ans, counters>>

-----------------------------------------------------------------------------
TaskStep(t) ==
  \/ CountWaiter(t) \/ TakeGcSem(t) \/ Return(t) \/ Get(t)
  \/ SetSame(t) \/ SetFull(t) \/ SetStore(t) \/ SetDelete(t)
  \/ Del(t) \/ DelByPrefix(t)

GcStep == GcStart \/ GcCopy \/ GcErase \/ GcFormat \/ GcUse \/ GcSignal

BootStep == BootNoHeader \/ BootRecover \/ BootBlock \/ BootKeep \/ BootErase \/ BootFormat \/ BootReady

Next ==
  \/ \E t \in Task : Invoke(t) \/ TaskStep(t) \/ SetTorn(t)
  \/ GcStep \/ GcTorn
  \/ BootStep
  \/ MarkDirty
  \/ PowerFail \/ Deinit

Spec == Init /\ [][Next]_vars

(* Tasks the scheduler runs make their next step; nothing obliges a task to call the
   store or power to fail. *)
FairSpec ==
  /\ Spec
  /\ \A t \in Task : WF_vars(TaskStep(t))
  /\ WF_vars(GcStep) /\ WF_vars(BootStep) /\ WF_vars(MarkDirty)

-----------------------------------------------------------------------------
ItemType == [pos : Nat, state : {"NORMAL"} \cup Garbage, len : Nat, key : Keys \cup {None},
             val : Values \cup {None}, origin : Nat]

TypeOK ==
  /\ hdr \in [Blocks -> {"BAD", "CLEAN", "USED", "DIRTY"}]
  /\ items \subseteq ItemType
  /\ info \in [Blocks -> [state : {"NONE", "CLEAN", "USED", "DIRTY"}, space : 0 .. BLK_SIZE]]
  /\ clean_blk_nums \in 0 .. BLK_NUMS /\ write_pos \in 0 .. BLK_NUMS * BLK_SIZE - 1
  /\ gc_trigger \in BOOLEAN /\ gc_waiter \in BOOLEAN /\ gc_sem \in Nat /\ ending \in Nat
  /\ pc \in [Task -> {"idle", "count", "take", "blocked", "lock"}]
  /\ call \in [Task -> Requests \cup {NoCall}]
  /\ job.by \in Task \cup {None, "gc", "boot"}

(* The collector's reserve (KV_GC_RESERVED): whenever the mutex is free, one block is
   clean and empty, block_info mirrors the headers, and write_pos is the first free
   place of the other block, so that no item is ever written over another.  And
   "BLK_STATE_USED: block is inused and without dirty data": a block with garbage is
   DIRTY, or the collector would never reclaim it. *)
Reserve ==
  job.by = None =>
    \E c \in Blocks :
      /\ CleanBlocks = {c} /\ clean_blk_nums = 1 /\ InBlock(items, c) = {}
      /\ \A b \in Blocks :
           /\ hdr[b] = info[b].state
           /\ hdr[b] = "USED" => InBlock(items, b) = Normal(InBlock(items, b))
      /\ LET u == Blk(write_pos)
         IN  /\ u # c /\ write_pos = FreePos(items, u)
             /\ info[u].space = SpaceOf(items, u)

(* Whenever the mutex is free a key has at most one item, and no item is torn: a
   second one would come back after aos_kv_del. *)
OneItemPerKey ==
  job.by = None =>
    /\ \A i, j \in Normal(items) : i.key = j.key => i = j
    /\ \A i \in items : i.state # "TORN"

(* A call takes effect once, between invocation and answer; a power failure at any
   place in a set, a delete, a collection or a recovery leaves each call that was cut
   off done or not done, and everything answered as it was. *)
Abs == INSTANCE KvMap WITH store <- View
Refines == Abs!Spec

(* "numbers of the task wait for GC finished" (gc_waiter): a task that sleeps in
   aos_kv_set until the collection is over does not sleep for ever. *)
WaitersWoken == \A t \in Task : pc[t] = "blocked" ~> pc[t] # "blocked"

-----------------------------------------------------------------------------
(* The inductive invariant, by what the flash holds at any time and by the owner of
   the mutex; BLK_NUMS is 2, so that a block is in use and the other is spare. *)
Twins(i, j) ==
  /\ i.state = "NORMAL" /\ j.state = "NORMAL"
  /\ i.key = j.key /\ i.pos < j.pos

(* Items lie one after the other inside their blocks, and the room left behind the
   last one is never used up. *)
ItemsLaid(its) ==
  /\ its \subseteq ItemType
  /\ \A i \in its :
       /\ Blk(i.pos) \in Blocks /\ i.len > 0
       /\ Start(Blk(i.pos)) + BLK_HDR_SIZE <= i.pos
       /\ i.pos + i.len < Start(Blk(i.pos)) + BLK_SIZE
       /\ i.state = "NORMAL" => i.key \in Keys /\ i.val \in Values /\ i.len = ItemLen[i.val]
  /\ \A i, j \in its : i.pos < j.pos => i.pos + i.len <= j.pos
  /\ \A i, j \in its : i.pos = j.pos => i = j

(* Of two items of a key in a block the later one points to the earlier one.  At most
   one block is in use; beside the target of a collection is its DIRTY source, or a
   block that has been erased. *)
FlashInv ==
  /\ ItemsLaid(items)
  /\ \A i, j \in items : Twins(i, j) /\ Blk(i.pos) = Blk(j.pos) => j.origin = i.pos
  /\ \A i \in items : hdr[Blk(i.pos)] # "BAD"
  /\ \A b, c \in Blocks : hdr[b] \in {"USED", "DIRTY"} /\ hdr[c] \in {"USED", "DIRTY"} => b = c
  /\ \A i \in items, b \in Blocks :
       hdr[Blk(i.pos)] = "CLEAN" /\ b # Blk(i.pos) =>
         hdr[b] = "DIRTY" \/ (hdr[b] \in {"BAD", "CLEAN"} /\ InBlock(items, b) = {})

Steps == {"free", "return", "delete", "prefix", "mark", "copy", "format", "use", "scan", "settle",
          "format 0", "ready"}

ControlInv ==
  /\ job \in [by : Task \cup {None, "gc", "boot"}, step : Steps, pos : Nat, blk : Blocks,
              mark : Blocks, unclean : SUBSET Blocks]
  /\ job.by = None => job = Free
  /\ \A t \in Task : pc[t] = "idle" <=> call[t] = NoCall
  /\ job.by = "boot" => \A t \in Task : pc[t] = "idle"
  /\ \A t \in Task :
       job.by = t =>
         /\ pc[t] = "lock"
         /\ \/ job.step = "return" /\ call[t].op \in {"set", "del"}
            \/ job.step = "delete" /\ call[t].op = "set"
            \/ job.step = "prefix" /\ call[t].op = "prefix"
            \/ job.step = "mark" /\ call[t].op \in {"set", "del", "prefix"}

(* The store is up and no collection is under way. *)
UpInv ==
  /\ hdr[Blk(write_pos)] \in {"USED", "DIRTY"} /\ clean_blk_nums = 1
  /\ \A b \in Blocks :
       /\ b # Blk(write_pos) => hdr[b] = "CLEAN"
       /\ info[b] = [state |-> hdr[b], space |-> SpaceOf(items, b)]
  /\ Blk(write_pos) \in Blocks /\ write_pos = FreePos(items, Blk(write_pos))
  /\ \A i \in items :
       /\ Blk(i.pos) = Blk(write_pos) /\ i.state # "TORN"
       /\ hdr[Blk(write_pos)] = "USED" /\ job.step # "mark" => i.state = "NORMAL"
  /\ job.step = "mark" => job.mark = Blk(write_pos) /\ hdr[job.mark] = "USED"
  /\ job.step = "delete" =>
       \E i, j \in items : /\ Twins(i, j) /\ i.pos = job.pos
                           /\ i.key \in call[job.by].keys /\ j.val = call[job.by].val
  /\ \A i, j \in items : Twins(i, j) => job.step = "delete" /\ i.pos = job.pos

(* The collector is at work: what is copied so far, and that the rest has room. *)
GcInv ==
  LET b == job.blk
      c == Blk(write_pos)
  IN  /\ job.step \in {"copy", "format", "use"}
      /\ c \in Blocks /\ c # b
      /\ hdr[c] = "CLEAN" /\ write_pos = FreePos(items, c)
      /\ info[c] = [state |-> "CLEAN", space |-> SpaceOf(items, c)]
      /\ \A i \in items : i.state # "TORN" /\ (Blk(i.pos) = c => i.state = "NORMAL")
      /\ \A i, j \in items : Twins(i, j) => Blk(i.pos) # Blk(j.pos)
      /\ job.step = "copy" =>
           /\ hdr[b] = "DIRTY" /\ info[b].state = "DIRTY" /\ clean_blk_nums = 1
           /\ \A x \in InBlock(items, c) : \E i \in Normal(InBlock(items, b)) :
                i.key = x.key /\ i.val = x.val /\ i.origin = x.origin /\ i.pos <= job.pos
           /\ \A i \in Normal(InBlock(items, b)) :
                IF i.pos <= job.pos
                THEN \E x \in InBlock(items, c) : x.key = i.key /\ x.val = i.val
                ELSE write_pos - Start(c) <= i.pos - Start(b)
      /\ job.step # "copy" => InBlock(items, b) = {}
      /\ job.step = "format" => hdr[b] = "BAD" /\ clean_blk_nums = 1
      /\ job.step = "use" =>
           /\ hdr[b] = "CLEAN" /\ clean_blk_nums = 2
           /\ info[b] = [state |-> "CLEAN", space |-> SpaceOf(items, b)]

(* kv_init is at work: the blocks it is done with, and what it has noted of them. *)
Scanned(b) ==
  /\ hdr[b] # "BAD" /\ info[b] = [state |-> hdr[b], space |-> SpaceOf(items, b)]
  /\ \A i \in InBlock(items, b) :
       /\ i.state # "TORN" /\ (hdr[b] = "USED" => i.state = "NORMAL")
       /\ i.state = "NORMAL" => Original(i) = {}

Done ==
  CASE job.step = "settle" -> Blocks
    [] job.step = "format" -> Blocks \ {job.blk}
    [] OTHER               -> {b \in Blocks : b < job.blk}

BootInv ==
  /\ job.step \in {"scan", "mark", "settle", "format"}
  /\ \A b \in Done : Scanned(b)
  /\ \A b \in Blocks \ Done : job.step # "format" => info[b].state \in {"NONE", hdr[b]}
  /\ clean_blk_nums = Cardinality({b \in Done : hdr[b] = "CLEAN" /\ InBlock(items, b) = {}})
  /\ job.unclean = {b \in Done : hdr[b] = "CLEAN" /\ InBlock(items, b) # {}}
  /\ job.step = "mark" => job.mark = job.blk /\ hdr[job.mark] = "USED"
  /\ job.step = "format" => hdr[job.blk] = "BAD" /\ clean_blk_nums = 0

KvInv ==
  /\ TypeOK /\ FlashInv /\ ControlInv
  /\ job.by \in Task \cup {None} => UpInv
  /\ job.by = "gc" => GcInv
  /\ job.by = "boot" => BootInv

(* What the refinement needs in addition, if power does not fail while a stale copy
   exists: what each call has still to change, and what a recovery may find. *)
ReqInv ==
  /\ req \in [Task \cup {None} -> SUBSET (Keys \X (Values \cup {None}))]
  /\ job.by # "boot" => req[None] = {}
  /\ \A t \in Task :
       IF job.by # t THEN req[t] = Changes(call[t])
       ELSE IF call[t].op = "prefix"
       THEN /\ req[t] \subseteq Changes(call[t])
            /\ \A k \in call[t].keys : View[k] # None => <<k, None>> \in req[t]
       ELSE IF job.step = "delete" THEN req[t] = Changes(call[t])
       ELSE \A k \in call[t].keys : req[t] \subseteq {<<k, View[k]>>}

(* An update that was cut off is still to be made, or changes nothing. *)
Updates ==
  \A i, j \in items :
    Twins(i, j) /\ Blk(i.pos) = Blk(j.pos) => i.val = j.val \/ <<i.key, j.val>> \in req[None]

(* The target of a collection that was cut off holds copies that do not point to their
   originals, each the one item of its key in the source. *)
Copies ==
  \A c, u \in Blocks :
    hdr[c] = "CLEAN" /\ hdr[u] = "DIRTY" =>
      \A x \in Normal(InBlock(items, c)) : \E i \in Normal(InBlock(items, u)) :
        /\ i.key = x.key /\ i.val = x.val /\ x.origin # i.pos
        /\ \A j \in Normal(InBlock(items, u)) : j.key = x.key => j = i

RecoverInv == job.by = "boot" => Updates /\ Copies

=============================================================================
