# Verification of the AliOS Things Rhino kernel

This directory is a TLA+ development of the core of AliOS Things: the Rhino
real-time kernel (`src/kernel/rhino/core`), the software timers and work queues
that run as tasks of it, the condition variables built on it
(`src/kernel/rhino/posix/pthread_cond.c`) and the key-value store in flash memory
(`src/kernel/rhino/fs/kv`). The modules are written from the C code; `PROJECT.json`
names, for every definition, the lines it stands for.

* Section 1: the inventory of the system.
* Section 2: the modules and how they correspond to the code.
* Section 3: the TLC runs, their bounds and what they show.
* Section 4: the proofs.
* Section 5: what the code does that its comments and tests do not say.
* Section 6: what is not modelled, and the plan.

## 1. Inventory

AliOS Things is an operating system for small devices. Almost all of the
repository (boards, drivers, network stacks, cloud middleware, examples, third
party code) is code *around* the kernel and talks to it through the `krhino_*`
API (or `aos_*`, a thin wrapper). What is the repository's own and has state
worth verifying is under `src/kernel`:

| component | state | operations | what makes it correct |
|---|---|---|---|
| scheduler (`k_sched.c`, `k_sys.c`) | run queue: a list per priority, a bitmap, the cached `highest_pri`; `g_active_task`, `g_sched_lock`, interrupt nesting | `core_sched`, scheduler lock, interrupt entry and exit, yield, time slices | the first ready task of the highest priority runs whenever scheduling is on; the cache is right; no ready task of the highest priority starves |
| tick list (`k_tick.c`, `k_time.c`) | sorted list of sleeping and waiting tasks, tick count | insert, remove, the tick handler | no wait outlives its timeout |
| pending (`k_pend.c`) | a wait list per object, in priority order | block, wake up, remove, outcome of a wait | a task is on the lists its state says; one wait has one outcome |
| tasks (`k_task.c`) | state, base and current priority, suspend count, held mutexes, slice | create, delete, sleep, suspend, resume, change priority, abort a wait, slice and policy | every sequence of these calls, from tasks and interrupt handlers, leaves the lists intact |
| mutexes (`k_mutex.c`) | owner, nesting, waiters | create, delete, lock, unlock, priority inheritance | mutual exclusion; owner and lists agree; inherited priorities are exact; the walk along owners ends |
| semaphores (`k_sem.c`, `k_task_sem.c`) | count, waiters | create, delete, give to one or all, take, set the count | no unit is lost while a task waits |
| event flags (`k_event.c`) | flags, waiters with masks | get, set, create, delete | a waiter whose condition holds is not left waiting; what it is told meets its request |
| message queues (`k_queue.c`, `k_buf_queue.c`, `k_ringbuf.c`) | ring buffer, message count, waiters | send to one or all, receive, flush, create, delete | messages arrive whole, once and in order; nobody waits while there is one |
| software timers (`k_timer.c`) | sorted timer list, command queue, a task | create, start, stop, change, delete; all by message to the timer task | an active timer is on the list; it fires in time |
| work queues (`k_workqueue.c`) | list of works, the work under way, a worker task | run, delayed run, cancel | every accepted work runs once; a cancelled one does not |
| memory (`k_mm.c`, `k_mm_blk.c`, `k_dyn_mem_proc.c`) | free lists over the heap | allocate, free, deferred free | blocks are disjoint and cover the heap |
| POSIX layer (`src/kernel/rhino/posix`) | condition variables from a mutex and two semaphores; thin wrappers else | wait, timed wait, signal, broadcast | every signal wakes a waiter; no deadlock |
| key-value store (`src/kernel/rhino/fs/kv/kvmgr.c`) | flash blocks and items; block table, write position, a collector task | set, get, delete, delete by prefix, garbage collection, recovery | every answered call survives a power failure; one that was cut off is done or not done |
| event loop, vfs, power management, system calls | tables, descriptors | I/O | not considered |

**Interactions.** All kernel objects share the run queue, the wait lists and the
tick list; a task waits on one object and one timeout at a time. Kernel
functions run with interrupts disabled between `RHINO_CRITICAL_ENTER` and
`RHINO_CRITICAL_EXIT`; `RHINO_CRITICAL_EXIT_SCHED` enables interrupts *and then*
calls `core_sched`. The tick interrupt calls `tick_list_update` and
`time_slice_update`, in two critical sections.

**What is hard.** Priorities change while tasks are queued by priority, along
chains and even cycles of mutex owners; a waiting task may at any time be
granted its object, time out, be aborted, suspended, resumed or deleted; the
object may be deleted under it; interrupts fall between a critical section and
its scheduling point; values are tested before interrupts are disabled and used
after. `PROJECT.json` lists these hazards at their lines.

## 2. The modules

| module | models |
|---|---|
| `RhinoList` | lists as sequences: removal, and insertion before the first larger element, the loop shared by `pend_list_add` and `tick_list_pri_insert` |
| `RhinoCore` | the kernel's data as variables; run queue, tick list, wait lists, priority inheritance, `task_pri_change` |
| `RhinoSched` | scheduler lock, `core_sched`, interrupts, tick handler, time slices |
| `RhinoTask` | `k_task.c` |
| `RhinoMutex` | `k_mutex.c` |
| `RhinoSem` | `k_sem.c` |
| `RhinoKernel` | all of them composed (`Init`, `Next`, `Spec`, `FairSpec`), the properties and the inductive invariant |
| `MCRhinoKernel` | the small instances for TLC |
| `RhinoTimer` | `k_timer.c`: the commands, the timer task and its list |
| `RhinoWork`, `MCRhinoWork` | `k_workqueue.c` composed with `RhinoTimer` (`Init`, `Next`, `Spec`, `FairSpec`), and the instances for TLC |
| `PthreadCond`, `MCPthreadCond` | `pthread_cond.c` and its instances for TLC |
| `RhinoWait` | waiting for one object: `k_pend.c`, time limits, aborted waits, changes of priority, deletion |
| `RhinoEvent` | `k_event.c` |
| `RingBuf` | `k_ringbuf.c` byte by byte, as operators, with a reference that reads the ring |
| `RhinoQueue` | `k_queue.c` and `k_buf_queue.c` over `RingBuf` |
| `RhinoIpc`, `MCRhinoIpc` | an object of any of these kinds with its users (`Init`, `Next`, `Spec`), and the instance for TLC |
| `MsgFifo` | what a queue promises; `RhinoIpc` refines it |
| `KvStore`, `MCKvStore` | `kvmgr.c` with power failures, and the instances for TLC |
| `KvMap` | what the store promises; `KvStore` refines it |
| `RhinoListProofs`, `RhinoSchedProofs`, `RhinoKernelProofs`, `RhinoInheritProofs` | the proofs about the kernel |
| `RhinoIpcProofs` | the proofs about events and queues |
| `RhinoWorkProofs` | the proofs about timers and work queues |
| `PthreadCondProofs` | the proofs about condition variables |
| `KvStoreProofs` | the proofs about the key-value store, and of the refinement of `KvMap` |

**State.** The variables keep the names of the fields: `task_state`, `prio`,
`b_prio`, `blk_obj`, `blk_state`, `mutex_list`, `mutex_task`, `owner_nested`,
and so on are functions from tasks or objects. A `klist_t` is a sequence.
`rq.list` stands for `cur_list_item` and the bitmap together: a bit is set while
its list has an entry, which is how both are updated in the code. `tick_remain`
is `tick_match - g_tick_count`.

**Steps.** A critical section without a loop is one action. A loop inside a
critical section takes one action per iteration: `chg` is the task and priority
`task_pri_change` is at, `cs` what is left of the function that called it
(`pend`: block on the mutex; `handover`: the second half of unlock; `wake`: wake
all waiters; `free`: `task_mutex_free`; `tick`: `tick_list_update`; `exit`:
leave through a scheduling point). While either is set no other action is
enabled (`Quiet`), because interrupts are off. Making the iterations visible is
what allows the question whether the walk along the owners ends.

`pc` says where a task is in an API call: `sched` and `sched_pend` are the
window between the end of the critical section and `core_sched`, in which an
interrupt may come; `pend` is a blocking call on its way to
`pend_state_end_proc`; `pri_change` is the window of `krhino_task_pri_change`
between its tests and its critical section. An early return that changes nothing
is the negation of a guard.

**The application.** `TaskCalls` and `IsrCalls` say which API functions each
task and the interrupt handlers may call; they call them at any time and with
any arguments from the constants. Tasks, objects, priorities and limits are
constants with assumptions (`TaskAssumption`, `NumberAssumption`,
`BootAssumption`) no stronger than what `krhino_init`, `krhino_start` and the
parameter checks ensure.

Two restrictions of callers are part of the model. A task is created anew only
after it was deleted, and an object only when no task is in a call on it; the
API has no way to detect the opposite. `krhino_task_del` on a deleted task is a
call of its own (`"krhino_task_del again"`), since the code then works with a
stale list (section 5).

**The condition variables.** `PthreadCond` is a level above: a call of the
kernel is one step, as `RhinoMutex` and `RhinoSem` justify, and a unit that is
given goes to any of the threads that wait, because their priorities are not
modelled. `lock`, `waiting`, `signals`, `wait_sem` and `wait_done` are the fields
of `pthread_cond_t`. They are only touched with `lock` held, so a section from
`krhino_mutex_lock` to `krhino_mutex_unlock` is one step unless it calls
something that may block (`WaitEat`) or loops (`BroadcastGive`). `mutex` is the
mutex of the application, which locks it, waits with it, and signals with it or
without it; `Uses` is a set of programs, each of which says which functions each
thread calls, and `calls` the one at hand.

**Timers and works.** `RhinoWork` is on that level too: scheduling is any
interleaving of the timer task, the workers, the tasks of the application and the
tick, and a critical section of `k_workqueue.c` or `k_buf_queue.c` is one step.
`tpc` says where the timer task is: in `krhino_buf_queue_recv` (`recv`,
`blocked`), with a command or a timeout (`command`), at the loop over the list
(`head`), or in `timer_cb_proc` (`cb`, `callback`, `give`, `rearm`). Times are
relative, as in the kernel modules: `due` is `match - g_tick_count`, and
`g_timer_count` is `lag` ticks ago while `timer_cb_proc` runs. A tick may come
between any two steps, so the timer task may be late; a command and the reading
of the tick before it are one step. `apc` is the window between the critical
section of `krhino_work_run` and its `krhino_sem_give`, or between the reading of
`work->wq` by `krhino_work_cancel` and its critical section (`cancel`) or its
`krhino_timer_stop` (`stop`). The timer of a
delayed work has the name of the work. `Programs` says which timers and works the
application makes use of, `used` is the program at hand. A timer is created anew only
after it was deleted, and works are initialised once: the code checks neither.

**Events and queues.** `RhinoIpc` is about one object, an event, a message queue
or a buffer queue of fixed or dynamic message sizes (`kind`), and about everything
that may end or reorder the waits for it. A critical section is one step, except
that the loops that wake several tasks take a step for each (`cs`: the waiters left
and what they are given, in `event_set` the snapshot of the flags). Who runs next
is left open; `RhinoKernel` has the scheduler. `pc` of a task is `run`, `pend`, or,
between its wake-up and `pend_state_end_proc`, the `blk_state` that says why. A
word of flags is a set. `msg` is what a receive was given: the message of
`task->msg`, or what `ringbuf_pop` has copied. The ring is an array of bytes with
`head`, `tail` and `freesize`, in which `head` and `tail` may stand at the end as in
the code; a byte knows the message or length it belongs to, so a receiver that puts
pieces together wrongly gets no message, and bytes that were read are forgotten.
Creation is one step: callers do not use an object before its creation returns.
Suspended waiters (`K_PEND_SUSPENDED`) and deleted ones are in `RhinoKernel`.

`MsgFifo` knows neither the ring nor the list: a sequence of messages, and a set of
waiters of which one with the highest priority is served. The refinement mapping
reads the messages off the ring with a reference (`DynContents`, `FixContents`)
that goes back from the tail byte by byte, not with the code's own `ringbuf_pop`.

**The key-value store.** A step of `KvStore` makes at most one write to the flash;
what is done with the mutex held and without a write is part of the step that
writes or unlocks. `hdr` and `items` are the flash: the header of each block, and
items at their positions with their state, length, key, value and `origin_off`. All
else is RAM and lost when power fails. A failure may come between any two writes and
inside the write of an item, which leaves part of a header (`HOLE`, skipped by the
size of a header) or a header with a wrong checksum (`TORN`). The window of
`aos_kv_set` before the mutex (`count`, `take`) and that of the collector after it
(`ending`) are steps of their own. `job` is what the owner of the mutex is at; the
recovery (`boot`) is one more owner. `KvMap` is a map with invocations and answers:
a call changes the map between the two, a prefix deletion one key at a time, and
what a power failure cuts off may still happen until the store is up again, and not
later. The mapping takes the first item of a key for its value, as `kv_item_get`
does.

## 3. The runs

| run | shows |
|---|---|
| `inherit` | three tasks, two mutexes, timed and untimed waits, priority changes: types, wait order, exact inheritance, outcome of a lock |
| `life` | suspend, resume, abort, delete, create a task in every state, some from interrupt handlers; its priority changed, also in the window of `krhino_task_pri_change`; scheduler lock: lists, ownership, the right task runs |
| `objects` | mutexes and semaphores deleted and created under their users; all semaphore operations; waits of one tick, two ticks and for ever: lists, inheritance, units, order and service of the deadlines |
| `roundrobin` | slices of two and three ticks, set anew while partly used, and policies: a slice is never exceeded, and (liveness) a ready task of the highest priority runs again and again once all policies stay round robin |
| `cycles` | liveness: every critical section and every timed wait ends, also when the owners wait for each other in a cycle |
| `cond` | three waiters, a signaller, a broadcaster, and one waiter with a time limit and two signallers: signals match the units of `wait_sem`, answers match the signallers that wait for them, a signaller returns |
| `work` | two programs: two timers, one periodic, with all commands (the list holds the active timers and each fires); an immediate and a delayed work that two tasks run and cancel (semaphore and list agree, a queued work gets to its worker) |
| `ipc` | every operation of events and queues by two tasks of changing priorities and by senders that do not wait: no missed wake-up, sound answers, exact rings, and the refinement of `MsgFifo` |
| `kv` | two callers and the collector, up to two power failures: the reserve of the collector, pure `USED` blocks, one item per key, and the refinement of `KvMap` |
| `cond_timeout`, `kv_power`, `cancel` | expected violations, section 5 |

**Properties.** `ListIntegrity` (a task is linked where its state says, once) is
what makes every `klist_rm` of the kernel sound: the C lists are intrusive and
unchecked. `Inheritance` is an equality, so it excludes both an inversion and a
boost that outlives its cause. `LockOutcome` ties what a blocking lock returns to
who owns the mutex. `PreferredRuns` catches a missing scheduling point.
`NoLostGive`, `Ownership` and `ReleasedByOwner` are about the objects, `HighestPri`
about a value the code caches. `TimeoutsServed` needs deadlines that differ
(`objects`), `SliceInRange` slices that are partly used (`roundrobin`). `QueueMatch`
is what the worker relies on when it takes the first entry of its list untested.
`NoMissedWakeup` and `AnswerSound` are about the snapshot of `event_set`, which goes on serving waiters from flags that earlier ones
have cleared. `RingExact` ties the message count, the free size and the bytes of a
ring together; the code decides by the one and acts on the other without looking at
the result. `Reserve` is what every write to the flash relies on.

**Bounds.** Three tasks of different priorities and an idle task: a chain (or
cycle) of two mutexes needs an owner, an owner that waits, and a third task that
joins, and with three the middle one is both lender and borrower. A wait
lasts one tick or for ever, except in `objects`, where it lasts one tick, two ticks or
for ever: in the other runs all deadlines on the tick list are the same, and nothing
is claimed about their order. `cycles` needs a timed and an untimed wait, since only
the second leaves a cycle for others to walk along. Slices are of one tick, except in
`roundrobin` (two and three, one of which a peer changes). Nesting
and suspension up to 2 (1 where they are not the question), semaphores up to 2,
interrupts one deep; the proofs are for any nesting. Every run covers its whole state
space.

**Fairness.** `FairSpec` assumes that a critical section goes on (`WF` of
`CriticalNext`: interrupts are off and the CPU runs), that a task in front of
`core_sched` gets there, that interrupt handlers return and that the tick
interrupt comes again and again (`SF`, as they compete with other interrupts). It
assumes nothing about the application: tasks may stop calling the kernel and keep
what they hold. `RoundRobin` is checked for slices of two ticks and more and
without nested ticks: with a slice of one, the tick may fall into the window
before `core_sched` each time (section 5).

For the condition variables, `FairSpec` assumes that a call that was made goes on
(`SF`: the lock is taken and released again and again by others); nothing is
assumed of the application, which may keep its mutex, stop signalling or stop
waiting. `SignalReturns` is checked on both programs of `cond`: several waiters
without a time limit, a signaller and a broadcaster; and one waiter with a time limit
and two signallers. With a waiter that times out beside another it is false
(`cond_timeout`, section 5).
The bounds are small because a thread makes one call at a time: three waiters
allow one that has answered, one on its way and one that comes late.

The key-value store is checked for safety only. Its `FairSpec` (calls that were made
and the collector are scheduled, the recovery goes on, nothing obliges tasks to call or
power to fail) is for `WaitersWoken`, which is false (section 5).

For events and queues, a ring of nine bytes, lengths of two bytes and messages of one
and three: pieces of lengths and of messages break at the end in every way, and the
ring can be full to the last byte (three messages of one byte, or three blocks of
three). Two tasks are two waiters, since senders need not be tasks of the model;
each of four requests combines AND or OR with CLEAR or not, on one flag or both. The
tasks are alike, and so are the two long messages (`Alike`). For the store, a block
takes three or two items, so four calls fill it and start collections; six are needed
for the three collections of `kv_power`. `BLK_NUMS` is 2 as in the default
configuration. Two failures allow one in the recovery from another.

For timers and works, `FairSpec` assumes that ticks come, that no task is starved
for ever, and that callbacks and handlers return; the application need not call
anything. A timer may wait as long as other timers are started over and over,
which `TimerFires` allows: that it must is a consequence of the order of the list
(section 5). Two timers are enough to be in the wrong order and for one to be reached
from the other; a command ring of one together with the command under way makes commands
overtake the expiry they are about, and can be full. The two programs (`Programs`,
`used`) share no timer or work; both at once would be too many states.
Lateness is told apart up to `LateMax + 1` ticks; more ticks in `timer_cb_proc` change
no comparison but the wrapped one, where one tick too late is as good as any.

Deadlock is checked in all runs of the kernel (the tick interrupt is always
possible), of the timers and works, and of events and queues. The runs of
`PthreadCond` do without: that a signaller hangs is what `SignalReturns` is about.
So do those of the store, which stops when the bounds on calls and failures are
reached.

## 4. The proofs

`RhinoKernelProofs` proves, for any finite or infinite set of tasks and objects
and any priorities, limits and timeouts that satisfy the assumptions, and for any
application without `"krhino_task_del again"` (hypothesis `NoDelAgain`):

* `KernelSafe`: `Spec => []KernelInv`;
* from it `TypeCorrect`, `ListsIntact`, `HighestPriCorrect`, `WaitersInOrder`,
  `TimeoutsKept`, `OwnersAgree`, `NoGiveLost`, `SlicesInRange`, the invariants of
  the same content the runs check, and `OwnerReleases`, the action property
  `ReleasedByOwner`.

**The invariant.** None of these is inductive alone. `KernelInv` is the
conjunction of the type invariant; `Queued`, `Waiting` and `Timed` (the three
kinds of lists against the task states, each a predicate over explicit arguments
so that one lemma about a list operation serves all actions); `NotOverdue`;
`DeadInv` (a deleted object has waiters only while they are being woken);
`OwnerInv` (owners and lists of held mutexes, also in the middle of an unlock or
a deletion); `CsInv` (what the rest of a critical section relies on, for example
that `handover` works on a mutex of the active task that is off its list);
`ActiveInv` (the task that runs is ready unless it is on its way to
`core_sched`, and then the scheduler is not locked); `CallInv`.

The hypothesis is needed: without it `OwnerInv` is false (section 5).

**The argument.** `RhinoListProofs` is about sequences without duplicates:
removal and sorted insertion keep them so, change the set of their elements as
expected and keep the order. `RhinoSchedProofs` lifts that to the run queue, the
wait lists and the tick list (a task joins or leaves each of them, changes its
priority in each) and has a lemma for each action of the scheduler, the interrupts,
the tick and the semaphores; `RhinoKernelProofs` has those of the mutexes and the
tasks, and joins them.

**Mutexes.** `RhinoInheritProofs` proves, under the same hypothesis, three more
invariants of the runs, each from an invariant that is added to `KernelInv`:

* `InheritanceExact` (`Inheritance`). The property speaks of the moments between
  critical sections only; in the middle of one the priorities along a chain of
  owners are wrong, one owner after another. `InheritInv` says how: with `NextPrio`,
  which is `prio` except that the task `task_pri_change` has come to counts with the
  priority it is about to get, *every* task has the higher of its base priority and
  those of its `Lenders`. The lenders include the caller of `krhino_mutex_lock`
  before it is on the list. `mutex_pri_limit` looks at first waiters only; that this
  is enough follows from `WaitOrder`. The proof holds for chains of any length and
  for cycles, where it does not say that the walk ends (`CriticalSectionEnds` is
  model-checked).
* `FirstReadyRuns` (`PreferredRuns`). `SchedInv` extends the property to the critical
  sections that end without a scheduling point: an unlock without waiters, whose
  caller may have lost an inherited priority, and a change of the priority of a task
  that was deleted in the window before it. `InheritInv` is what says that the first
  of these leaves the caller the first ready task.
* `LockTellsTruth` (`LockOutcome`). `OutcomeInv` follows a call on a mutex from the
  moment it blocks: the caller waits for that mutex, or its `blk_state` is
  `BLK_FINISH` exactly when it owns the mutex, through suspension, timeout, abort,
  hand-over and deletions.

**Events and queues.** `RhinoIpcProofs` is about any tasks, priorities, flags,
requests, messages and sizes that satisfy `WaitAssumption`, `RequestsAssumption`,
`RingAssumption`, `BlkAssumption` and `MarkAssumption` (no message is the string the
refinement mapping marks waiters with). `IpcWaiters`, `IpcNoMissedWakeup`,
`IpcAnswers` and `IpcNoIdleMessage` state `WaitersListed`, `NoMissedWakeup`,
`AnswerSound` and `NoIdleMessage`. The invariant `IpcInv` adds `CsOK` (which
loops there are), `KindOK` and `SetOK`, the loop invariant of `event_set`: the
snapshot holds at least the flags there are, the waiters still to be looked at do
wait, and the snapshot serves none of those left behind. Since clearing only takes
flags away, and a request that a snapshot does not meet is not met by fewer flags,
`NoMissedWakeup` holds again when the loop ends. One lemma (`WokenKeeps`) serves
every step that wakes a task outside of that loop.

`IpcTypeCorrect`, `RingIsExact` and `QueueIsFifo` are about the ring: `TypeOK`,
`RingExact` and the refinement of `MsgFifo`. The argument has four layers.

1. Bytes. A ring is a fifo of bytes: `ByteAt(r, o)` is the byte `o` places after the
   head, and `RingOK` relates `head`, `tail` and `freesize`. The pieces of
   `ringbuf_push` and `ringbuf_pop`, broken at the end of the ring or not, append to
   it (`Pushed`) or take from its front (`Popped`, `FirstBytes`).
2. Messages. `Holds(r, dyn, q, st)` says that the bytes are the messages `q`, one
   after another, the `i`-th from place `st[i]` on, with its length in front if sizes
   are dynamic; `Layout` adds the count, and that the blocks of a fixed ring never
   break at its end, which is why the code need not handle that case.
3. The reference. `DynContents` goes back from the tail byte by byte. That it finds
   just the messages of `Layout` is shown with its recursion unfolded once and the
   least length for which it would fail (`LeastNat`), since the induction rules of
   the library cannot be instantiated by the provers.
4. Steps. `RingInv` is preserved: while the queue exists, some `Layout` describes its
   ring (`RingHeld`), the loop of `krhino_queue_all_send` runs over an empty queue
   (`AllSendOK`), and a task whose wait goes on, or has ended otherwise, was given no
   message (`NothingGiven`). With it every action is a step of `MsgFifo` under the
   mapping `Fifo`, `Answer`, or leaves them alone (`AbsStep`): a send that finds
   waiters is a `Send` to the first of the list, which by `WaitersListed` is one of
   the highest priority, and all other ends of a wait give up.

**Timers and works.** `RhinoWorkProofs` proves, for any number of timers, works, work
queues and tasks, any length of the command queue and any lateness of the timer task
(`TimerAssumption`, `WorkAssumption`):

* `WorkTypeCorrect` and `ActiveTimersListed` (`TypeOK`, `ActiveListed`). The commands
  under way matter: `CommandInv` says that the timer of a delayed work only gets
  those that `krhino_work_run` and `krhino_work_cancel` send, so its callback knows
  its work queue. The proof does not use the order of the list, which is not kept
  (section 5).
* `UnitsMatch` (`QueueMatch`). `ListInv`: a work is on one list at most, and
  `work_exit` says whether. `UnitInv`: the length of a list is the count of the
  semaphore plus what is owed (`Owed`: tasks and the timer task between the critical
  section and `krhino_sem_give`, counted by the cardinality of `Givers`, and a worker
  that has taken its unit and not yet its entry). `ListInv` is what says that the
  `klist_rm_init` of `krhino_work_run` and `krhino_work_cancel` removes no entry that
  has a unit: both have seen `work_exit` zero.

**Condition variables.** `PthreadCondProofs` proves `CondTypeCorrect`,
`SignalsAreUnits` and `AnswersCome` (`TypeOK`, `SignalsMatch`, `AnswersMatch`) for any
finite number of threads and any programs without a deadline less than a tick away
(`NoZeroWait`; with one, `SignalsMatch` is false, section 5). `CtrlInv` says where the
owner of `lock` is and how far the loops have come; `CountInv` that `waiting` is the
number of threads in a wait, and the two balances. They are needed together: that
`signals` does not fall below zero when a waiter answers follows from the first
balance, in which that waiter is one of the `Holders`, and that `wait_done` does not
from the second. Each action moves one thread, so each side of a balance changes by
one element of a finite set (`OneMore`, `OneLess`).

**The key-value store.** `KvStoreProofs` is about any tasks, keys, values, requests,
lengths of items and sizes of blocks that satisfy `KvAssumption`: two blocks as in the
default build, names that are told apart, and an item that fits into a block with its
header (`ITEM_MAX_LEN` in the code). The bounds on calls and on power
failures may be any numbers. It proves

* `KvTypeCorrect`, `ReserveKept` and `OneItem` (`TypeOK`, `Reserve`, `OneItemPerKey`),
  from `KvInvariant`: `Spec => []KvInv`;
* `StoreIsMap`: `Spec => Refines`, under `FailInCopy = FALSE`, the hypothesis of `kv`.
  Without it `Refines` is false (`kv_power`, section 5). The three invariants hold
  with it or without.

`Reserve` and `OneItemPerKey` speak of the moments at which the mutex is free, and a
power failure may come at any other: `KvInv` says what the flash looks like at *every*
step. `FlashInv` is the part that does not depend on RAM and so survives a failure:
items lie one after another, room is left in their block, the later of two items of a
key in a block points to the earlier one, at most one block is in use, and beside a
CLEAN block with items is a DIRTY block or an empty one. The rest is by the owner of
the mutex. `UpInv`, for the callers: `block_info` mirrors the flash, `write_pos` is the
first free place, and two items of a key exist only between the two writes of an update.
`GcInv`, for the collector: what is before `job.pos` is copied, every copy has its
original, and what is left has room in the target, since no item has moved further from
the start of its block than it was (this is why the copying needs no check of the
space, and the code has none). `BootInv`, for `kv_init`: the blocks that are scanned
(`Scanned`) have no torn item and no item whose update was cut off, and the counts that
decide between `BootKeep`, `BootErase` and `BootReady` are those of the flash. It follows
that `BootErase` only erases the target of a collection that has its DIRTY source beside
it, and that `InUse` is never empty at the end. One lemma per action keeps `KvInv`
(`InvStep`); the arithmetic of items in blocks is in lemmas about the flash that many of
them use (`Appended`, `DeletedIs`, `Erased`, `FreePosUnique`).

The refinement needs more (`RefInv`). `ReqInv` says what each call has still to change:
all of it before the call has the mutex, and of an update until the old item is deleted,
since `kv_item_get` finds the older of two items. `RecoverInv` is about a restart:
`Updates`, that two items of a key in a block have the same value or are a change that
was cut off and may still be made, and `Copies`, that an item of the target of a
collection has exactly one item of its key in the source, with the same value and at
another place than its `origin_off`. That last clause is what fails without the
hypothesis. From these, `BothBlocks` and `OthersAgree`: when recovery deletes the item at
an `origin_off`, all other items of the key have the value of the one that pointed there,
so the map changes by the update that was cut off or not at all. Each action is then a
step of `KvMap` or leaves it alone (`RefStep`): an update that replaces a value takes
effect with the deletion and not with the write, a prefix deletion key by key, the steps
of the collector never.

TLC has checked all of these invariants on the instances of the runs: those of the
kernel on `inherit` and `objects`, `IpcInv` on `ipc`, `WorkInv` on `work`,
`CtrlInv` and `CountInv` on `cond`, `KvInv`, `ReqInv` and `RecoverInv` on `kv`, `KvInv` also on `kv_power`.

**Only model-checked.** The liveness properties (`RoundRobin`, `TimedWaitEnds`,
`CriticalSectionEnds`, `SignalReturns`, `TimerFires`, `WorkRuns`) are out of the
prover's reach. All other properties of the passing runs are stated by a theorem.

## 5. Where the code and its comments or tests disagree

* `cond_timeout`: a waiter that timed out "need[s] to eat a condition signal", but
  its unit may be in the hands of a waiter that was woken and wants `cond->lock`.
  The first waits for a unit for ever with that lock held; the signaller, meant to
  "wait for the thread to respond", never returns.

* `kv_power`: `aos_kv_set` is to "save the KV pair to flash right now", but the
  collector copies an item with its `origin_off`, which names a place in a block that
  is erased next. After two collections the item lies at just that place. When power
  fails in a third one with the item copied and its block not yet erased, the recovery
  takes the copy for an update, deletes the "old" item, and then formats the target
  of the collection, since there is no clean block: the value is gone. `kv` keeps
  power failures out of exactly this window (`FailInCopy`).

* `cancel`: `krhino_work_cancel` "will cancel a work". It reads `work->wq` before its
  critical section; if the work is handed in to a second queue meanwhile and begins
  there, the queue that was read is not the one on which it runs, and the call reports
  success. It also sets `work->wq` to `NULL`, so that later cancellations report
  success as well while that run lasts.

Observed while modelling, without a run of their own; the property in brackets is
violated when TLC checks it on the configuration named:

* `gc_waiter` is the "numbers of the task wait for GC finished" (`kv_defs.h:195`), by
  which the collector decides whether to give the semaphore. `aos_kv_set` tests
  `gc_trigger`, increments `gc_waiter` and takes the semaphore without the mutex; when
  the collection ends after the test and before the increment, nobody gives the
  semaphore, and the next `kv_trigger_gc` sets the count to zero. The caller sleeps
  until some later collection finds another waiter, or for ever (`WaitersWoken`;
  `MC_kv.cfg` with `FairSpec` and `MaxFails = 0`).
* "if the same task get the same mutex again, it causes mutex owner nested"
  (`k_mutex.c:293`), so `owner_nested` counts the locks of the owner. `task_mutex_free`
  hands a mutex to the first waiter without setting it to one, as `krhino_mutex_unlock`
  does: the new owner starts with the nesting of the deleted task, and its unlock does
  not release the mutex (`HandedOverOnce`; `MC_inherit.cfg` with
  `TaskCalls <- DelCalls` and `NestMax = 2`).
* A "mutex must be released by itself" (`k_mutex.c:387`), but `krhino_task_del` frees
  what the task held before it looks at the state, from a list that a first deletion
  did not empty: a second deletion takes mutexes from their present owners
  (`ReleasedByOwner`; `MC_inherit.cfg` with `TaskCalls <- DelAgainCalls` and
  `Mutex = {m1}`, as the model has that call for one mutex only). The proofs exclude it by the hypothesis `NoDelAgain`.
* Active timers are to be linked in the order of their time left ("sort by remain
  time", `k_timer.c:278`), but `timer_list_pri_insert` compares unsigned differences. A
  timer that is overdue when another is started has a huge time left; the new one is
  linked in front, and the timer task waits for it before it serves the overdue one
  (`TimersSorted`; `MC_work.cfg`).
* A waiter that timed out "need[s] to eat a condition signal" (`pthread_cond.c:114`), but
  with a deadline less than a tick away `krhino_sem_take` returns `RHINO_NO_PEND_WAIT`,
  which is not taken for a timeout: the signal is answered and its unit is not eaten
  (`SignalsMatch`; `MC_cond.cfg` with `Uses <- ZeroUse`).
* The state test of `krhino_task_pri_change` ("deleted task is not allowed to
  change prio") comes before interrupts are disabled, so a task deleted in between
  has its base priority changed (`life` and `ListsIntact` show that no list is
  damaged by it).
* `time_slice_update` moves the first task of the ready list, not the "current
  active task" of its comment; they differ when a tick falls between a yield and
  its `core_sched`, and a task that has not run is charged.
* A thread that starts to wait after a broadcast may take the unit of one that is
  not in `krhino_sem_take` yet.
* `krhino_work_cancel` of a delayed work that has run before finds `work->wq` set:
  it reports success and leaves the timer running. It also does so when the
  command queue of the timer task is full.
* The result of `kv_os_task_start` is not looked at: without the task, `gc_trigger`
  stays set, and every later `aos_kv_set` waits for ever.
* `aos_kv_set` accepts an empty key (`kvmgr.c:794` rejects keys that are too long only),
  but `kv_item_traverse` takes an item with `key_len` 0 for garbage and goes on after
  its header (432-436), inside the item. The walk is then out of step with the items,
  and the ones that follow may not be found.
* `buf_queue_create` sets the type of the object before it initialises the ring, the
  only one of its kind to do so.
* A buffer queue of fixed size accepts a shorter message, and `ringbuf_push` then
  copies the full size from where it is.
* A delayed work whose timer fires while the work runs is dropped by
  `work_timer_cb`, although `krhino_work_run` reported success.

## 6. Not modelled, and the plan

Not modelled: the SMP build (`RHINO_CONFIG_CPU_NUM > 1`), the dynamically
allocated variants of the objects, hooks, tracing, statistics, stack checks, and
the components marked `not_modelled` in `PROJECT.json` with their reasons.

Of the key-value store, builds with more than one block besides the reserve (the
search of `kv_calc_position`), failing flash operations and allocations, empty keys
(section 5: every item of the model is found at its place), the `RES_NO_SPACE` answer
of `aos_kv_get` to a buffer that is too short, which changes no state, and the command
line. Of events and queues, the dynamically allocated variants and the
queries (`is_full`, `info_get`, peaks).

Plan, in this order:

1. the tick count with its wrap-around, refining the relative times used here;
2. the memory block pool and the deferred free of deleted tasks.
