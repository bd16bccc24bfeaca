--------------------------- MODULE RhinoWorkProofs ---------------------------
(***************************************************************************)
(* The safety properties of the software timers and the work queues, for   *)
(* any number of timers, works, work queues and tasks, any length of the   *)
(* command queue and any delay of the timer task.                          *)
(***************************************************************************)
EXTENDS RhinoWork, RhinoListProofs, FiniteSetTheorems

USE DEF attrVars, listVars, taskVars, timerVars, queueVars, appVars, workVars

(* The invariant of the timers and that of the work queues. *)
TimerInv == TimerTypeOK /\ ActiveListed /\ CommandInv

WorkTypeOK ==
  /\ work_list \in [WorkQueue -> Seq(Work)]
  /\ work_current \in [WorkQueue -> Work \cup {None}]
  /\ sem \in [WorkQueue -> Nat]
  /\ wpc \in [WorkQueue -> {"take", "pop", "handle"}]
  /\ wq \in [Work -> WorkQueue \cup {None}] /\ work_exit \in [Work -> 0 .. 1]
  /\ apc \in [App -> {"user", "give", "cancel", "stop"}]
  /\ call \in [App -> (Work \cup {None}) \X (WorkQueue \cup {None})]
  /\ cancelled \subseteq Work

QueueInv == WorkTypeOK /\ ListInv /\ UnitInv

(* The program that runs is one of those given. *)
UsedInv == used \in Programs

(* WorkInv is the conjunction of the parts that are proved. *)
LEMMA WorkParts ==
  WorkInv <=> TimerInv /\ QueueInv /\ UsedInv
BY DEF WorkInv, TimerInv, QueueInv, UsedInv, TypeOK, WorkTypeOK

------------------------------------------------------------------------------
(* The list of active timers. *)

(* timer_list_pri_insert puts the timer on the list, somewhere. *)
LEMMA PlaceOnList ==
  ASSUME NEW s \in Seq(Timer), NEW d \in [Timer -> Int], NEW now \in Int, NEW t \in Timer,
         NEW val \in Int
  PROVE  LET r == timer_list_pri_insert(s, d, now, t, val) IN
         /\ r \in Seq(Timer)
         /\ ToSet(r) = ToSet(s) \cup {t}
         /\ Linear(s) /\ t \notin ToSet(s) => Linear(r)
<1> DEFINE key == [u \in Timer |-> (d[u] + now) % TimeWrap]
<1>1. \A u \in Timer : key[u] \in Int
  BY TimerAssumption
<1> HIDE DEF key
<1>2. FirstAbove(s, key, val) \in 1 .. Len(s) + 1
  BY <1>1, FirstAboveExists
<1>3. timer_list_pri_insert(s, d, now, t, val) = InsertAt(s, FirstAbove(s, key, val), t)
  BY DEF timer_list_pri_insert, key
<1> QED BY <1>2, <1>3, InsertAtEntries

(* A timer that is inserted is the only new entry of the timer list. *)
LEMMA PlaceEntries ==
  ASSUME NEW s \in Seq(Timer), NEW d \in [Timer -> Int], NEW now \in Int, NEW t \in Timer,
         NEW val \in Int
  PROVE  ToSet(timer_list_pri_insert(s, d, now, t, val)) = ToSet(s) \cup {t}
BY PlaceOnList

(* q->next leads to another entry or to the head. *)
LEMMA NextEntry ==
  ASSUME NEW s \in Seq(Timer), Linear(s), NEW t \in ToSet(s)
  PROVE  NextOf(s, t) = None \/ NextOf(s, t) \in ToSet(s) \ {t}
<1>1. Len(s) \in Nat /\ DOMAIN s = 1 .. Len(s)
  OBVIOUS
<1>2. PICK i : i = CHOOSE j \in 1 .. Len(s) : s[j] = t
  OBVIOUS
<1>3. i \in 1 .. Len(s) /\ s[i] = t
  BY <1>1, <1>2 DEF ToSet
<1>4. NextOf(s, t) = IF i = Len(s) THEN None ELSE s[i + 1]
  BY <1>2 DEF NextOf
<1>5. CASE i # Len(s)
  <2>0. \A n \in Nat : \A j \in 1 .. n : j # n => j + 1 \in 1 .. n /\ j + 1 # j
    OBVIOUS
  <2>1. i + 1 \in 1 .. Len(s) /\ i + 1 # i
    BY <1>1, <1>3, <1>5, <2>0
  <2>2. s[i + 1] # t
    BY <1>3, <2>1 DEF Linear
  <2> QED BY <1>1, <1>4, <1>5, <2>1, <2>2 DEF ToSet
<1> QED BY <1>4, <1>5

(* The list of active timers, without a timer that is on it. *)
LEMMA TakenOff ==
  ASSUME TimerTypeOK, ActiveListed, NEW t \in Timer
  PROVE  /\ Stopped(t) \in Seq(Timer) /\ Linear(Stopped(t))
         /\ ToSet(Stopped(t)) = {u \in Timer : Active(u)} \ {t}
<1>1. g_timer_head \in Seq(Timer) /\ Linear(g_timer_head)
      /\ ToSet(g_timer_head) = {u \in Timer : Active(u)}
  BY DEF TimerTypeOK, ActiveListed
<1> QED BY <1>1, KlistRm DEF Stopped

(* A timer starts. *)
LEMMA Started ==
  ASSUME TimerTypeOK, ActiveListed, NEW t \in Timer, Exists(t), UNCHANGED obj_type,
         NEW s, s = Stopped(t), NEW val \in Int, StartOn(s, t, val)
  PROVE  /\ g_timer_head' \in Seq(Timer) /\ due' \in [Timer -> Int]
         /\ timer_state' \in [Timer -> {"TIMER_ACTIVE", "TIMER_DEACTIVE"}]
         /\ Linear(g_timer_head')
         /\ ToSet(g_timer_head') = {u \in Timer : Active(u)'}
         /\ \A u \in Timer : Active(u)' => Exists(u)'
         /\ \A u \in Timer : Active(u)' <=> Active(u) \/ u = t
<1>1. /\ due \in [Timer -> Int] /\ timer_state \in [Timer -> {"TIMER_ACTIVE", "TIMER_DEACTIVE"}]
      /\ \A u \in Timer : Active(u) => Exists(u)
  BY DEF TimerTypeOK, ActiveListed
<1>2. s \in Seq(Timer) /\ Linear(s) /\ ToSet(s) = {u \in Timer : Active(u)} \ {t}
  BY TakenOff
<1>3. /\ due' = [due EXCEPT ![t] = val]
      /\ g_timer_head' = timer_list_pri_insert(s, due, 0, t, val)
      /\ timer_state' = [timer_state EXCEPT ![t] = "TIMER_ACTIVE"]
  BY DEF StartOn
<1>4. /\ g_timer_head' \in Seq(Timer) /\ Linear(g_timer_head')
      /\ ToSet(g_timer_head') = ToSet(s) \cup {t}
  <2>1. PICK d \in [Timer -> Int] : d = due
    BY <1>1
  <2>2. s \in Seq(Timer) /\ Linear(s) /\ t \notin ToSet(s)
    BY <1>2
  <2> DEFINE r == timer_list_pri_insert(s, d, 0, t, val)
  <2>3. r \in Seq(Timer)
    BY <2>2, PlaceOnList
  <2>4. Linear(r)
    BY <2>2, PlaceOnList
  <2>5. ToSet(r) = ToSet(s) \cup {t}
    BY <2>2, PlaceEntries
  <2> QED BY <1>3, <2>1, <2>3, <2>4, <2>5
<1>5. \A u \in Timer : Active(u)' <=> Active(u) \/ u = t
  BY <1>1, <1>3 DEF Active
<1>6. \A u \in Timer : Active(u)' => Exists(u)'
  BY <1>1, <1>5 DEF Exists
<1> QED BY <1>1, <1>2, <1>3, <1>4, <1>5, <1>6

------------------------------------------------------------------------------
(* The commands. *)

(* What a command carries. *)
LEMMA CommandFields ==
  ASSUME NEW cmd \in Commands
  PROVE  /\ cmd.timer \in Timer
         /\ cmd.cb_num = "TIMER_CMD_CHG" => cmd.change \in Changes
         /\ cmd.cb_num \in {"TIMER_ARG_CHG", "TIMER_ARG_CHG_AUTO"} => cmd.arg \in Args
BY DEF Commands

(* The commands of krhino_work_run and krhino_work_cancel. *)
LEMMA WorkCommands ==
  ASSUME NEW w \in Delayed, NEW g \in WorkQueue
  PROVE  /\ [timer |-> w, cb_num |-> "TIMER_ARG_CHG_AUTO", arg |-> g] \in Commands
         /\ FromWork([timer |-> w, cb_num |-> "TIMER_ARG_CHG_AUTO", arg |-> g])
BY WorkAssumption DEF Commands, FromWork, Delayed

(* The command of krhino_work_cancel is one a delayed work may send. *)
LEMMA StopCommand ==
  ASSUME NEW w \in Delayed
  PROVE  /\ [timer |-> w, cb_num |-> "TIMER_CMD_STOP"] \in Commands
         /\ FromWork([timer |-> w, cb_num |-> "TIMER_CMD_STOP"])
BY DEF Commands, FromWork, Delayed

------------------------------------------------------------------------------
(* The steps that change the timers. *)

(* A step that leaves the timers alone keeps their invariant. *)
LEMMA TimersKept ==
  ASSUME TimerInv, UNCHANGED timerVars
  PROVE  TimerInv'
<1>1. TimerTypeOK'
  BY DEF TimerInv, TimerTypeOK
<1>2. ActiveListed'
  BY DEF TimerInv, ActiveListed, Active, Exists, InCbProc
<1>3. CommandInv'
  BY DEF TimerInv, CommandInv, Active, FromWork
<1> QED BY <1>1, <1>2, <1>3 DEF TimerInv

(* What a step changes nothing of the timers but the timer task's place. *)
LEMMA ListKept ==
  ASSUME TimerInv, UNCHANGED <<listVars, attrVars, g_timer_queue>>,
         lag' \in 0 .. LateMax, cb_msg' \in Commands \cup {None}, ticks' \in Nat,
         q' \in Timer \cup {None},
         tpc' \in {"recv", "blocked", "command", "head", "cb", "callback", "give", "rearm"},
         InCbProc' => q' = None \/ Active(q'),
         cb_msg' # None => FromWork(cb_msg'),
         tpc' \in {"callback", "give", "rearm"} => q' \in Timer,
         tpc' = "give" => q' \in Delayed
  PROVE  TimerInv'
<1>1. TimerTypeOK'
  BY DEF TimerInv, TimerTypeOK
<1>2. ActiveListed'
  BY DEF TimerInv, ActiveListed, Active, Exists
<1>3. CommandInv'
  BY DEF TimerInv, CommandInv, Active, FromWork
<1> QED BY <1>1, <1>2, <1>3 DEF TimerInv

(* So does a command that is sent to the timer task. *)
LEMMA SendKeeps ==
  ASSUME TimerInv, NEW cmd \in Commands, FromWork(cmd), Send(cmd)
  PROVE  /\ TimerInv'
         /\ tpc' = "give" <=> tpc = "give"
         /\ UNCHANGED <<timer_cb_arg, q>>
<1>0. UNCHANGED <<listVars, attrVars, lag, ticks, q>>
  BY DEF Send
<1>t. /\ g_timer_queue \in Seq(Commands) /\ Len(g_timer_queue) <= MsgNum /\ MsgNum \in Nat
      /\ \A c \in ToSet(g_timer_queue) : FromWork(c)
      /\ tpc \in {"recv", "blocked", "command", "head", "cb", "callback", "give", "rearm"}
  BY TimerAssumption DEF TimerInv, TimerTypeOK, CommandInv
<1>1. CASE tpc = "blocked" /\ tpc' = "command" /\ cb_msg' = cmd /\ UNCHANGED g_timer_queue
  <2>1. TimerTypeOK'
    BY <1>0, <1>1 DEF TimerInv, TimerTypeOK
  <2>2. ActiveListed'
    BY <1>0, <1>1 DEF TimerInv, ActiveListed, Active, Exists, InCbProc
  <2>3. CommandInv'
    BY <1>0, <1>1 DEF TimerInv, CommandInv, Active, FromWork
  <2> QED BY <1>0, <1>1, <2>1, <2>2, <2>3 DEF TimerInv
<1>2. CASE /\ Len(g_timer_queue) < MsgNum /\ g_timer_queue' = Append(g_timer_queue, cmd)
           /\ UNCHANGED <<tpc, cb_msg>>
  <2>0. /\ g_timer_queue' \in Seq(Commands) /\ Len(g_timer_queue') <= MsgNum
        /\ ToSet(g_timer_queue') = ToSet(g_timer_queue) \cup {cmd}
    <3>1. Len(Append(g_timer_queue, cmd)) = Len(g_timer_queue) + 1
      BY <1>t
    <3> QED BY <1>2, <1>t, <3>1, AppendEntry
  <2>1. TimerTypeOK'
    BY <1>0, <1>2, <2>0 DEF TimerInv, TimerTypeOK
  <2>2. ActiveListed'
    BY <1>0, <1>2 DEF TimerInv, ActiveListed, Active, Exists, InCbProc
  <2>3. \A c \in ToSet(g_timer_queue') : FromWork(c)
    BY <1>t, <2>0
  <2>4. CommandInv'
    BY <1>0, <1>2, <2>3 DEF TimerInv, CommandInv, Active, FromWork
  <2> QED BY <1>0, <1>2, <2>1, <2>2, <2>4 DEF TimerInv
<1> QED BY <1>1, <1>2 DEF Send

(* So does the creation of a timer. *)
LEMMA CreateKeeps ==
  ASSUME TimerInv, NEW t \in Timer \ Work, krhino_timer_create(t)
  PROVE  /\ TimerInv'
         /\ UNCHANGED <<tpc, q>>
         /\ \A w \in Delayed : timer_cb_arg'[w] = timer_cb_arg[w]
<1>0. /\ UNCHANGED <<listVars, lag, g_timer_queue, taskVars>>
      /\ obj_type' = [obj_type EXCEPT ![t] = "RHINO_TIMER_OBJ_TYPE"]
      /\ init_count' = [init_count EXCEPT ![t] = InitCount[t]]
      /\ round_ticks' = [round_ticks EXCEPT ![t] = RoundTicks[t]]
      /\ timer_cb_arg' = [timer_cb_arg EXCEPT ![t] = None]
  BY DEF krhino_timer_create
<1>1. TimerTypeOK'
  BY <1>0, TimerAssumption DEF TimerInv, TimerTypeOK
<1>2. ActiveListed'
  BY <1>0 DEF TimerInv, TimerTypeOK, ActiveListed, Active, Exists, InCbProc
<1>3. \A w \in Delayed : timer_cb_arg'[w] = timer_cb_arg[w]
  BY <1>0 DEF TimerInv, TimerTypeOK, Delayed
<1>4. CommandInv'
  BY <1>0, <1>3 DEF TimerInv, CommandInv, Active, FromWork
<1> QED BY <1>0, <1>1, <1>2, <1>3, <1>4 DEF TimerInv

(* The rest of a list has no new entries. *)
LEMMA TailEntries ==
  ASSUME NEW S, NEW s \in Seq(S), s # <<>>
  PROVE  ToSet(Tail(s)) \subseteq ToSet(s)
<1>1. Len(s) \in Nat \ {0} /\ Len(Tail(s)) = Len(s) - 1
      /\ \A i \in 1 .. Len(s) - 1 : Tail(s)[i] = s[i + 1]
  OBVIOUS
<1>2. \A i \in 1 .. Len(s) - 1 : i + 1 \in 1 .. Len(s)
  BY <1>1
<1>3. DOMAIN s = 1 .. Len(s) /\ DOMAIN Tail(s) = 1 .. Len(s) - 1
  BY <1>1
<1> QED BY <1>1, <1>2, <1>3 DEF ToSet

(* So does the receive of the timer task. *)
LEMMA RecvKeeps ==
  ASSUME TimerInv, TimerRecv
  PROVE  /\ TimerInv'
         /\ tpc' # "give" /\ tpc # "give"
<1>0. tpc = "recv" /\ UNCHANGED <<listVars, attrVars, lag, ticks, q>>
  BY DEF TimerRecv
<1>t. /\ g_timer_queue \in Seq(Commands) /\ Len(g_timer_queue) <= MsgNum /\ MsgNum \in Nat
      /\ \A c \in ToSet(g_timer_queue) : FromWork(c)
  BY TimerAssumption DEF TimerInv, TimerTypeOK, CommandInv
<1>1. CASE /\ g_timer_queue # <<>> /\ cb_msg' = Head(g_timer_queue)
           /\ g_timer_queue' = Tail(g_timer_queue) /\ tpc' = "command"
  <2>0. /\ g_timer_queue' \in Seq(Commands) /\ Len(g_timer_queue') <= MsgNum
        /\ cb_msg' \in Commands
    <3>1. Len(Tail(g_timer_queue)) = Len(g_timer_queue) - 1
      BY <1>t, <1>1
    <3> QED BY <1>1, <1>t, <3>1, FirstEntry
  <2>1. TimerTypeOK'
    BY <1>0, <1>1, <2>0 DEF TimerInv, TimerTypeOK
  <2>2. ActiveListed'
    BY <1>0, <1>1 DEF TimerInv, ActiveListed, Active, Exists, InCbProc
  <2>3. \A c \in ToSet(g_timer_queue') : FromWork(c)
    BY <1>t, <1>1, TailEntries
  <2>4. FromWork(cb_msg')
    BY <1>t, <1>1, FirstEntry
  <2>5. CommandInv'
    BY <1>0, <1>1, <2>3, <2>4 DEF TimerInv, CommandInv, Active, FromWork
  <2> QED BY <1>0, <1>1, <2>1, <2>2, <2>5 DEF TimerInv
<1>2. CASE tpc' = "blocked" /\ UNCHANGED <<cb_msg, g_timer_queue>>
  BY <1>0, <1>2, ListKept DEF TimerInv, TimerTypeOK, ActiveListed, CommandInv, InCbProc
<1> QED BY <1>0, <1>1, <1>2 DEF TimerRecv

(* The first timer on the list, if there is one, is active. *)
LEMMA FirstListed ==
  ASSUME NEW s \in Seq(Timer)
  PROVE  First(s) = None \/ First(s) \in ToSet(s)
BY FirstEntry DEF First

(* The first entry of the timer list is an active timer. *)
LEMMA FirstActive ==
  ASSUME TimerInv, NEW t, t = First(g_timer_head)
  PROVE  t = None \/ (t \in Timer /\ Active(t))
<1>1. /\ g_timer_head \in Seq(Timer)
      /\ ToSet(g_timer_head) = {u \in Timer : Active(u)}
  BY DEF TimerInv, TimerTypeOK, ActiveListed
<1>2. t = None \/ t \in ToSet(g_timer_head)
  BY <1>1, FirstListed
<1> QED BY <1>1, <1>2

(* The timer task looks at the list. *)
LEMMA HeadKeeps ==
  ASSUME TimerInv, TimerHead
  PROVE  TimerInv' /\ tpc' # "give" /\ tpc # "give"
<1>1. /\ tpc = "head" /\ UNCHANGED <<listVars, attrVars, g_timer_queue, cb_msg>>
      /\ tpc' \in {"recv", "cb"}
  BY DEF TimerHead
<1>2. PICK t : t = First(g_timer_head)
  OBVIOUS
<1>3. \/ /\ t = None \/ due[t] > 0
         /\ tpc' = "recv" /\ ticks' = IF t = None THEN Forever ELSE due[t]
         /\ UNCHANGED <<lag, q>>
      \/ tpc' = "cb" /\ q' = t /\ lag' = 0 /\ UNCHANGED ticks
  BY <1>2 DEF TimerHead
<1>4. t = None \/ (t \in Timer /\ Active(t))
  BY <1>2, FirstActive
<1>5. /\ lag' \in 0 .. LateMax /\ ticks' \in Nat /\ q' \in Timer \cup {None}
      /\ tpc' = "cb" => q' = None \/ Active(q')
  <2>1. /\ due \in [Timer -> Int] /\ lag \in 0 .. LateMax /\ ticks \in Nat
        /\ q \in Timer \cup {None} /\ LateMax \in Nat
    BY TimerAssumption DEF TimerInv, TimerTypeOK
  <2>2. CASE tpc' = "cb" /\ q' = t /\ lag' = 0 /\ UNCHANGED ticks
    BY <1>4, <2>1, <2>2
  <2>3. CASE /\ t = None \/ due[t] > 0
             /\ tpc' = "recv" /\ ticks' = IF t = None THEN Forever ELSE due[t]
             /\ UNCHANGED <<lag, q>>
    BY <1>4, <2>1, <2>3 DEF Forever
  <2> QED BY <1>3, <2>2, <2>3
<1> QED BY <1>1, <1>5, ListKept DEF TimerInv, TimerTypeOK, CommandInv, InCbProc

(* It goes from one expired timer to the next. *)
LEMMA CbKeeps ==
  ASSUME TimerInv, TimerCb
  PROVE  TimerInv' /\ tpc' # "give" /\ tpc # "give"
BY ListKept DEF TimerCb, TimerInv, TimerTypeOK, ActiveListed, CommandInv, InCbProc, Active

(* A callback is called. *)
LEMMA CallbackKeeps ==
  ASSUME TimerInv, tpc = "callback", tpc' \in {"give", "rearm"},
         tpc' = "give" => q \in Delayed,
         UNCHANGED <<listVars, attrVars, lag, g_timer_queue, cb_msg, ticks, q>>
  PROVE  TimerInv'
BY ListKept DEF TimerInv, TimerTypeOK, ActiveListed, CommandInv, InCbProc, Active

(* The callback of a delayed work gives the unit. *)
LEMMA GiveKeeps ==
  ASSUME TimerInv, tpc = "give", tpc' = "rearm",
         UNCHANGED <<listVars, attrVars, lag, g_timer_queue, cb_msg, ticks, q>>
  PROVE  TimerInv'
BY ListKept DEF TimerInv, TimerTypeOK, ActiveListed, CommandInv, InCbProc, Active

(* A tick comes. *)
LEMMA TickKeeps ==
  ASSUME TimerInv, Tick
  PROVE  /\ TimerInv'
         /\ tpc' = "give" <=> tpc = "give"
         /\ UNCHANGED <<timer_cb_arg, q>>
<1>1. /\ UNCHANGED <<g_timer_head, timer_state, attrVars, g_timer_queue, cb_msg, q>>
      /\ tpc' = IF tpc = "blocked" /\ ticks = 1 THEN "command" ELSE tpc
      /\ lag' = IF InCbProc THEN lag + 1 ELSE 0
      /\ InCbProc => lag < LateMax
      /\ ticks' = IF tpc = "blocked" /\ ticks > 1 THEN ticks - 1 ELSE ticks
      /\ due' = [t \in Timer |-> IF Active(t) /\ due[t] >= 0 - LateMax THEN due[t] - 1
                                 ELSE due[t]]
  BY DEF Tick
<1>2. due' \in [Timer -> Int]
  BY <1>1 DEF TimerInv, TimerTypeOK
<1>3. lag' \in 0 .. LateMax /\ ticks' \in Nat
  BY <1>1, TimerAssumption DEF TimerInv, TimerTypeOK
<1>4. TimerTypeOK'
  BY <1>1, <1>2, <1>3 DEF TimerInv, TimerTypeOK
<1>5. ActiveListed'
  BY <1>1 DEF TimerInv, ActiveListed, Active, Exists, InCbProc
<1>6. CommandInv'
  BY <1>1 DEF TimerInv, CommandInv, Active, FromWork
<1> QED BY <1>1, <1>4, <1>5, <1>6 DEF TimerInv

(* What cmd_proc does to the list and to the attributes. *)
CommandDone ==
  /\ g_timer_head' \in Seq(Timer) /\ due' \in [Timer -> Int]
  /\ timer_state' \in [Timer -> {"TIMER_ACTIVE", "TIMER_DEACTIVE"}]
  /\ Linear(g_timer_head')
  /\ ToSet(g_timer_head') = {u \in Timer : Active(u)'}
  /\ \A u \in Timer : Active(u)' => Exists(u)'
  /\ obj_type' \in [Timer -> {"RHINO_TIMER_OBJ_TYPE", "RHINO_OBJ_TYPE_NONE"}]
  /\ init_count' \in [Timer -> Nat \ {0}] /\ round_ticks' \in [Timer -> Nat]
  /\ timer_cb_arg' \in [Timer -> Args \cup {None}]
  /\ \A w \in Delayed : Active(w)' => timer_cb_arg'[w] \in WorkQueue

(* A command that does nothing. *)
LEMMA NothingDone ==
  ASSUME TimerInv, UNCHANGED <<listVars, attrVars>>
  PROVE  CommandDone
BY DEF TimerInv, TimerTypeOK, ActiveListed, CommandInv, CommandDone, Active, Exists

(* The start of a timer. *)
LEMMA StartDone ==
  ASSUME TimerInv, NEW t \in Timer, t \notin Delayed, CmdStart(t)
  PROVE  CommandDone
<1>1. Exists(t) /\ UNCHANGED attrVars /\ ~Active(t) /\ init_count[t] \in Int
  BY DEF CmdStart, TimerInv, TimerTypeOK
<1>2. PICK s : s = Stopped(t)
  OBVIOUS
<1>3. PICK val : val = init_count[t]
  OBVIOUS
<1>4. StartOn(s, t, val) /\ val \in Int
  BY <1>1, <1>2, <1>3 DEF CmdStart, Stopped
<1>5. /\ g_timer_head' \in Seq(Timer) /\ due' \in [Timer -> Int]
      /\ timer_state' \in [Timer -> {"TIMER_ACTIVE", "TIMER_DEACTIVE"}]
      /\ Linear(g_timer_head')
      /\ ToSet(g_timer_head') = {u \in Timer : Active(u)'}
      /\ \A u \in Timer : Active(u)' => Exists(u)'
      /\ \A u \in Timer : Active(u)' <=> Active(u) \/ u = t
  BY <1>1, <1>2, <1>4, Started DEF TimerInv
<1>6. \A w \in Delayed : Active(w)' => timer_cb_arg'[w] \in WorkQueue
  BY <1>1, <1>5 DEF TimerInv, CommandInv, Delayed
<1> QED BY <1>1, <1>5, <1>6 DEF TimerInv, TimerTypeOK, CommandDone

(* The start of the timer of a delayed work, with the queue for its argument. *)
LEMMA AutoDone ==
  ASSUME TimerInv, NEW t \in Timer, NEW arg \in Args, t \in Delayed => arg \in WorkQueue,
         CmdArgChangeAuto(t, arg)
  PROVE  CommandDone
<1>1. /\ Exists(t) /\ UNCHANGED <<obj_type, init_count, round_ticks>>
      /\ timer_cb_arg' = [timer_cb_arg EXCEPT ![t] = arg] /\ init_count[t] \in Int
  BY DEF CmdArgChangeAuto, TimerInv, TimerTypeOK
<1>2. PICK s : s = Stopped(t)
  OBVIOUS
<1>3. PICK val : val = init_count[t]
  OBVIOUS
<1>4. StartOn(s, t, val) /\ val \in Int
  BY <1>1, <1>2, <1>3 DEF CmdArgChangeAuto
<1>5. /\ g_timer_head' \in Seq(Timer) /\ due' \in [Timer -> Int]
      /\ timer_state' \in [Timer -> {"TIMER_ACTIVE", "TIMER_DEACTIVE"}]
      /\ Linear(g_timer_head')
      /\ ToSet(g_timer_head') = {u \in Timer : Active(u)'}
      /\ \A u \in Timer : Active(u)' => Exists(u)'
      /\ \A u \in Timer : Active(u)' <=> Active(u) \/ u = t
  BY <1>1, <1>2, <1>4, Started DEF TimerInv
<1>6. \A w \in Delayed : Active(w)' => timer_cb_arg'[w] \in WorkQueue
  BY <1>1, <1>5 DEF TimerInv, TimerTypeOK, CommandInv, Delayed
<1>7. timer_cb_arg' \in [Timer -> Args \cup {None}]
  BY <1>1 DEF TimerInv, TimerTypeOK
<1> QED BY <1>1, <1>5, <1>6, <1>7 DEF TimerInv, TimerTypeOK, CommandDone

(* The stop of a timer. *)
LEMMA StopDone ==
  ASSUME TimerInv, NEW t \in Timer, CmdStop(t)
  PROVE  CommandDone
<1>1. /\ Exists(t) /\ Active(t) /\ UNCHANGED attrVars
      /\ g_timer_head' = Stopped(t)
      /\ due' = [due EXCEPT ![t] = 0]
      /\ timer_state' = [timer_state EXCEPT ![t] = "TIMER_DEACTIVE"]
  BY DEF CmdStop
<1>2. /\ g_timer_head' \in Seq(Timer) /\ Linear(g_timer_head')
      /\ ToSet(g_timer_head') = {u \in Timer : Active(u)} \ {t}
  BY <1>1, TakenOff DEF TimerInv
<1>3. /\ due' \in [Timer -> Int]
      /\ timer_state' \in [Timer -> {"TIMER_ACTIVE", "TIMER_DEACTIVE"}]
      /\ \A u \in Timer : Active(u)' <=> Active(u) /\ u # t
  BY <1>1 DEF TimerInv, TimerTypeOK, Active
<1>4. ToSet(g_timer_head') = {u \in Timer : Active(u)'}
  BY <1>2, <1>3
<1>5. \A u \in Timer : Active(u)' => Exists(u)'
  BY <1>1, <1>3 DEF TimerInv, ActiveListed, Exists
<1>6. \A w \in Delayed : Active(w)' => timer_cb_arg'[w] \in WorkQueue
  BY <1>1, <1>3 DEF TimerInv, CommandInv, Delayed
<1> QED BY <1>1, <1>2, <1>3, <1>4, <1>5, <1>6 DEF TimerInv, TimerTypeOK, CommandDone

(* The commands for a timer that is not active and belongs to no work. *)
LEMMA AttributesDone ==
  ASSUME TimerInv, NEW t \in Timer, t \notin Delayed,
         \/ \E change \in Changes : CmdChange(t, change)
         \/ \E arg \in Args : CmdArgChange(t, arg)
         \/ CmdDel(t)
  PROVE  CommandDone
<1>0. UNCHANGED listVars /\ ~Active(t)
  BY DEF CmdChange, CmdArgChange, CmdDel
<1>1. /\ obj_type' \in [Timer -> {"RHINO_TIMER_OBJ_TYPE", "RHINO_OBJ_TYPE_NONE"}]
      /\ \A u \in Timer \ {t} : obj_type'[u] = obj_type[u]
  BY DEF CmdChange, CmdArgChange, CmdDel, TimerInv, TimerTypeOK
<1>2. init_count' \in [Timer -> Nat \ {0}] /\ round_ticks' \in [Timer -> Nat]
  <2>1. \A change \in Changes : change[1] \in Nat \ {0} /\ change[2] \in Nat
    BY TimerAssumption
  <2> QED BY <2>1 DEF CmdChange, CmdArgChange, CmdDel, TimerInv, TimerTypeOK
<1>3. /\ timer_cb_arg' \in [Timer -> Args \cup {None}]
      /\ \A u \in Timer \ {t} : timer_cb_arg'[u] = timer_cb_arg[u]
  BY DEF CmdChange, CmdArgChange, CmdDel, TimerInv, TimerTypeOK
<1>4. \A u \in Timer : Active(u)' <=> Active(u)
  BY <1>0 DEF Active
<1>5. \A u \in Timer : Active(u)' => Exists(u)'
  BY <1>0, <1>1, <1>4 DEF TimerInv, ActiveListed, Exists
<1>6. \A w \in Delayed : Active(w)' => timer_cb_arg'[w] \in WorkQueue
  BY <1>3, <1>4 DEF TimerInv, CommandInv, Delayed
<1>7. /\ Linear(g_timer_head')
      /\ ToSet(g_timer_head') = {u \in Timer : Active(u)'}
  BY <1>0, <1>4 DEF TimerInv, ActiveListed
<1> QED BY <1>0, <1>1, <1>2, <1>3, <1>5, <1>6, <1>7 DEF TimerInv, TimerTypeOK, CommandDone

(* Every command leaves the active timers linked. *)
LEMMA CommandEffect ==
  ASSUME TimerInv, NEW cmd \in Commands, FromWork(cmd), timer_cmd_proc(cmd)
  PROVE  CommandDone
<1>1. /\ cmd.timer \in Timer
      /\ cmd.cb_num = "TIMER_CMD_CHG" => cmd.change \in Changes
      /\ cmd.cb_num \in {"TIMER_ARG_CHG", "TIMER_ARG_CHG_AUTO"} => cmd.arg \in Args
  BY CommandFields
<1>2. PICK t : t = cmd.timer
  OBVIOUS
<1>3. CASE cmd.cb_num = "TIMER_CMD_START" /\ CmdStart(t)
  BY <1>1, <1>2, <1>3, StartDone DEF FromWork
<1>4. CASE cmd.cb_num = "TIMER_CMD_STOP" /\ CmdStop(t)
  BY <1>1, <1>2, <1>4, StopDone
<1>5. CASE \/ cmd.cb_num = "TIMER_CMD_CHG" /\ CmdChange(t, cmd.change)
           \/ cmd.cb_num = "TIMER_ARG_CHG" /\ CmdArgChange(t, cmd.arg)
           \/ cmd.cb_num = "TIMER_CMD_DEL" /\ CmdDel(t)
  <2>1. t \in Timer /\ t \notin Delayed
    BY <1>1, <1>2, <1>5 DEF FromWork
  <2>2. \/ \E change \in Changes : CmdChange(t, change)
        \/ \E arg \in Args : CmdArgChange(t, arg)
        \/ CmdDel(t)
    BY <1>1, <1>5
  <2> QED BY <2>1, <2>2, AttributesDone
<1>6. CASE cmd.cb_num = "TIMER_ARG_CHG_AUTO" /\ CmdArgChangeAuto(t, cmd.arg)
  <2>1. cmd.arg \in Args /\ (t \in Delayed => cmd.arg \in WorkQueue)
    BY <1>1, <1>2, <1>6 DEF FromWork
  <2> QED BY <1>1, <1>2, <1>6, <2>1, AutoDone
<1>7. CASE UNCHANGED <<listVars, attrVars>>
  BY <1>7, NothingDone
<1> QED BY <1>2, <1>3, <1>4, <1>5, <1>6, <1>7 DEF timer_cmd_proc, CmdEffect

(* So the timer task keeps the invariant when it handles one. *)
LEMMA CommandKeeps ==
  ASSUME TimerInv, TimerCommand
  PROVE  TimerInv' /\ tpc' # "give" /\ tpc # "give"
<1>1. /\ tpc = "command" /\ cb_msg' = None /\ ticks' = Forever /\ lag' = 0
      /\ UNCHANGED g_timer_queue
      /\ \/ tpc' = "head" /\ UNCHANGED q
         \/ tpc' = "cb" /\ q' = First(g_timer_head')
  BY DEF TimerCommand
<1>2. CommandDone
  <2>1. CASE cb_msg = None
    BY <2>1, NothingDone DEF TimerCommand
  <2>2. CASE cb_msg # None
    <3>1. PICK cmd : cmd = cb_msg
      OBVIOUS
    <3>2. cmd \in Commands /\ FromWork(cmd) /\ timer_cmd_proc(cmd)
      BY <2>2, <3>1 DEF TimerCommand, TimerInv, TimerTypeOK, CommandInv
    <3> QED BY <3>2, CommandEffect
  <2> QED BY <2>1, <2>2
<1>3. \/ First(g_timer_head') = None
      \/ First(g_timer_head') \in Timer /\ timer_state'[First(g_timer_head')] = "TIMER_ACTIVE"
  <2>1. PICK u : u = First(g_timer_head')
    OBVIOUS
  <2>2. u = None \/ u \in ToSet(g_timer_head')
    BY <1>2, <2>1, FirstListed DEF CommandDone
  <2>3. u = None \/ (u \in Timer /\ timer_state'[u] = "TIMER_ACTIVE")
    <3>1. ToSet(g_timer_head') = {x \in Timer : timer_state'[x] = "TIMER_ACTIVE"}
      BY <1>2 DEF CommandDone, Active
    <3> QED BY <2>2, <3>1
  <2> QED BY <2>1, <2>3
<1>4. TimerTypeOK'
  <2>1. lag' \in 0 .. LateMax /\ ticks' \in Nat
    BY <1>1, TimerAssumption DEF Forever
  <2>2. /\ g_timer_queue' \in Seq(Commands) /\ Len(g_timer_queue') <= MsgNum
        /\ cb_msg' \in Commands \cup {None} /\ tpc' \in {"head", "cb"}
    BY <1>1 DEF TimerInv, TimerTypeOK
  <2>3. q' \in Timer \cup {None}
    BY <1>1, <1>3 DEF TimerInv, TimerTypeOK
  <2> QED BY <1>2, <2>1, <2>2, <2>3 DEF TimerTypeOK, CommandDone
<1>5. InCbProc' => q' = None \/ Active(q)'
  BY <1>1, <1>3 DEF InCbProc, Active
<1>6. ActiveListed'
  BY <1>2, <1>5 DEF CommandDone, ActiveListed
<1>7. CommandInv'
  BY <1>1, <1>2 DEF TimerInv, CommandInv, CommandDone, FromWork
<1> QED BY <1>1, <1>4, <1>6, <1>7 DEF TimerInv

(* The timer that was served is on the list when timer_cb_proc comes to rearm it,
   and the entry the loop goes on with is an active timer too. *)
LEMMA RearmKeeps ==
  ASSUME TimerInv, TimerRearm
  PROVE  TimerInv' /\ tpc' # "give" /\ tpc # "give"
<1>0. /\ tpc = "rearm" /\ tpc' = "cb"
      /\ UNCHANGED <<attrVars, lag, g_timer_queue, cb_msg, ticks>>
  BY DEF TimerRearm
<1>1. PICK t \in Timer : t = q
  BY <1>0 DEF TimerInv, CommandInv
<1>2. /\ g_timer_head \in Seq(Timer) /\ Linear(g_timer_head)
      /\ ToSet(g_timer_head) = {u \in Timer : Active(u)}
      /\ due \in [Timer -> Int] /\ lag \in Int /\ round_ticks[t] \in Nat
      /\ timer_state \in [Timer -> {"TIMER_ACTIVE", "TIMER_DEACTIVE"}]
  BY TimerAssumption DEF TimerInv, TimerTypeOK, ActiveListed
<1>3. Active(t)
  BY <1>0, <1>1, TimerAssumption DEF TimerInv, ActiveListed, InCbProc, Active
<1>4. PICK s : s = klist_rm(g_timer_head, t)
  OBVIOUS
<1>5. s \in Seq(Timer) /\ Linear(s) /\ ToSet(s) = {u \in Timer : Active(u)} \ {t}
  BY <1>2, <1>3, <1>4, KlistRm
<1>6. CASE round_ticks[t] > 0
  <2>1. PICK d \in [Timer -> Int] : d = due
    BY <1>2
  <2>2. PICK now \in Int : now = lag
    BY <1>2
  <2>3. PICK val \in Int : val = round_ticks[t]
    BY <1>2
  <2>4. PICK p : p = timer_list_pri_insert(s, d, now, t, val)
    OBVIOUS
  <2>5. p \in Seq(Timer) /\ Linear(p)
    BY <1>5, <2>4, PlaceOnList
  <2>6. ToSet(p) = ToSet(s) \cup {t}
    BY <1>5, <2>4, PlaceEntries
  <2>7. /\ due' = [due EXCEPT ![t] = val - now] /\ g_timer_head' = p
        /\ q' = NextOf(p, t) /\ UNCHANGED timer_state
    BY <1>1, <1>4, <1>6, <2>1, <2>2, <2>3, <2>4 DEF TimerRearm
  <2>8. ToSet(p) = {u \in Timer : Active(u)}
    BY <1>3, <1>5, <2>6
  <2>9. \/ q' = None
        \/ q' \in Timer /\ Active(q')
    BY <2>5, <2>6, <2>7, <2>8, NextEntry
  <2>10. due' \in [Timer -> Int]
    BY <1>2, <2>7
  <2>11. CommandDone
    <3>1. \A u \in Timer : Active(u)' <=> Active(u)
      BY <2>7 DEF Active
    <3>2. ToSet(g_timer_head') = {u \in Timer : Active(u)'}
      BY <2>7, <2>8, <3>1
    <3> QED BY <1>0, <1>2, <2>5, <2>7, <2>10, <3>1, <3>2
        DEF CommandDone, TimerInv, TimerTypeOK, ActiveListed, CommandInv, Exists, Delayed
  <2>12. \/ q' = None
         \/ q' \in Timer /\ Active(q)'
    BY <2>7, <2>9 DEF Active
  <2> QED BY <1>0, <2>11, <2>12
      DEF CommandDone, TimerInv, TimerTypeOK, ActiveListed, CommandInv, FromWork
<1>7. CASE ~(round_ticks[t] > 0)
  <2>1. /\ due' = [due EXCEPT ![t] = 0] /\ g_timer_head' = s
        /\ q' = NextOf(g_timer_head, t)
        /\ timer_state' = [timer_state EXCEPT ![t] = "TIMER_DEACTIVE"]
    BY <1>1, <1>4, <1>7 DEF TimerRearm
  <2>2. /\ due' \in [Timer -> Int]
        /\ timer_state' \in [Timer -> {"TIMER_ACTIVE", "TIMER_DEACTIVE"}]
        /\ \A u \in Timer : Active(u)' <=> Active(u) /\ u # t
    BY <1>2, <2>1 DEF Active
  <2>3. ToSet(g_timer_head') = {u \in Timer : Active(u)'}
    BY <1>5, <2>1, <2>2
  <2>4. CommandDone
    BY <1>0, <1>5, <2>1, <2>2, <2>3
    DEF CommandDone, TimerInv, TimerTypeOK, ActiveListed, CommandInv, Exists, Delayed
  <2>5. PICK n : n = NextOf(g_timer_head, t)
    OBVIOUS
  <2>6. n = None \/ (n \in Timer /\ Active(n) /\ n # t)
    BY <1>2, <1>3, <2>5, NextEntry
  <2>7. \/ q' = None
        \/ q' \in Timer /\ Active(q)'
    BY <1>2, <2>1, <2>5, <2>6 DEF Active
  <2> QED BY <1>0, <2>4, <2>7
      DEF CommandDone, TimerInv, TimerTypeOK, ActiveListed, CommandInv, FromWork
<1> QED BY <1>0, <1>6, <1>7

------------------------------------------------------------------------------
(* The units of sem. *)

CbUnit(g) == IF tpc = "give" /\ timer_cb_arg[q] = g THEN 1 ELSE 0
PopUnit(g) == IF wpc[g] = "pop" THEN 1 ELSE 0

(* The units that a work queue is owed: by tasks, by the callback and by its worker.
   *)
LEMMA OwedParts ==
  ASSUME NEW g
  PROVE  /\ Owed(g) = Cardinality(Givers(g)) + CbUnit(g) + PopUnit(g)
         /\ Owed(g)' = Cardinality(Givers(g)') + CbUnit(g)' + PopUnit(g)'
         /\ CbUnit(g) \in 0 .. 1 /\ CbUnit(g)' \in 0 .. 1
         /\ PopUnit(g) \in 0 .. 1 /\ PopUnit(g)' \in 0 .. 1
         /\ IsFiniteSet(Givers(g)) => Cardinality(Givers(g)) \in Nat
BY FS_CardinalityType DEF Owed, CbUnit, PopUnit

(* An invariant about what a work queue owes, in terms of the next state. *)
LEMMA UnitsKept ==
  ASSUME QueueInv, WorkTypeOK', ListInv',
         CallInv',
         \A g \in WorkQueue :
           /\ IsFiniteSet(Givers(g)')
           /\ Len(work_list'[g]) - sem'[g] - Cardinality(Givers(g)') - CbUnit(g)' - PopUnit(g)'
              = Len(work_list[g]) - sem[g] - Cardinality(Givers(g)) - CbUnit(g) - PopUnit(g)
  PROVE  QueueInv'
<1>1. ASSUME NEW g \in WorkQueue PROVE Len(work_list'[g]) = sem'[g] + Owed(g)'
  <2>1. /\ work_list[g] \in Seq(Work) /\ sem[g] \in Nat
        /\ IsFiniteSet(Givers(g)) /\ Len(work_list[g]) = sem[g] + Owed(g)
    BY DEF QueueInv, WorkTypeOK, UnitInv
  <2>2. work_list'[g] \in Seq(Work) /\ sem'[g] \in Nat
    BY DEF WorkTypeOK
  <2>3. Cardinality(Givers(g)) \in Nat /\ Cardinality(Givers(g)') \in Nat
    BY <2>1, FS_CardinalityType
  <2>4. Len(work_list[g]) \in Nat /\ Len(work_list'[g]) \in Nat
    BY <2>1, <2>2
  <2>5. /\ Owed(g) = Cardinality(Givers(g)) + CbUnit(g) + PopUnit(g)
        /\ Owed(g)' = Cardinality(Givers(g)') + CbUnit(g)' + PopUnit(g)'
        /\ CbUnit(g) \in 0 .. 1 /\ CbUnit(g)' \in 0 .. 1
        /\ PopUnit(g) \in 0 .. 1 /\ PopUnit(g)' \in 0 .. 1
    BY OwedParts
  <2>6. PICK l \in Nat, m \in Nat, c \in Nat, x \in 0 .. 1, y \in 0 .. 1 :
          /\ l = Len(work_list[g]) /\ m = sem[g] /\ c = Cardinality(Givers(g))
          /\ x = CbUnit(g) /\ y = PopUnit(g)
    BY <2>1, <2>3, <2>4, <2>5
  <2>7. PICK lp \in Nat, mp \in Nat, cp \in Nat, xp \in 0 .. 1, yp \in 0 .. 1 :
          /\ lp = Len(work_list'[g]) /\ mp = sem'[g] /\ cp = Cardinality(Givers(g)')
          /\ xp = CbUnit(g)' /\ yp = PopUnit(g)'
    BY <2>2, <2>3, <2>4, <2>5
  <2>8. l = m + (c + x + y)
    BY <2>1, <2>5, <2>6
  <2>9. lp - mp - cp - xp - yp = l - m - c - x - y
    BY <2>6, <2>7
  <2>10. lp = mp + (cp + xp + yp)
    BY <2>8, <2>9
  <2> QED BY <2>5, <2>7, <2>10
<1>2. UnitInv'
  BY <1>1 DEF UnitInv
<1> QED BY <1>2 DEF QueueInv

(* A step that leaves the lists and the units alone. *)
LEMMA UnitsAlone ==
  ASSUME QueueInv, WorkTypeOK', UNCHANGED <<queueVars, work_exit>>,
         CallInv',
         \A g \in WorkQueue : Givers(g)' = Givers(g),
         tpc' = "give" <=> tpc = "give",
         tpc = "give" => q' = q /\ timer_cb_arg'[q] = timer_cb_arg[q]
  PROVE  QueueInv'
<1>1. ListInv'
  BY DEF QueueInv, ListInv
<1>2. ASSUME NEW g \in WorkQueue
      PROVE  /\ CbUnit(g)' = CbUnit(g) /\ PopUnit(g)' = PopUnit(g)
             /\ IsFiniteSet(Givers(g)')
             /\ work_list'[g] = work_list[g] /\ sem'[g] = sem[g]
  <2>1. PopUnit(g)' = PopUnit(g) /\ CbUnit(g)' = CbUnit(g)
    BY DEF PopUnit, CbUnit
  <2>2. IsFiniteSet(Givers(g)')
    BY DEF QueueInv, UnitInv
  <2> QED BY <2>1, <2>2
<1> QED BY <1>1, <1>2, UnitsKept

(* A step that leaves the works, their lists and these units alone keeps the invariant
   of the work queues. *)
LEMMA QueuesKept ==
  ASSUME QueueInv, UNCHANGED <<queueVars, wq, work_exit, appVars>>, cancelled' \subseteq Work,
         tpc' = "give" <=> tpc = "give",
         tpc = "give" => q' = q /\ timer_cb_arg'[q] = timer_cb_arg[q]
  PROVE  QueueInv'
<1>1. WorkTypeOK'
  BY DEF QueueInv, WorkTypeOK
<1>2. \A g \in WorkQueue : Givers(g)' = Givers(g)
  BY DEF Givers
<1>3. CallInv'
  BY DEF QueueInv, UnitInv, CallInv
<1> QED BY <1>1, <1>2, <1>3, UnitsAlone

(* A work that may be queued is on no list. *)
LEMMA OnNoList ==
  ASSUME QueueInv, NEW w \in Work, work_exit[w] = 0
  PROVE  /\ \A g \in WorkQueue : w \notin ToSet(work_list[g])
         /\ Unlinked(w) = work_list
<1>1. \A g \in WorkQueue : w \notin ToSet(work_list[g])
  BY DEF QueueInv, ListInv
<1>2. \A g \in WorkQueue : ~Contains(work_list[g], w)
  BY <1>1, EntrySet DEF QueueInv, WorkTypeOK
<1>3. work_list = [g \in WorkQueue |-> work_list[g]]
  BY DEF QueueInv, WorkTypeOK
<1> QED BY <1>1, <1>2, <1>3 DEF Unlinked

(* A work joins a queue. *)
LEMMA Joined ==
  ASSUME QueueInv, NEW w \in Work, NEW g \in WorkQueue, MayQueue(w, g), Enqueue(w, g)
  PROVE  /\ work_list' \in [WorkQueue -> Seq(Work)]
         /\ wq' \in [Work -> WorkQueue \cup {None}] /\ work_exit' \in [Work -> 0 .. 1]
         /\ cancelled' \subseteq Work /\ UNCHANGED <<work_current, sem, wpc>>
         /\ Len(work_list'[g]) = Len(work_list[g]) + 1
         /\ \A h \in WorkQueue \ {g} : work_list'[h] = work_list[h]
         /\ \A h \in WorkQueue : ToSet(work_list'[h]) \subseteq ToSet(work_list[h]) \cup {w}
         /\ ListInv'
<1>1. /\ \A h \in WorkQueue : w \notin ToSet(work_list[h])
      /\ Unlinked(w) = work_list
  BY OnNoList DEF MayQueue
<1>2. /\ work_list' = [work_list EXCEPT ![g] = Append(work_list[g], w)]
      /\ wq' = [wq EXCEPT ![w] = g] /\ work_exit' = [work_exit EXCEPT ![w] = 1]
      /\ cancelled' = cancelled \ {w} /\ UNCHANGED <<work_current, sem, wpc>>
  BY <1>1 DEF Enqueue
<1>t. /\ work_list \in [WorkQueue -> Seq(Work)] /\ cancelled \subseteq Work
      /\ wq \in [Work -> WorkQueue \cup {None}] /\ work_exit \in [Work -> 0 .. 1]
  BY DEF QueueInv, WorkTypeOK
<1>3. /\ Append(work_list[g], w) \in Seq(Work)
      /\ ToSet(Append(work_list[g], w)) = ToSet(work_list[g]) \cup {w}
      /\ Linear(Append(work_list[g], w))
  BY <1>1, <1>t, AppendEntry DEF QueueInv, ListInv
<1>4. Len(Append(work_list[g], w)) = Len(work_list[g]) + 1
  BY <1>t
<1>5. /\ work_list'[g] = Append(work_list[g], w)
      /\ \A h \in WorkQueue \ {g} : work_list'[h] = work_list[h]
  BY <1>2, <1>t
<1>6. work_list' \in [WorkQueue -> Seq(Work)]
  BY <1>2, <1>3, <1>t
<1>7. ListInv'
  <2>1. \A h \in WorkQueue : Linear(work_list'[h])
    BY <1>3, <1>5 DEF QueueInv, ListInv
  <2>2. \A h \in WorkQueue : ToSet(work_list'[h]) = ToSet(work_list[h]) \cup (IF h = g THEN {w} ELSE {})
    BY <1>3, <1>5
  <2>3. ASSUME NEW v \in Work
        PROVE  work_exit'[v] = 1 <=> \E h \in WorkQueue : v \in ToSet(work_list'[h])
    BY <1>2, <1>t, <2>2 DEF QueueInv, ListInv
  <2>4. ASSUME NEW h \in WorkQueue, NEW k \in WorkQueue, h # k
        PROVE  ToSet(work_list'[h]) \cap ToSet(work_list'[k]) = {}
    <3>1. ToSet(work_list[h]) \cap ToSet(work_list[k]) = {}
      BY <2>4 DEF QueueInv, ListInv
    <3>2. w \notin ToSet(work_list[h]) /\ w \notin ToSet(work_list[k])
      BY <1>1
    <3> QED BY <2>2, <2>4, <3>1, <3>2
  <2> QED BY <2>1, <2>3, <2>4 DEF ListInv
<1>8. \A h \in WorkQueue : ToSet(work_list'[h]) \subseteq ToSet(work_list[h]) \cup {w}
  BY <1>3, <1>5
<1> QED BY <1>2, <1>4, <1>5, <1>6, <1>7, <1>8, <1>t

(* What is owed to g where nobody comes or goes. *)
LEMMA SameGivers ==
  ASSUME NEW g \in WorkQueue, UNCHANGED appVars
  PROVE  Givers(g)' = Givers(g)
BY DEF Givers

(* The numbers that it relates. *)
LEMMA GiversFinite ==
  ASSUME QueueInv, NEW g \in WorkQueue
  PROVE  /\ IsFiniteSet(Givers(g)) /\ Cardinality(Givers(g)) \in Nat
         /\ Len(work_list[g]) \in Nat /\ sem[g] \in Nat
         /\ CbUnit(g) \in 0 .. 1 /\ PopUnit(g) \in 0 .. 1
BY FS_CardinalityType, OwedParts DEF QueueInv, UnitInv, WorkTypeOK

(* The worker takes a unit. *)
LEMMA TakeKeeps ==
  ASSUME QueueInv, NEW g \in WorkQueue, WorkerTake(g)
  PROVE  QueueInv'
<1>0. /\ wpc[g] = "take" /\ sem[g] > 0 /\ sem' = [sem EXCEPT ![g] = sem[g] - 1]
      /\ wpc' = [wpc EXCEPT ![g] = "pop"]
      /\ UNCHANGED <<timerVars, work_list, work_current, wq, work_exit, appVars, cancelled>>
  BY DEF WorkerTake
<1>1. WorkTypeOK'
  BY <1>0 DEF QueueInv, WorkTypeOK
<1>2. ListInv'
  BY <1>0 DEF QueueInv, ListInv
<1>3. CallInv'
  BY <1>0 DEF QueueInv, UnitInv, CallInv
<1>4. ASSUME NEW h \in WorkQueue
      PROVE  /\ IsFiniteSet(Givers(h)')
             /\ Len(work_list'[h]) - sem'[h] - Cardinality(Givers(h)') - CbUnit(h)' - PopUnit(h)'
                = Len(work_list[h]) - sem[h] - Cardinality(Givers(h)) - CbUnit(h) - PopUnit(h)
  <2>1. Givers(h)' = Givers(h) /\ IsFiniteSet(Givers(h)) /\ Cardinality(Givers(h)) \in Nat
        /\ Len(work_list[h]) \in Nat /\ sem[h] \in Nat
        /\ CbUnit(h) \in 0 .. 1 /\ PopUnit(h) \in 0 .. 1
    BY <1>0, SameGivers, GiversFinite
  <2>2. CbUnit(h)' = CbUnit(h) /\ work_list'[h] = work_list[h]
    BY <1>0 DEF CbUnit
  <2>3. CASE h = g
    <3>1. sem'[h] = sem[h] - 1 /\ PopUnit(h)' = 1 /\ PopUnit(h) = 0
      BY <1>0, <2>3 DEF PopUnit, QueueInv, WorkTypeOK
    <3>2. PICK l \in Nat, m \in Nat, c \in Nat, x \in 0 .. 1 :
            l = Len(work_list[h]) /\ m = sem[h] /\ c = Cardinality(Givers(h)) /\ x = CbUnit(h)
      BY <2>1
    <3>3. l - (m - 1) - c - x - 1 = l - m - c - x - 0
      OBVIOUS
    <3> QED BY <2>1, <2>2, <3>1, <3>2, <3>3, Zenon
  <2>4. CASE h # g
    <3>1. sem'[h] = sem[h] /\ PopUnit(h)' = PopUnit(h)
      BY <1>0, <2>4 DEF PopUnit, QueueInv, WorkTypeOK
    <3> QED BY <2>1, <2>2, <3>1
  <2> QED BY <2>3, <2>4
<1> QED BY <1>1, <1>2, <1>3, <1>4, UnitsKept

(* A worker that has taken a unit finds a work. *)
LEMMA WorkThere ==
  ASSUME QueueInv, NEW g \in WorkQueue, wpc[g] = "pop"
  PROVE  /\ work_list[g] \in Seq(Work) /\ work_list[g] # <<>> /\ Linear(work_list[g])
         /\ Head(work_list[g]) \in Work /\ Head(work_list[g]) \in ToSet(work_list[g])
         /\ Tail(work_list[g]) \in Seq(Work) /\ Linear(Tail(work_list[g]))
         /\ ToSet(Tail(work_list[g])) = ToSet(work_list[g]) \ {Head(work_list[g])}
         /\ Len(Tail(work_list[g])) = Len(work_list[g]) - 1
<1>1. /\ work_list[g] \in Seq(Work) /\ Linear(work_list[g])
      /\ Len(work_list[g]) = sem[g] + Owed(g)
  BY DEF QueueInv, WorkTypeOK, ListInv, UnitInv
<1>2. PICK m \in Nat, c \in Nat, x \in 0 .. 1 :
        m = sem[g] /\ c = Cardinality(Givers(g)) /\ x = CbUnit(g)
  BY GiversFinite
<1>3. Owed(g) = c + x + 1
  BY <1>2, OwedParts DEF PopUnit
<1>4. Len(work_list[g]) = m + (c + x + 1)
  BY <1>1, <1>2, <1>3
<1>5. work_list[g] # <<>>
  BY <1>1, <1>4
<1>6. Len(Tail(work_list[g])) = Len(work_list[g]) - 1
  BY <1>1, <1>5
<1> QED BY <1>1, <1>5, <1>6, FirstEntry

(* The worker takes the first entry. *)
LEMMA PopKeeps ==
  ASSUME QueueInv, NEW g \in WorkQueue, WorkerPop(g)
  PROVE  QueueInv'
<1>1. PICK w : w = Head(work_list[g])
  OBVIOUS
<1>0. /\ wpc[g] = "pop" /\ work_list' = [work_list EXCEPT ![g] = Tail(work_list[g])]
      /\ work_current' = [work_current EXCEPT ![g] = w]
      /\ work_exit' = [work_exit EXCEPT ![w] = 0]
      /\ wpc' = [wpc EXCEPT ![g] = "handle"]
      /\ UNCHANGED <<timerVars, sem, wq, appVars, cancelled>>
  BY <1>1 DEF WorkerPop
<1>2. /\ w \in Work /\ w \in ToSet(work_list[g])
      /\ Tail(work_list[g]) \in Seq(Work) /\ Linear(Tail(work_list[g]))
      /\ ToSet(Tail(work_list[g])) = ToSet(work_list[g]) \ {w}
      /\ Len(Tail(work_list[g])) = Len(work_list[g]) - 1
  BY <1>0, <1>1, WorkThere
<1>t. work_list \in [WorkQueue -> Seq(Work)] /\ work_exit \in [Work -> 0 .. 1]
  BY DEF QueueInv, WorkTypeOK
<1>3. WorkTypeOK'
  BY <1>0, <1>2 DEF QueueInv, WorkTypeOK
<1>4. /\ work_list'[g] = Tail(work_list[g])
      /\ \A h \in WorkQueue \ {g} : work_list'[h] = work_list[h]
  BY <1>0, <1>t
<1>5. ListInv'
  <2>1. \A h \in WorkQueue : Linear(work_list'[h])
    BY <1>2, <1>4 DEF QueueInv, ListInv
  <2>2. \A h \in WorkQueue \ {g} : w \notin ToSet(work_list[h])
    BY <1>2 DEF QueueInv, ListInv
  <2>3. \A h \in WorkQueue : ToSet(work_list'[h]) = ToSet(work_list[h]) \ {w}
    BY <1>2, <1>4, <2>2
  <2>4. ASSUME NEW v \in Work
        PROVE  work_exit'[v] = 1 <=> \E h \in WorkQueue : v \in ToSet(work_list'[h])
    BY <1>0, <1>t, <2>3 DEF QueueInv, ListInv
  <2>5. ASSUME NEW h \in WorkQueue, NEW k \in WorkQueue, h # k
        PROVE  ToSet(work_list'[h]) \cap ToSet(work_list'[k]) = {}
    <3>1. ToSet(work_list[h]) \cap ToSet(work_list[k]) = {}
      BY <2>5 DEF QueueInv, ListInv
    <3> QED BY <2>3, <3>1
  <2> QED BY <2>1, <2>4, <2>5 DEF ListInv
<1>6. CallInv'
  BY <1>0 DEF QueueInv, UnitInv, CallInv
<1>7. ASSUME NEW h \in WorkQueue
      PROVE  /\ IsFiniteSet(Givers(h)')
             /\ Len(work_list'[h]) - sem'[h] - Cardinality(Givers(h)') - CbUnit(h)' - PopUnit(h)'
                = Len(work_list[h]) - sem[h] - Cardinality(Givers(h)) - CbUnit(h) - PopUnit(h)
  <2>1. Givers(h)' = Givers(h) /\ IsFiniteSet(Givers(h)) /\ Cardinality(Givers(h)) \in Nat
        /\ Len(work_list[h]) \in Nat /\ sem[h] \in Nat
        /\ CbUnit(h) \in 0 .. 1 /\ PopUnit(h) \in 0 .. 1
    BY <1>0, SameGivers, GiversFinite
  <2>2. CbUnit(h)' = CbUnit(h) /\ sem'[h] = sem[h]
    BY <1>0 DEF CbUnit
  <2>3. CASE h = g
    <3>1. Len(work_list'[h]) = Len(work_list[h]) - 1 /\ PopUnit(h)' = 0 /\ PopUnit(h) = 1
      BY <1>0, <1>2, <1>4, <2>3 DEF PopUnit, QueueInv, WorkTypeOK
    <3>2. PICK l \in Nat, m \in Nat, c \in Nat, x \in 0 .. 1 :
            l = Len(work_list[h]) /\ m = sem[h] /\ c = Cardinality(Givers(h)) /\ x = CbUnit(h)
      BY <2>1
    <3>3. (l - 1) - m - c - x - 0 = l - m - c - x - 1
      OBVIOUS
    <3> QED BY <2>1, <2>2, <3>1, <3>2, <3>3, Zenon
  <2>4. CASE h # g
    <3>1. work_list'[h] = work_list[h] /\ PopUnit(h)' = PopUnit(h)
      BY <1>0, <1>4, <2>4 DEF PopUnit, QueueInv, WorkTypeOK
    <3> QED BY <2>1, <2>2, <3>1
  <2> QED BY <2>3, <2>4
<1> QED BY <1>3, <1>5, <1>6, <1>7, UnitsKept

(* The handler of the work returns. *)
LEMMA DoneKeeps ==
  ASSUME QueueInv, NEW g \in WorkQueue, WorkerDone(g)
  PROVE  QueueInv'
<1>0. /\ wpc[g] = "handle" /\ work_current' = [work_current EXCEPT ![g] = None]
      /\ wpc' = [wpc EXCEPT ![g] = "take"]
      /\ UNCHANGED <<timerVars, work_list, sem, wq, work_exit, appVars, cancelled>>
  BY DEF WorkerDone
<1>1. WorkTypeOK'
  BY <1>0 DEF QueueInv, WorkTypeOK
<1>2. ListInv'
  BY <1>0 DEF QueueInv, ListInv
<1>3. CallInv'
  BY <1>0 DEF QueueInv, UnitInv, CallInv
<1>4. ASSUME NEW h \in WorkQueue
      PROVE  /\ IsFiniteSet(Givers(h)') /\ Givers(h)' = Givers(h)
             /\ work_list'[h] = work_list[h] /\ sem'[h] = sem[h]
             /\ CbUnit(h)' = CbUnit(h) /\ PopUnit(h)' = PopUnit(h)
  <2>1. Givers(h)' = Givers(h) /\ IsFiniteSet(Givers(h))
    BY <1>0, SameGivers, GiversFinite
  <2>2. CbUnit(h)' = CbUnit(h) /\ PopUnit(h)' = PopUnit(h)
    BY <1>0 DEF CbUnit, PopUnit, QueueInv, WorkTypeOK
  <2> QED BY <1>0, <2>1, <2>2
<1> QED BY <1>1, <1>2, <1>3, <1>4, UnitsKept

(* krhino_work_run: the caller owes the unit. *)
LEMMA RunKeeps ==
  ASSUME QueueInv, NEW a \in App, NEW g \in WorkQueue, NEW w \in Work, krhino_work_run(a, g, w)
  PROVE  QueueInv'
<1>0. /\ apc[a] = "user" /\ MayQueue(w, g) /\ Enqueue(w, g)
      /\ apc' = [apc EXCEPT ![a] = "give"] /\ call' = [call EXCEPT ![a] = <<w, g>>]
      /\ UNCHANGED timerVars
  BY DEF krhino_work_run
<1>t. /\ apc \in [App -> {"user", "give", "cancel", "stop"}]
      /\ call \in [App -> (Work \cup {None}) \X (WorkQueue \cup {None})]
  BY DEF QueueInv, WorkTypeOK
<1>1. /\ work_list' \in [WorkQueue -> Seq(Work)]
      /\ wq' \in [Work -> WorkQueue \cup {None}] /\ work_exit' \in [Work -> 0 .. 1]
      /\ cancelled' \subseteq Work /\ UNCHANGED <<work_current, sem, wpc>>
      /\ Len(work_list'[g]) = Len(work_list[g]) + 1
      /\ \A h \in WorkQueue \ {g} : work_list'[h] = work_list[h]
      /\ ListInv'
  BY <1>0, Joined
<1>2. /\ apc' \in [App -> {"user", "give", "cancel", "stop"}]
      /\ call' \in [App -> (Work \cup {None}) \X (WorkQueue \cup {None})]
  BY <1>0, <1>t
<1>3. WorkTypeOK'
  BY <1>1, <1>2 DEF QueueInv, WorkTypeOK
<1>4. CallInv'
  BY <1>0, <1>t DEF QueueInv, UnitInv, CallInv
<1>5. Givers(g)' = Givers(g) \cup {a} /\ a \notin Givers(g)
  BY <1>0, <1>t DEF Givers
<1>6. \A h \in WorkQueue \ {g} : Givers(h)' = Givers(h)
  BY <1>0, <1>t DEF Givers
<1>7. ASSUME NEW h \in WorkQueue
      PROVE  /\ IsFiniteSet(Givers(h)')
             /\ Len(work_list'[h]) - sem'[h] - Cardinality(Givers(h)') - CbUnit(h)' - PopUnit(h)'
                = Len(work_list[h]) - sem[h] - Cardinality(Givers(h)) - CbUnit(h) - PopUnit(h)
  <2>1. IsFiniteSet(Givers(h)) /\ Cardinality(Givers(h)) \in Nat
        /\ Len(work_list[h]) \in Nat /\ sem[h] \in Nat
        /\ CbUnit(h) \in 0 .. 1 /\ PopUnit(h) \in 0 .. 1
    BY GiversFinite
  <2>2. CbUnit(h)' = CbUnit(h) /\ PopUnit(h)' = PopUnit(h) /\ sem'[h] = sem[h]
    BY <1>0, <1>1 DEF CbUnit, PopUnit
  <2>3. CASE h = g
    <3>1. IsFiniteSet(Givers(h)') /\ Cardinality(Givers(h)') = Cardinality(Givers(h)) + 1
      BY <1>5, <2>1, <2>3, FS_AddElement
    <3>2. Len(work_list'[h]) = Len(work_list[h]) + 1
      BY <1>1, <2>3
    <3>3. PICK c \in Nat, cp \in Nat, l \in Nat, m \in Nat, x \in 0 .. 1, y \in 0 .. 1 :
            /\ c = Cardinality(Givers(h)) /\ cp = Cardinality(Givers(h)')
            /\ l = Len(work_list[h]) /\ m = sem[h] /\ x = CbUnit(h) /\ y = PopUnit(h)
      BY <2>1, <3>1, FS_CardinalityType
    <3>4. cp = c + 1
      BY <3>1, <3>3
    <3>5. l + 1 - m - cp - x - y = l - m - c - x - y
      BY <3>4
    <3>6. IsFiniteSet(Givers(h)')
      BY <3>1
    <3>7. PICK lp \in Nat : lp = l + 1
      OBVIOUS
    <3>8. sem'[h] = m /\ Len(work_list'[h]) = lp /\ CbUnit(h)' = x /\ PopUnit(h)' = y
      BY <2>2, <3>2, <3>3, <3>7
    <3>9. lp - m - cp - x - y = l - m - c - x - y
      BY <3>5, <3>7
    <3> QED BY <3>3, <3>6, <3>8, <3>9
  <2>4. CASE h # g
    BY <1>1, <1>6, <2>1, <2>2, <2>4
  <2> QED BY <2>3, <2>4
<1> QED BY <1>1, <1>3, <1>4, <1>7, UnitsKept

(* A unit is given. *)
LEMMA Given ==
  ASSUME QueueInv, NEW g \in WorkQueue, GiveSem(g)
  PROVE  /\ sem' \in [WorkQueue -> Nat] /\ sem'[g] = sem[g] + 1
         /\ \A h \in WorkQueue \ {g} : sem'[h] = sem[h]
         /\ UNCHANGED <<work_list, work_current, wpc, wq, work_exit, cancelled>>
         /\ ListInv'
<1>1. /\ sem' = [sem EXCEPT ![g] = sem[g] + 1]
      /\ UNCHANGED <<work_list, work_current, wpc, wq, work_exit, cancelled>>
  BY DEF GiveSem
<1>2. ListInv'
  BY <1>1 DEF QueueInv, ListInv
<1> QED BY <1>1, <1>2 DEF QueueInv, WorkTypeOK

(* A task gives the unit of the work it has queued. *)
LEMMA RunGiveKeeps ==
  ASSUME QueueInv, NEW a \in App, RunGive(a)
  PROVE  QueueInv'
<1>t. /\ apc \in [App -> {"user", "give", "cancel", "stop"}]
      /\ call \in [App -> (Work \cup {None}) \X (WorkQueue \cup {None})]
  BY DEF QueueInv, WorkTypeOK
<1>0. /\ apc[a] = "give" /\ apc' = [apc EXCEPT ![a] = "user"]
      /\ call' = [call EXCEPT ![a] = <<None, None>>] /\ UNCHANGED timerVars
  BY DEF RunGive
<1>1. PICK g \in WorkQueue : g = call[a][2]
  BY <1>0 DEF QueueInv, UnitInv, CallInv
<1>2. /\ sem' \in [WorkQueue -> Nat] /\ sem'[g] = sem[g] + 1
      /\ \A h \in WorkQueue \ {g} : sem'[h] = sem[h]
      /\ UNCHANGED <<work_list, work_current, wpc, wq, work_exit, cancelled>>
      /\ ListInv'
  BY <1>1, Given DEF RunGive
<1>3. /\ apc' \in [App -> {"user", "give", "cancel", "stop"}]
      /\ call' \in [App -> (Work \cup {None}) \X (WorkQueue \cup {None})]
  BY <1>0, <1>t
<1>4. WorkTypeOK'
  BY <1>2, <1>3 DEF QueueInv, WorkTypeOK
<1>5. CallInv'
  BY <1>0, <1>t DEF QueueInv, UnitInv, CallInv
<1>6. Givers(g)' = Givers(g) \ {a} /\ a \in Givers(g)
  BY <1>0, <1>1, <1>t DEF Givers
<1>7. \A h \in WorkQueue \ {g} : Givers(h)' = Givers(h)
  BY <1>0, <1>1, <1>t DEF Givers
<1>8. ASSUME NEW h \in WorkQueue
      PROVE  /\ IsFiniteSet(Givers(h)')
             /\ Len(work_list'[h]) - sem'[h] - Cardinality(Givers(h)') - CbUnit(h)' - PopUnit(h)'
                = Len(work_list[h]) - sem[h] - Cardinality(Givers(h)) - CbUnit(h) - PopUnit(h)
  <2>1. IsFiniteSet(Givers(h)) /\ Cardinality(Givers(h)) \in Nat
        /\ Len(work_list[h]) \in Nat /\ sem[h] \in Nat
        /\ CbUnit(h) \in 0 .. 1 /\ PopUnit(h) \in 0 .. 1
    BY GiversFinite
  <2>2. CbUnit(h)' = CbUnit(h) /\ PopUnit(h)' = PopUnit(h) /\ work_list'[h] = work_list[h]
    BY <1>0, <1>2 DEF CbUnit, PopUnit
  <2>3. CASE h = g
    <3>1. IsFiniteSet(Givers(h)') /\ Cardinality(Givers(h)') = Cardinality(Givers(h)) - 1
      BY <1>6, <2>1, <2>3, FS_RemoveElement
    <3>2. sem'[h] = sem[h] + 1
      BY <1>2, <2>3
    <3>3. PICK c \in Nat, cp \in Nat, l \in Nat, m \in Nat, x \in 0 .. 1, y \in 0 .. 1 :
            /\ c = Cardinality(Givers(h)) /\ cp = Cardinality(Givers(h)')
            /\ l = Len(work_list[h]) /\ m = sem[h] /\ x = CbUnit(h) /\ y = PopUnit(h)
      BY <2>1, <3>1, FS_CardinalityType
    <3>4. cp = c - 1
      BY <3>1, <3>3
    <3>5. l - (m + 1) - cp - x - y = l - m - c - x - y
      BY <3>4
    <3>6. IsFiniteSet(Givers(h)')
      BY <3>1
    <3>7. sem'[h] = m + 1 /\ Len(work_list'[h]) = l /\ CbUnit(h)' = x /\ PopUnit(h)' = y
      BY <2>2, <3>2, <3>3
    <3> QED BY <3>3, <3>5, <3>6, <3>7
  <2>4. CASE h # g
    BY <1>2, <1>7, <2>1, <2>2, <2>4
  <2> QED BY <2>3, <2>4
<1> QED BY <1>2, <1>4, <1>5, <1>8, UnitsKept

(* The timer of a work fires with the work queue it is meant for. *)
LEMMA CallbackArg ==
  ASSUME TimerInv, tpc \in {"callback", "give"}, q \in Delayed
  PROVE  timer_cb_arg[q] \in WorkQueue
<1>1. Active(q) \/ q = None
  BY DEF TimerInv, ActiveListed, InCbProc
<1>2. q # None
  BY WorkAssumption DEF Delayed
<1> QED BY <1>1, <1>2 DEF TimerInv, CommandInv, Active

(* work_timer_cb: the timer task owes the unit. *)
LEMMA TimerCbKeeps ==
  ASSUME TimerInv, QueueInv, work_timer_cb
  PROVE  TimerInv' /\ QueueInv'
<1>0. /\ tpc = "callback" /\ q \in Delayed /\ tpc' \in {"give", "rearm"}
      /\ UNCHANGED <<listVars, attrVars, lag, g_timer_queue, cb_msg, ticks, q, appVars>>
  BY DEF work_timer_cb
<1>1. TimerInv'
  BY <1>0, CallbackKeeps
<1>2. PICK w \in Delayed, g \in WorkQueue : w = q /\ g = timer_cb_arg[q]
  BY <1>0, CallbackArg
<1>3. CASE ~MayQueue(q, timer_cb_arg[q]) /\ tpc' = "rearm"
           /\ UNCHANGED <<queueVars, wq, work_exit, cancelled>>
  BY <1>0, <1>1, <1>3, QueuesKept DEF QueueInv, WorkTypeOK
<1>4. CASE MayQueue(w, g) /\ Enqueue(w, g) /\ tpc' = "give"
  <2>1. /\ work_list' \in [WorkQueue -> Seq(Work)]
        /\ wq' \in [Work -> WorkQueue \cup {None}] /\ work_exit' \in [Work -> 0 .. 1]
        /\ cancelled' \subseteq Work /\ UNCHANGED <<work_current, sem, wpc>>
        /\ Len(work_list'[g]) = Len(work_list[g]) + 1
        /\ \A h \in WorkQueue \ {g} : work_list'[h] = work_list[h]
        /\ ListInv'
    BY <1>4, Joined DEF Delayed
  <2>2. WorkTypeOK'
    BY <1>0, <2>1 DEF QueueInv, WorkTypeOK
  <2>3. CallInv'
    BY <1>0 DEF QueueInv, UnitInv, CallInv
  <2>4. ASSUME NEW h \in WorkQueue
        PROVE  /\ IsFiniteSet(Givers(h)')
               /\ Len(work_list'[h]) - sem'[h] - Cardinality(Givers(h)') - CbUnit(h)' - PopUnit(h)'
                  = Len(work_list[h]) - sem[h] - Cardinality(Givers(h)) - CbUnit(h) - PopUnit(h)
    <3>1. Givers(h)' = Givers(h) /\ IsFiniteSet(Givers(h)) /\ Cardinality(Givers(h)) \in Nat
          /\ Len(work_list[h]) \in Nat /\ sem[h] \in Nat
          /\ CbUnit(h) \in 0 .. 1 /\ PopUnit(h) \in 0 .. 1
      BY <1>0, SameGivers, GiversFinite
    <3>2. PopUnit(h)' = PopUnit(h) /\ sem'[h] = sem[h]
      BY <2>1 DEF PopUnit
    <3>3. CASE h = g
      <4>1. CbUnit(h)' = 1 /\ CbUnit(h) = 0 /\ Len(work_list'[h]) = Len(work_list[h]) + 1
        BY <1>0, <1>2, <1>4, <2>1, <3>3 DEF CbUnit
      <4> QED BY <3>1, <3>2, <4>1
    <3>4. CASE h # g
      <4>1. CbUnit(h)' = 0 /\ CbUnit(h) = 0 /\ work_list'[h] = work_list[h]
        BY <1>0, <1>2, <1>4, <2>1, <3>4 DEF CbUnit
      <4> QED BY <3>1, <3>2, <4>1
    <3> QED BY <3>3, <3>4
  <2> QED BY <1>1, <2>1, <2>2, <2>3, <2>4, UnitsKept
<1> QED BY <1>2, <1>3, <1>4 DEF work_timer_cb

(* So does the callback of a delayed work. *)
LEMMA CallbackGiveKeeps ==
  ASSUME TimerInv, QueueInv, CallbackGive
  PROVE  TimerInv' /\ QueueInv'
<1>0. /\ tpc = "give" /\ tpc' = "rearm"
      /\ UNCHANGED <<listVars, attrVars, lag, g_timer_queue, cb_msg, ticks, q, appVars>>
  BY DEF CallbackGive
<1>1. TimerInv'
  BY <1>0, GiveKeeps
<1>2. q \in Delayed
  BY <1>0 DEF TimerInv, CommandInv
<1>3. PICK g \in WorkQueue : g = timer_cb_arg[q]
  BY <1>0, <1>2, CallbackArg
<1>4. /\ sem' \in [WorkQueue -> Nat] /\ sem'[g] = sem[g] + 1
      /\ \A h \in WorkQueue \ {g} : sem'[h] = sem[h]
      /\ UNCHANGED <<work_list, work_current, wpc, wq, work_exit, cancelled>>
      /\ ListInv'
  BY <1>3, Given DEF CallbackGive
<1>5. WorkTypeOK'
  BY <1>0, <1>4 DEF QueueInv, WorkTypeOK
<1>6. CallInv'
  BY <1>0 DEF QueueInv, UnitInv, CallInv
<1>7. ASSUME NEW h \in WorkQueue
      PROVE  /\ IsFiniteSet(Givers(h)')
             /\ Len(work_list'[h]) - sem'[h] - Cardinality(Givers(h)') - CbUnit(h)' - PopUnit(h)'
                = Len(work_list[h]) - sem[h] - Cardinality(Givers(h)) - CbUnit(h) - PopUnit(h)
  <2>1. Givers(h)' = Givers(h) /\ IsFiniteSet(Givers(h)) /\ Cardinality(Givers(h)) \in Nat
        /\ Len(work_list[h]) \in Nat /\ sem[h] \in Nat
        /\ CbUnit(h) \in 0 .. 1 /\ PopUnit(h) \in 0 .. 1
    BY <1>0, SameGivers, GiversFinite
  <2>2. PopUnit(h)' = PopUnit(h) /\ work_list'[h] = work_list[h]
    BY <1>4 DEF PopUnit
  <2>3. CASE h = g
    <3>1. CbUnit(h)' = 0 /\ CbUnit(h) = 1 /\ sem'[h] = sem[h] + 1
      BY <1>0, <1>3, <1>4, <2>3 DEF CbUnit
    <3> QED BY <2>1, <2>2, <3>1
  <2>4. CASE h # g
    <3>1. CbUnit(h)' = 0 /\ CbUnit(h) = 0 /\ sem'[h] = sem[h]
      BY <1>0, <1>3, <1>4, <2>4 DEF CbUnit
    <3> QED BY <2>1, <2>2, <3>1
  <2> QED BY <2>3, <2>4
<1> QED BY <1>1, <1>4, <1>5, <1>6, <1>7, UnitsKept

(* krhino_work_run with a delay, and krhino_work_cancel. *)
LEMMA RunDelayedKeeps ==
  ASSUME TimerInv, QueueInv, NEW a \in App, NEW g \in WorkQueue, NEW w \in Work, RunDelayed(a, g, w)
  PROVE  TimerInv' /\ QueueInv'
<1>0. /\ w \in Delayed /\ UNCHANGED <<queueVars, wq, work_exit, appVars>>
      /\ cancelled' = cancelled \ {w}
  BY DEF RunDelayed
<1>1. PICK cmd : cmd = [timer |-> w, cb_num |-> "TIMER_ARG_CHG_AUTO", arg |-> g]
  OBVIOUS
<1>2. cmd \in Commands /\ FromWork(cmd) /\ Send(cmd)
  BY <1>0, <1>1, WorkCommands DEF RunDelayed
<1>3. TimerInv' /\ (tpc' = "give" <=> tpc = "give") /\ UNCHANGED <<timer_cb_arg, q>>
  BY <1>2, SendKeeps
<1>4. cancelled' \subseteq Work
  BY <1>0 DEF QueueInv, WorkTypeOK
<1> QED BY <1>0, <1>3, <1>4, QueuesKept

(* A work without a queue and without a delay only counts as cancelled. *)
LEMMA CancelIdleKeeps ==
  ASSUME TimerInv, QueueInv, NEW a \in App, NEW w \in Work, CancelIdle(a, w)
  PROVE  TimerInv' /\ QueueInv'
<1>1. /\ UNCHANGED <<timerVars, queueVars, wq, work_exit, appVars>>
      /\ cancelled' = cancelled \cup {w}
  BY DEF CancelIdle
<1>2. cancelled' \subseteq Work
  BY <1>1 DEF QueueInv, WorkTypeOK
<1> QED BY <1>1, <1>2, TimersKept, QueuesKept

(* krhino_work_cancel reads the queue of the work. *)
LEMMA CancelReadKeeps ==
  ASSUME QueueInv, NEW a \in App, NEW w \in Work, CancelRead(a, w)
  PROVE  QueueInv'
<1>0. /\ apc[a] = "user" /\ (wq[w] # None \/ w \in Delayed)
      /\ apc' = [apc EXCEPT ![a] = IF wq[w] = None THEN "stop" ELSE "cancel"]
      /\ call' = [call EXCEPT ![a] = <<w, wq[w]>>]
      /\ UNCHANGED <<timerVars, queueVars, wq, work_exit, cancelled>>
  BY DEF CancelRead
<1>t. /\ apc \in [App -> {"user", "give", "cancel", "stop"}]
      /\ call \in [App -> (Work \cup {None}) \X (WorkQueue \cup {None})]
      /\ wq[w] \in WorkQueue \cup {None}
  BY DEF QueueInv, WorkTypeOK
<1>1. WorkTypeOK'
  BY <1>0, <1>t DEF QueueInv, WorkTypeOK
<1>2. CallInv'
  BY <1>0, <1>t DEF QueueInv, UnitInv, CallInv
<1>3. \A h \in WorkQueue : Givers(h)' = Givers(h)
  BY <1>0, <1>t DEF Givers
<1> QED BY <1>0, <1>1, <1>2, <1>3, UnitsAlone

(* Of a delayed work without a queue the timer is stopped, or its queue is full. *)
LEMMA CancelStopKeeps ==
  ASSUME TimerInv, QueueInv, NEW a \in App, CancelStop(a)
  PROVE  TimerInv' /\ QueueInv'
<1>1. PICK w : w = call[a][1]
  OBVIOUS
<1>0. /\ apc[a] = "stop" /\ UNCHANGED <<queueVars, wq, work_exit>>
      /\ cancelled' = cancelled \cup {w}
      /\ apc' = [apc EXCEPT ![a] = "user"] /\ call' = [call EXCEPT ![a] = <<None, None>>]
      /\ Send([timer |-> w, cb_num |-> "TIMER_CMD_STOP"]) \/ UNCHANGED timerVars
  BY <1>1 DEF CancelStop
<1>t. /\ apc \in [App -> {"user", "give", "cancel", "stop"}]
      /\ call \in [App -> (Work \cup {None}) \X (WorkQueue \cup {None})]
      /\ cancelled \subseteq Work
  BY DEF QueueInv, WorkTypeOK
<1>2. w \in Delayed /\ w \in Work
  BY <1>0, <1>1 DEF QueueInv, UnitInv, CallInv, Delayed
<1>3. TimerInv' /\ (tpc' = "give" <=> tpc = "give") /\ UNCHANGED <<timer_cb_arg, q>>
  <2>1. CASE Send([timer |-> w, cb_num |-> "TIMER_CMD_STOP"])
    <3>1. PICK cmd : cmd = [timer |-> w, cb_num |-> "TIMER_CMD_STOP"]
      OBVIOUS
    <3>2. cmd \in Commands /\ FromWork(cmd) /\ Send(cmd)
      BY <1>2, <2>1, <3>1, StopCommand
    <3> QED BY <3>2, SendKeeps
  <2>2. CASE UNCHANGED timerVars
    BY <2>2, TimersKept DEF timerVars, listVars, attrVars
  <2> QED BY <1>0, <2>1, <2>2
<1>4. WorkTypeOK'
  BY <1>0, <1>2, <1>t DEF QueueInv, WorkTypeOK
<1>5. CallInv'
  BY <1>0, <1>t DEF QueueInv, UnitInv, CallInv
<1>6. \A h \in WorkQueue : Givers(h)' = Givers(h)
  BY <1>0, <1>t DEF Givers
<1> QED BY <1>0, <1>3, <1>4, <1>5, <1>6, UnitsAlone

(* What krhino_work_cancel does in its critical section. *)
LEMMA CancelStep ==
  ASSUME QueueInv, NEW a \in App, krhino_work_cancel(a), NEW w, w = call[a][1]
  PROVE  /\ apc[a] = "cancel" /\ w \in Work /\ call[a][2] \in WorkQueue
         /\ UNCHANGED <<timerVars, queueVars, work_exit>>
         /\ apc' = [apc EXCEPT ![a] = "user"] /\ call' = [call EXCEPT ![a] = <<None, None>>]
         /\ \/ /\ MayQueue(w, call[a][2])
               /\ wq' = [wq EXCEPT ![w] = None] /\ cancelled' = cancelled \cup {w}
            \/ UNCHANGED <<wq, cancelled>>
<1>1. apc[a] = "cancel"
  BY DEF krhino_work_cancel
<1>2. w \in Work /\ call[a][2] \in WorkQueue
  BY <1>1 DEF QueueInv, UnitInv, CallInv
<1>3. /\ apc' = [apc EXCEPT ![a] = "user"] /\ call' = [call EXCEPT ![a] = <<None, None>>]
      /\ UNCHANGED <<timerVars, work_current, sem, wpc, work_exit>>
      /\ \/ /\ MayQueue(w, call[a][2]) /\ work_list' = Unlinked(w)
            /\ wq' = [wq EXCEPT ![w] = None] /\ cancelled' = cancelled \cup {w}
         \/ UNCHANGED <<work_list, wq, cancelled>>
  BY DEF krhino_work_cancel
<1>4. MayQueue(w, call[a][2]) => Unlinked(w) = work_list
  BY <1>2, OnNoList DEF MayQueue
<1> QED BY <1>1, <1>2, <1>3, <1>4

(* krhino_work_cancel takes the work off its list. *)
LEMMA CancelKeeps ==
  ASSUME QueueInv, NEW a \in App, krhino_work_cancel(a)
  PROVE  QueueInv'
<1>1. PICK w : w = call[a][1]
  OBVIOUS
<1>2. /\ apc[a] = "cancel" /\ w \in Work
      /\ UNCHANGED <<timerVars, queueVars, work_exit>>
      /\ apc' = [apc EXCEPT ![a] = "user"] /\ call' = [call EXCEPT ![a] = <<None, None>>]
      /\ \/ wq' = [wq EXCEPT ![w] = None] /\ cancelled' = cancelled \cup {w}
         \/ UNCHANGED <<wq, cancelled>>
  BY <1>1, CancelStep
<1>t. /\ apc \in [App -> {"user", "give", "cancel", "stop"}]
      /\ call \in [App -> (Work \cup {None}) \X (WorkQueue \cup {None})]
      /\ wq \in [Work -> WorkQueue \cup {None}] /\ cancelled \subseteq Work
  BY DEF QueueInv, WorkTypeOK
<1>3. wq' \in [Work -> WorkQueue \cup {None}] /\ cancelled' \subseteq Work
  BY <1>2, <1>t
<1>4. WorkTypeOK'
  BY <1>2, <1>3, <1>t DEF QueueInv, WorkTypeOK
<1>5. CallInv'
  BY <1>2, <1>t DEF QueueInv, UnitInv, CallInv
<1>6. \A h \in WorkQueue : Givers(h)' = Givers(h)
  BY <1>2, <1>t DEF Givers
<1> QED BY <1>2, <1>4, <1>5, <1>6, UnitsAlone

------------------------------------------------------------------------------
(* The invariant. *)

(* In the beginning there are no timers and no works queued. *)
LEMMA WorkInit ==
  Init => TimerInv /\ QueueInv
<1> SUFFICES ASSUME Init PROVE TimerInv /\ QueueInv
  OBVIOUS
<1> USE DEF Init, TimerInit
<1>0. Linear(<<>>) /\ \A S : <<>> \in Seq(S)
  BY DEF Linear
<1>1. ToSet(<<>>) = {}
  BY EntrySet, <1>0
<1>2. TimerTypeOK
  BY <1>0, TimerAssumption DEF TimerTypeOK, Forever
<1>3. ActiveListed
  BY <1>0, <1>1 DEF ActiveListed, Active, InCbProc
<1>4. CommandInv
  BY <1>1 DEF CommandInv, Active, Delayed
<1>5. WorkTypeOK
  BY <1>0 DEF WorkTypeOK
<1>6. ListInv
  BY <1>0, <1>1 DEF ListInv
<1>7. ASSUME NEW g \in WorkQueue PROVE IsFiniteSet(Givers(g)) /\ Len(work_list[g]) = sem[g] + Owed(g)
  <2>1. Givers(g) = {}
    BY DEF Givers
  <2>2. IsFiniteSet(Givers(g)) /\ Cardinality(Givers(g)) = 0
    BY <2>1, FS_EmptySet
  <2>3. CbUnit(g) = 0 /\ PopUnit(g) = 0
    BY DEF CbUnit, PopUnit
  <2>4. Owed(g) = 0
    BY <2>2, <2>3, OwedParts
  <2> QED BY <2>2, <2>4
<1>8. UnitInv
  BY <1>7 DEF UnitInv, CallInv
<1> QED BY <1>2, <1>3, <1>4, <1>5, <1>6, <1>8 DEF TimerInv, QueueInv

(* Every step of the timer task keeps the invariant. *)
LEMMA TimerNextKeeps ==
  ASSUME TimerInv, QueueInv, TimerNext
  PROVE  TimerInv' /\ QueueInv'
<1>t. QueueInv => cancelled \subseteq Work
  BY DEF QueueInv, WorkTypeOK
<1>1. CASE TimerTask /\ UNCHANGED workVars
  <2>1. TimerInv' /\ tpc' # "give" /\ tpc # "give"
    BY <1>1, RecvKeeps, CommandKeeps, HeadKeeps, CbKeeps, RearmKeeps DEF TimerTask
  <2> QED BY <1>1, <1>t, <2>1, QueuesKept
<1>2. CASE q \notin Work /\ TimerCallback /\ UNCHANGED workVars
  <2>1. /\ tpc = "callback" /\ tpc' = "rearm"
        /\ UNCHANGED <<listVars, attrVars, lag, g_timer_queue, cb_msg, ticks, q>>
    BY <1>2 DEF TimerCallback
  <2>2. TimerInv'
    BY <2>1, CallbackKeeps
  <2> QED BY <1>2, <1>t, <2>1, <2>2, QueuesKept
<1>3. CASE work_timer_cb
  BY <1>3, TimerCbKeeps
<1>4. CASE CallbackGive
  BY <1>4, CallbackGiveKeeps
<1> QED BY <1>1, <1>2, <1>3, <1>4 DEF TimerNext

(* So does every call of a timer function. *)
LEMMA AppTimerKeeps ==
  ASSUME TimerInv, QueueInv, UsedInv, AppTimer
  PROVE  TimerInv' /\ QueueInv'
<1>t. cancelled \subseteq Work /\ UNCHANGED workVars
  BY DEF QueueInv, WorkTypeOK, AppTimer
<1>1. PICK t \in Timer \ Work : Command(t) \/ krhino_timer_create(t)
  BY WorkAssumption DEF AppTimer, UsedInv
<1>2. CASE Command(t)
  <2>1. PICK cmd \in Commands : cmd.timer = t /\ Send(cmd)
    BY <1>2 DEF Command
  <2>2. FromWork(cmd)
    BY <2>1 DEF FromWork, Delayed
  <2>3. TimerInv' /\ (tpc' = "give" <=> tpc = "give") /\ UNCHANGED <<timer_cb_arg, q>>
    BY <2>1, <2>2, SendKeeps
  <2> QED BY <1>t, <2>3, QueuesKept
<1>3. CASE krhino_timer_create(t)
  <2>1. /\ TimerInv' /\ UNCHANGED <<tpc, q>>
        /\ \A w \in Delayed : timer_cb_arg'[w] = timer_cb_arg[w]
    BY <1>3, CreateKeeps
  <2>2. tpc = "give" => q \in Delayed
    BY DEF TimerInv, CommandInv
  <2> QED BY <1>t, <2>1, <2>2, QueuesKept
<1> QED BY <1>1, <1>2, <1>3

(* So does every step. *)
LEMMA WorkStep ==
  TimerInv /\ QueueInv /\ UsedInv /\ [Next]_vars => TimerInv' /\ QueueInv' /\ UsedInv'
<1> SUFFICES ASSUME TimerInv, QueueInv, UsedInv, [Next]_vars
             PROVE  TimerInv' /\ QueueInv' /\ UsedInv'
  OBVIOUS
<1>u. UsedInv'
  BY DEF UsedInv, Next, vars
<1>t. cancelled \subseteq Work
  BY DEF QueueInv, WorkTypeOK
<1>1. ASSUME TimerNext PROVE TimerInv' /\ QueueInv'
  BY <1>1, TimerNextKeeps
<1>2. ASSUME Tick /\ UNCHANGED workVars PROVE TimerInv' /\ QueueInv'
  <2>1. TimerInv' /\ (tpc' = "give" <=> tpc = "give") /\ UNCHANGED <<timer_cb_arg, q>>
    BY <1>2, TickKeeps
  <2> QED BY <1>2, <1>t, <2>1, QueuesKept
<1>3. ASSUME AppTimer PROVE TimerInv' /\ QueueInv'
  BY <1>3, AppTimerKeeps
<1>4. ASSUME NEW g \in WorkQueue, WorkerNext(g) PROVE TimerInv' /\ QueueInv'
  <2>1. UNCHANGED timerVars
    BY <1>4 DEF WorkerNext, WorkerTake, WorkerPop, WorkerDone
  <2>2. TimerInv'
    BY <2>1, TimersKept
  <2> QED BY <1>4, <2>2, TakeKeeps, PopKeeps, DoneKeeps DEF WorkerNext
<1>5. ASSUME NEW a \in App, NEW w \in Work, NEW g \in WorkQueue, krhino_work_run(a, g, w)
      PROVE  TimerInv' /\ QueueInv'
  <2>1. UNCHANGED timerVars
    BY <1>5 DEF krhino_work_run
  <2>2. TimerInv'
    BY <2>1, TimersKept
  <2> QED BY <1>5, <2>2, RunKeeps
<1>6. ASSUME NEW a \in App, NEW w \in Work, CancelRead(a, w) PROVE TimerInv' /\ QueueInv'
  <2>1. UNCHANGED timerVars
    BY <1>6 DEF CancelRead
  <2>2. TimerInv'
    BY <2>1, TimersKept
  <2> QED BY <1>6, <2>2, CancelReadKeeps
<1>7. ASSUME NEW a \in App, AppReturn(a) PROVE TimerInv' /\ QueueInv'
  <2>1. ASSUME RunGive(a) \/ krhino_work_cancel(a) PROVE TimerInv'
    <3>1. UNCHANGED timerVars
      BY <2>1 DEF RunGive, krhino_work_cancel
    <3> QED BY <3>1, TimersKept
  <2> QED BY <1>7, <2>1, RunGiveKeeps, CancelKeeps, CancelStopKeeps DEF AppReturn
<1>8. ASSUME NEW a \in App, AppCall(a) PROVE TimerInv' /\ QueueInv'
  BY <1>5, <1>6, <1>8, RunDelayedKeeps, CancelIdleKeeps DEF AppCall
<1>9. ASSUME UNCHANGED vars PROVE TimerInv' /\ QueueInv'
  <2>1. UNCHANGED timerVars /\ UNCHANGED workVars
    BY <1>9 DEF vars
  <2>2. TimerInv'
    BY <2>1, TimersKept
  <2>3. cancelled' \subseteq Work
    BY <1>t, <2>1
  <2> QED BY <2>1, <2>2, <2>3, QueuesKept
<1> QED BY <1>u, <1>1, <1>2, <1>3, <1>4, <1>7, <1>8, <1>9 DEF Next

------------------------------------------------------------------------------
(* The properties. *)

(* So it holds in every state. *)
LEMMA WorkInvariant ==
  Spec => [](TimerInv /\ QueueInv /\ UsedInv)
<1>1. Init => UsedInv
  BY DEF Init, UsedInv
<1> QED BY <1>1, WorkInit, WorkStep, PTL DEF Spec

(* Every variable keeps its type: the timer list holds timers, a work list works,
   the command queue commands and no more than its length, and the semaphore of a
   work queue never goes below zero. *)
THEOREM WorkTypeCorrect == Spec => []TypeOK
<1>1. TimerInv /\ QueueInv /\ UsedInv => TypeOK
  BY DEF TimerInv, QueueInv, UsedInv, WorkTypeOK, TypeOK
<1> QED BY <1>1, WorkInvariant, PTL

(* Whatever commands are under way and wherever the timer task is between its
   steps, g_timer_head links exactly the active timers, each once, all of them
   exist, and timer_cb_proc never follows the link of a timer that was taken off. *)
THEOREM ActiveTimersListed == Spec => []ActiveListed
<1>1. TimerInv /\ QueueInv => ActiveListed
  BY DEF TimerInv
<1> QED BY <1>1, WorkInvariant, PTL

(* A list that is linked to from one work queue at most. *)
LEMMA QueuedOnce ==
  ASSUME QueueInv, NEW w \in Work
  PROVE  Cardinality(Queued(w)) = work_exit[w]
<1>1. Queued(w) = {g \in WorkQueue : w \in ToSet(work_list[g])}
  BY EntrySet DEF Queued, QueueInv, WorkTypeOK
<1>2. /\ work_exit[w] \in 0 .. 1
      /\ work_exit[w] = 1 <=> \E g \in WorkQueue : w \in ToSet(work_list[g])
      /\ \A g, h \in WorkQueue : g # h => ToSet(work_list[g]) \cap ToSet(work_list[h]) = {}
  BY DEF QueueInv, WorkTypeOK, ListInv
<1>3. CASE work_exit[w] = 1
  <2>1. PICK g \in WorkQueue : w \in ToSet(work_list[g])
    BY <1>2, <1>3
  <2>2. Queued(w) = {g}
    BY <1>1, <1>2, <2>1
  <2> QED BY <1>3, <2>2, FS_Singleton
<1>4. CASE work_exit[w] # 1
  <2>1. Queued(w) = {} /\ work_exit[w] = 0
    BY <1>1, <1>2, <1>4
  <2> QED BY <2>1, FS_EmptySet
<1> QED BY <1>3, <1>4

(* However many tasks, delayed works and workers are between the critical section
   of krhino_work_run and its krhino_sem_give, or between the semaphore and the
   list, each entry of a work list has its unit: worker_task never takes an entry
   from an empty list and no entry is left without a unit.  A work is on one list
   at most, once, and work_exit says whether. *)
THEOREM UnitsMatch == Spec => []QueueMatch
<1>1. TimerInv /\ QueueInv => QueueMatch
  <2> SUFFICES ASSUME TimerInv, QueueInv PROVE QueueMatch
    OBVIOUS
  <2>1. \A g \in WorkQueue : Linear(work_list[g]) /\ Len(work_list[g]) = sem[g] + Owed(g)
    BY DEF QueueInv, ListInv, UnitInv
  <2>2. \A w \in Work : Cardinality(Queued(w)) = work_exit[w]
    BY QueuedOnce
  <2>3. \A w \in Delayed : Active(w) => timer_cb_arg[w] \in WorkQueue
    BY DEF TimerInv, CommandInv
  <2> QED BY <2>1, <2>2, <2>3 DEF QueueMatch
<1> QED BY <1>1, WorkInvariant, PTL
==============================================================================
