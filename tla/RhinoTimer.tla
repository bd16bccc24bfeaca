----------------------------- MODULE RhinoTimer -----------------------------
(***************************************************************************)
(* The software timers of k_timer.c.  Every function of the API but create *)
(* only sends a command to the timer task, which alone works on the list   *)
(* of active timers.  The timer task is one of many: ticks may pass        *)
(* between any two of its steps.                                           *)
(***************************************************************************)
EXTENDS RhinoList

CONSTANTS
  Timer,
  None,
  Args,        \* the arguments of callbacks
  InitCount,   \* init_count and round_ticks of each timer at its creation
  RoundTicks,
  Changes,     \* the pairs <<first, round>> krhino_timer_change is called with
  MsgNum,      \* RHINO_CONFIG_TIMER_MSG_NUM
  TimeWrap,    \* the number of values of a sys_time_t
  LateMax      \* the ticks that may pass in timer_cb_proc

ASSUME TimerAssumption ==
  /\ None \notin Timer \cup Args
  /\ {MsgNum, TimeWrap} \subseteq Nat \ {0}
  /\ LateMax \in Nat
  /\ InitCount \in [Timer -> Nat \ {0}] /\ RoundTicks \in [Timer -> Nat]
  /\ Changes \subseteq (Nat \ {0}) \X Nat

VARIABLES
  g_timer_head,   \* the list of active timers
  due,            \* match - g_tick_count of an active timer, else 0
  lag,            \* g_tick_count - g_timer_count, while timer_cb_proc runs
  timer_state, obj_type,
  init_count, round_ticks, timer_cb_arg,
  g_timer_queue,  \* the commands under way
  tpc,            \* where the timer task is
  cb_msg,         \* the command it has received, or None
  ticks,          \* how long it waits for a command
  q               \* the entry timer_cb_proc is at

attrVars  == <<obj_type, init_count, round_ticks, timer_cb_arg>>
listVars  == <<g_timer_head, due, timer_state>>
taskVars  == <<tpc, cb_msg, ticks, q>>
timerVars == <<listVars, attrVars, lag, g_timer_queue, taskVars>>

Forever == 0   \* RHINO_WAIT_FOREVER as an argument of recv, which gets no 0

Commands ==
  [timer : Timer, cb_num : {"TIMER_CMD_START", "TIMER_CMD_STOP", "TIMER_CMD_DEL"}]
  \cup [timer : Timer, cb_num : {"TIMER_CMD_CHG"}, change : Changes]
  \cup [timer : Timer, cb_num : {"TIMER_ARG_CHG", "TIMER_ARG_CHG_AUTO"}, arg : Args]

(* ktimer_init has run and every timer is created. *)
TimerInit ==
  /\ g_timer_head = <<>>
  /\ due = [t \in Timer |-> 0]
  /\ lag = 0
  /\ timer_state = [t \in Timer |-> "TIMER_DEACTIVE"]
  /\ obj_type = [t \in Timer |-> "RHINO_TIMER_OBJ_TYPE"]
  /\ init_count = InitCount
  /\ round_ticks = RoundTicks
  /\ timer_cb_arg = [t \in Timer |-> None]
  /\ g_timer_queue = <<>>
  /\ tpc = "recv" /\ cb_msg = None /\ ticks = Forever /\ q = None

------------------------------------------------------------------------------
(* The API, called by any task and by callbacks. *)

(* Faulty: a full ring is not noticed. *)
SendUnchecked(cmd) ==
  /\ \/ /\ tpc = "blocked"
        /\ tpc' = "command" /\ cb_msg' = cmd
        /\ UNCHANGED g_timer_queue
     \/ /\ tpc # "blocked" /\ Len(g_timer_queue) <= MsgNum
        /\ g_timer_queue' = Append(g_timer_queue, cmd)
        /\ UNCHANGED <<tpc, cb_msg>>
  /\ UNCHANGED <<listVars, attrVars, lag, ticks, q>>

(* krhino_buf_queue_send: a timer task that waits gets the command at once,
   else it is put into the ring; RHINO_BUF_QUEUE_FULL changes nothing. *)
Send(cmd) ==
  /\ \/ /\ tpc = "blocked"
        /\ tpc' = "command" /\ cb_msg' = cmd
        /\ UNCHANGED g_timer_queue
     \/ /\ tpc # "blocked" /\ Len(g_timer_queue) < MsgNum
        /\ g_timer_queue' = Append(g_timer_queue, cmd)
        /\ UNCHANGED <<tpc, cb_msg>>
  /\ UNCHANGED <<listVars, attrVars, lag, ticks, q>>

(* krhino_timer_start, _stop, _change, _arg_change, _arg_change_auto, and _del or
   _dyn_del, whichever belongs to the way the timer was created. *)
Command(t) == \E cmd \in Commands : cmd.timer = t /\ Send(cmd)

(* krhino_timer_create, of a timer that does not exist; to run it at once is to
   start it. *)
krhino_timer_create(t) ==
  /\ obj_type[t] = "RHINO_OBJ_TYPE_NONE"
  /\ obj_type' = [obj_type EXCEPT ![t] = "RHINO_TIMER_OBJ_TYPE"]
  /\ init_count' = [init_count EXCEPT ![t] = InitCount[t]]
  /\ round_ticks' = [round_ticks EXCEPT ![t] = RoundTicks[t]]
  /\ timer_cb_arg' = [timer_cb_arg EXCEPT ![t] = None]
  /\ UNCHANGED <<listVars, lag, g_timer_queue, taskVars>>

------------------------------------------------------------------------------
(* The list. *)

(* timer_list_pri_insert: in front of the first timer that has more than val
   ticks left from g_timer_count on.  The difference is unsigned. *)
timer_list_pri_insert(s, d, now, t, val) ==
  InsertAt(s, FirstAbove(s, [u \in Timer |-> (d[u] + now) % TimeWrap], val), t)

Exists(t) == obj_type[t] = "RHINO_TIMER_OBJ_TYPE"
Active(t) == timer_state[t] = "TIMER_ACTIVE"

(* The list without t, and t on it for val ticks. *)
Stopped(t) == IF Active(t) THEN klist_rm(g_timer_head, t) ELSE g_timer_head
StartOn(s, t, val) ==
  /\ due' = [due EXCEPT ![t] = val]
  /\ g_timer_head' = timer_list_pri_insert(s, due, 0, t, val)
  /\ timer_state' = [timer_state EXCEPT ![t] = "TIMER_ACTIVE"]

------------------------------------------------------------------------------
(* cmd_proc, a disjunct for each command that has an effect in the state the
   timer is in by now. *)

CmdStart(t) ==
  /\ Exists(t) /\ ~Active(t)
  /\ StartOn(g_timer_head, t, init_count[t])
  /\ UNCHANGED attrVars

(* Faulty: the timer stays on the list. *)
StopKeepsLink(t) ==
  /\ Exists(t) /\ Active(t)
  /\ timer_state' = [timer_state EXCEPT ![t] = "TIMER_DEACTIVE"]
  /\ UNCHANGED <<g_timer_head, due, attrVars>>

CmdStop(t) ==
  /\ Exists(t) /\ Active(t)
  /\ g_timer_head' = Stopped(t)
  /\ due' = [due EXCEPT ![t] = 0]
  /\ timer_state' = [timer_state EXCEPT ![t] = "TIMER_DEACTIVE"]
  /\ UNCHANGED attrVars

CmdChange(t, change) ==
  /\ Exists(t) /\ ~Active(t)
  /\ init_count' = [init_count EXCEPT ![t] = change[1]]
  /\ round_ticks' = [round_ticks EXCEPT ![t] = change[2]]
  /\ UNCHANGED <<listVars, obj_type, timer_cb_arg>>

CmdArgChange(t, arg) ==
  /\ Exists(t) /\ ~Active(t)
  /\ timer_cb_arg' = [timer_cb_arg EXCEPT ![t] = arg]
  /\ UNCHANGED <<listVars, obj_type, init_count, round_ticks>>

CmdDel(t) ==
  /\ Exists(t) /\ ~Active(t)
  /\ obj_type' = [obj_type EXCEPT ![t] = "RHINO_OBJ_TYPE_NONE"]
  /\ UNCHANGED <<listVars, init_count, round_ticks, timer_cb_arg>>

(* TIMER_ARG_CHG_AUTO: stop, change and start in one command. *)
CmdArgChangeAuto(t, arg) ==
  /\ Exists(t)
  /\ timer_cb_arg' = [timer_cb_arg EXCEPT ![t] = arg]
  /\ StartOn(Stopped(t), t, init_count[t])
  /\ UNCHANGED <<obj_type, init_count, round_ticks>>

CmdEffect(cmd) ==
  \/ cmd.cb_num = "TIMER_CMD_START" /\ CmdStart(cmd.timer)
  \/ cmd.cb_num = "TIMER_CMD_STOP" /\ CmdStop(cmd.timer)
  \/ cmd.cb_num = "TIMER_CMD_CHG" /\ CmdChange(cmd.timer, cmd.change)
  \/ cmd.cb_num = "TIMER_ARG_CHG" /\ CmdArgChange(cmd.timer, cmd.arg)
  \/ cmd.cb_num = "TIMER_CMD_DEL" /\ CmdDel(cmd.timer)
  \/ cmd.cb_num = "TIMER_ARG_CHG_AUTO" /\ CmdArgChangeAuto(cmd.timer, cmd.arg)

Ignored(cmd) ==
  \/ ~Exists(cmd.timer)
  \/ cmd.cb_num = "TIMER_CMD_STOP" /\ ~Active(cmd.timer)
  \/ cmd.cb_num \notin {"TIMER_CMD_STOP", "TIMER_ARG_CHG_AUTO"} /\ Active(cmd.timer)

timer_cmd_proc(cmd) ==
  \/ CmdEffect(cmd)
  \/ Ignored(cmd) /\ UNCHANGED <<listVars, attrVars>>

------------------------------------------------------------------------------
(* timer_task. *)

(* krhino_buf_queue_recv, with a time limit while there are active timers. *)
TimerRecv ==
  /\ tpc = "recv"
  /\ \/ /\ g_timer_queue # <<>>
        /\ cb_msg' = Head(g_timer_queue)
        /\ g_timer_queue' = Tail(g_timer_queue)
        /\ tpc' = "command"
     \/ /\ g_timer_queue = <<>>
        /\ tpc' = "blocked"
        /\ UNCHANGED <<cb_msg, g_timer_queue>>
  /\ UNCHANGED <<listVars, attrVars, lag, ticks, q>>

First(s) == IF s = <<>> THEN None ELSE Head(s)

(* Faulty: after a command the task waits for the next without a look at the
   list. *)
CommandNoLook ==
  /\ tpc = "command"
  /\ IF cb_msg = None THEN UNCHANGED <<listVars, attrVars>> ELSE timer_cmd_proc(cb_msg)
  /\ tpc' = "recv"
  /\ cb_msg' = None /\ ticks' = Forever /\ lag' = 0
  /\ UNCHANGED <<g_timer_queue, q>>

(* The command, or the end of the wait, at the present tick. *)
TimerCommand ==
  /\ tpc = "command"
  /\ IF cb_msg = None THEN UNCHANGED <<listVars, attrVars>> ELSE timer_cmd_proc(cb_msg)
  /\ IF ticks = Forever
     THEN tpc' = "head" /\ UNCHANGED q
     ELSE tpc' = "cb" /\ q' = First(g_timer_head')
  /\ cb_msg' = None /\ ticks' = Forever /\ lag' = 0
  /\ UNCHANGED g_timer_queue

(* The loop over the active timers: wait for the first, or serve it. *)
TimerHead ==
  /\ tpc = "head"
  /\ LET t == First(g_timer_head) IN
     IF t = None \/ due[t] > 0
     THEN /\ tpc' = "recv"
          /\ ticks' = IF t = None THEN Forever ELSE due[t]
          /\ UNCHANGED <<lag, q>>
     ELSE tpc' = "cb" /\ q' = t /\ lag' = 0 /\ UNCHANGED ticks
  /\ UNCHANGED <<listVars, attrVars, g_timer_queue, cb_msg>>

InCbProc == tpc \in {"cb", "callback", "give", "rearm"}

(* timer_cb_proc: the timer at q has come due, or the loop ends. *)
TimerCb ==
  /\ tpc = "cb"
  /\ IF q # None /\ due[q] + lag <= 0
     THEN tpc' = "callback" /\ UNCHANGED q
     ELSE tpc' = "head" /\ q' = None
  /\ UNCHANGED <<listVars, attrVars, lag, g_timer_queue, cb_msg, ticks>>

(* The callback of a timer of the application returns. *)
TimerCallback ==
  /\ tpc = "callback"
  /\ tpc' = "rearm"
  /\ UNCHANGED <<listVars, attrVars, lag, g_timer_queue, cb_msg, ticks, q>>

(* Where q->next leads, for the entry t of s. *)
NextOf(s, t) ==
  LET i == CHOOSE i \in 1 .. Len(s) : s[i] = t
  IN  IF i = Len(s) THEN None ELSE s[i + 1]

(* After the callback a periodic timer goes to its new place on the list, where
   the loop follows it; the entry of another timer is unlinked and keeps its
   next. *)
TimerRearm ==
  LET s == klist_rm(g_timer_head, q)
      p == timer_list_pri_insert(s, due, lag, q, round_ticks[q])
  IN
  /\ tpc = "rearm"
  /\ IF round_ticks[q] > 0
     THEN /\ due' = [due EXCEPT ![q] = round_ticks[q] - lag]
          /\ g_timer_head' = p
          /\ q' = NextOf(p, q)
          /\ UNCHANGED timer_state
     ELSE /\ due' = [due EXCEPT ![q] = 0]
          /\ g_timer_head' = s
          /\ q' = NextOf(g_timer_head, q)
          /\ timer_state' = [timer_state EXCEPT ![q] = "TIMER_DEACTIVE"]
  /\ tpc' = "cb"
  /\ UNCHANGED <<attrVars, lag, g_timer_queue, cb_msg, ticks>>

TimerTask == TimerRecv \/ TimerCommand \/ TimerHead \/ TimerCb \/ TimerRearm

(* A tick, which ends the wait of the timer task when its time is up.  Ticks may
   come at any time; LateMax bounds those during timer_cb_proc, and how long ago
   a timer was due is not told apart beyond it. *)
Tick ==
  /\ InCbProc => lag < LateMax
  /\ lag' = IF InCbProc THEN lag + 1 ELSE 0
  /\ due' = [t \in Timer |-> IF Active(t) /\ due[t] >= 0 - LateMax THEN due[t] - 1
                             ELSE due[t]]
  /\ ticks' = IF tpc = "blocked" /\ ticks > 1 THEN ticks - 1 ELSE ticks
  /\ tpc' = IF tpc = "blocked" /\ ticks = 1 THEN "command" ELSE tpc
  /\ UNCHANGED <<g_timer_head, timer_state, attrVars, g_timer_queue, cb_msg, q>>

------------------------------------------------------------------------------
(* Correctness. *)

TimerTypeOK ==
  /\ g_timer_head \in Seq(Timer)
  /\ due \in [Timer -> Int] /\ lag \in 0 .. LateMax
  /\ timer_state \in [Timer -> {"TIMER_ACTIVE", "TIMER_DEACTIVE"}]
  /\ obj_type \in [Timer -> {"RHINO_TIMER_OBJ_TYPE", "RHINO_OBJ_TYPE_NONE"}]
  /\ init_count \in [Timer -> Nat \ {0}] /\ round_ticks \in [Timer -> Nat]
  /\ timer_cb_arg \in [Timer -> Args \cup {None}]
  /\ g_timer_queue \in Seq(Commands) /\ Len(g_timer_queue) <= MsgNum
  /\ tpc \in {"recv", "blocked", "command", "head", "cb", "callback", "give", "rearm"}
  /\ cb_msg \in Commands \cup {None} /\ ticks \in Nat /\ q \in Timer \cup {None}

(* g_timer_head links the active timers that exist, each once, and the loop of
   timer_cb_proc never leaves it: a timer that was stopped or has run out is not
   served again, none that is active is lost, and a command that was overtaken by
   another, such as the start of a timer deleted meanwhile, does no harm. *)
ActiveListed ==
  /\ Linear(g_timer_head)
  /\ ToSet(g_timer_head) = {t \in Timer : Active(t)}
  /\ \A t \in Timer : Active(t) => Exists(t)
  /\ InCbProc => q = None \/ Active(q)

(* "sort by remain time" (cmd_proc): the list of active timers is sorted, so that
   timer_task may wait for its first entry and timer_cb_proc may stop at the first
   that is not due. *)
TimersSorted == Sorted(g_timer_head, due)

Starts == {"TIMER_CMD_START", "TIMER_ARG_CHG_AUTO"}

(* An active timer is served in the end by timer_task, or stopped, unless timers
   are started over and over. *)
TimerFires ==
  \A t \in Timer :
    []<>( \/ ~Active(t)
          \/ tpc = "callback" /\ q = t
          \/ tpc = "command" /\ cb_msg # None /\ cb_msg.cb_num \in Starts )
==============================================================================
