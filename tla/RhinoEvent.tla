----------------------------- MODULE RhinoEvent -----------------------------
(***************************************************************************)
(* The event flags of k_event.c: a word of flags as the set of its bits.   *)
(***************************************************************************)
EXTENDS RhinoWait

CONSTANTS
  Flag,      \* the bits
  Requests   \* what the program asks for: pairs of flags and an option

VARIABLES
  flags,                     \* event->flags
  pend_flags, pend_option,   \* what each task has asked for
  actl_flags                 \* what its last call was told; none while it waits

eventVars == <<flags, pend_flags, pend_option, actl_flags>>

Options == {"RHINO_AND", "RHINO_OR", "RHINO_AND_CLEAR", "RHINO_OR_CLEAR"}
AndMask == {"RHINO_AND", "RHINO_AND_CLEAR"}
ClearMask == {"RHINO_AND_CLEAR", "RHINO_OR_CLEAR"}

ASSUME RequestsAssumption == Requests \subseteq (SUBSET Flag) \X Options

EventInit ==
  /\ flags = {}
  /\ pend_flags = [t \in Task |-> {}]
  /\ pend_option = [t \in Task |-> "RHINO_OR"]
  /\ actl_flags = [t \in Task |-> {}]

(* Do these flags meet the request f with option opt? *)
Meets(now, f, opt) == IF opt \in AndMask THEN f \subseteq now ELSE now \cap f # {}

(* What is left of the flags when the request was met. *)
Cleared(now, f, opt) == IF opt \in ClearMask THEN now \ f ELSE now

-----------------------------------------------------------------------------
krhino_event_create ==
  /\ Create("RHINO_EVENT_OBJ_TYPE")
  /\ flags' \in SUBSET Flag
  /\ UNCHANGED <<pend_flags, pend_option, actl_flags>>

IsEvent == Quiet /\ obj_type = "RHINO_EVENT_OBJ_TYPE"

(* krhino_event_get: the flags are there, or the task waits.  RHINO_NO_WAIT and a
   locked scheduler change nothing then. *)
GetNow(t, f, opt) ==
  /\ IsEvent /\ pc[t] = "run" /\ Meets(flags, f, opt)
  /\ actl_flags' = [actl_flags EXCEPT ![t] = flags]
  /\ flags' = Cleared(flags, f, opt)
  /\ UNCHANGED <<waitVars, pend_flags, pend_option>>

(* Faulty: a request for all of its flags waits without a look at them. *)
GetWaitAnd(t, f, opt) ==
  /\ IsEvent /\ pc[t] = "run" /\ (opt \in AndMask \/ ~Meets(flags, f, opt))
  /\ pend_flags' = [pend_flags EXCEPT ![t] = f]
  /\ pend_option' = [pend_option EXCEPT ![t] = opt]
  /\ actl_flags' = [actl_flags EXCEPT ![t] = {}]
  /\ pend_to_blk_obj(t)
  /\ UNCHANGED <<obj_type, cs, flags>>

GetWait(t, f, opt) ==
  /\ IsEvent /\ pc[t] = "run" /\ ~Meets(flags, f, opt)
  /\ pend_flags' = [pend_flags EXCEPT ![t] = f]
  /\ pend_option' = [pend_option EXCEPT ![t] = opt]
  /\ actl_flags' = [actl_flags EXCEPT ![t] = {}]
  /\ pend_to_blk_obj(t)
  /\ UNCHANGED <<obj_type, cs, flags>>

GetEnd(t) == pend_state_end_proc(t) /\ UNCHANGED eventVars

krhino_event_get(t) ==
  \/ \E r \in Requests : GetNow(t, r[1], r[2]) \/ GetWait(t, r[1], r[2])
  \/ GetEnd(t)

(* event_set by a task or an interrupt handler: with RHINO_AND flags are cleared, with
   RHINO_OR they are set and every waiter is looked at with the same snapshot. *)
SetAnd(f) ==
  /\ IsEvent
  /\ flags' = flags \cap f
  /\ UNCHANGED <<waitVars, pend_flags, pend_option, actl_flags>>

SetOr(f) ==
  /\ IsEvent
  /\ flags' = flags \cup f
  /\ cs' = Loop("event_set", blk_list, flags')
  /\ UNCHANGED <<obj_type, blk_list, prio, pc, ticking, pend_flags, pend_option, actl_flags>>

(* Faulty: a waiter is told the flags that the waiters before it have left. *)
SetTellsLeft ==
  /\ cs.op = "event_set" /\ cs.iter # <<>>
  /\ LET t == Head(cs.iter)
         f == pend_flags[t]
     IN  \/ /\ Meets(cs.arg, f, pend_option[t])
            /\ actl_flags' = [actl_flags EXCEPT ![t] = flags]
            /\ Wake(t, "BLK_FINISH")
            /\ flags' = Cleared(flags, f, pend_option[t])
         \/ /\ ~Meets(cs.arg, f, pend_option[t])
            /\ UNCHANGED <<actl_flags, blk_list, prio, pc, ticking, flags>>
  /\ cs' = [cs EXCEPT !.iter = Tail(@)]
  /\ UNCHANGED <<obj_type, pend_flags, pend_option>>

SetNext ==
  /\ cs.op = "event_set" /\ cs.iter # <<>>
  /\ LET t == Head(cs.iter)
         f == pend_flags[t]
     IN  \/ /\ Meets(cs.arg, f, pend_option[t])
            /\ actl_flags' = [actl_flags EXCEPT ![t] = cs.arg]
            /\ Wake(t, "BLK_FINISH")
            /\ flags' = Cleared(flags, f, pend_option[t])
         \/ /\ ~Meets(cs.arg, f, pend_option[t])
            /\ UNCHANGED <<actl_flags, blk_list, prio, pc, ticking, flags>>
  /\ cs' = [cs EXCEPT !.iter = Tail(@)]
  /\ UNCHANGED <<obj_type, pend_flags, pend_option>>

SetEnd ==
  /\ cs.op = "event_set" /\ cs.iter = <<>>
  /\ cs' = NoCs
  /\ UNCHANGED <<obj_type, blk_list, prio, pc, ticking, eventVars>>

krhino_event_set == (\E f \in SUBSET Flag : SetAnd(f) \/ SetOr(f)) \/ SetNext \/ SetEnd

krhino_event_del ==
  \/ (DelBegin \/ DelWake) /\ UNCHANGED eventVars
  \/ DelEnd /\ flags' = {} /\ UNCHANGED <<pend_flags, pend_option, actl_flags>>

EventNext ==
  \/ krhino_event_create \/ krhino_event_del \/ krhino_event_set
  \/ \E t \in Task : krhino_event_get(t)
  \/ WaitNext /\ UNCHANGED eventVars

-----------------------------------------------------------------------------
EventTypeOK ==
  /\ flags \in SUBSET Flag
  /\ pend_flags \in [Task -> SUBSET Flag]
  /\ pend_option \in [Task -> Options]
  /\ actl_flags \in [Task -> SUBSET Flag]

(* No waiter is overlooked: outside of event_set no task sleeps although the flags
   meet its request, whatever the waiters in front of it have cleared. *)
NoMissedWakeup ==
  IsEvent => \A t \in Task : pc[t] = "pend" => ~Meets(flags, pend_flags[t], pend_option[t])

(* A task whose wait has finished was told flags that do meet its request. *)
AnswerSound ==
  kind = "event" =>
    \A t \in Task : pc[t] = "BLK_FINISH" => Meets(actl_flags[t], pend_flags[t], pend_option[t])
=============================================================================
