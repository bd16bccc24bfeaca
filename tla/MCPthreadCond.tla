---------------------------- MODULE MCPthreadCond ----------------------------
(***************************************************************************)
(* Small instances of the condition variable for TLC.                      *)
(***************************************************************************)
EXTENDS PthreadCond

CONSTANTS c1, c2, c3, c4, c5   \* the threads

(* Waiters without a time limit. *)
UntimedCalls == [t \in Thread |-> CASE t \in {c1, c2, c5} -> {"wait"}
                                    [] t = c3         -> {"signal"}
                                    [] OTHER          -> {"broadcast"}]

(* One waiter with a time limit. *)
TimedCalls == [t \in Thread |-> CASE t = c1 -> {"wait", "timedwait"}
                                  [] t = c2 -> {"signal"}
                                  [] t = c3 -> {"signal", "broadcast"}
                                  [] OTHER  -> {}]

(* The programs that never get stuck. *)
GoodUses == {UntimedCalls, TimedCalls}

(* Two waiters, with a time limit or without, and a signaller. *)
TimedPairCalls == [t \in Thread |-> CASE t = c1 -> {"timedwait"}
                                      [] t = c2 -> {"wait"}
                                      [] OTHER  -> {"signal"}]
TimedPair == {TimedPairCalls}

(* A waiter whose time is up in the tick of the call. *)
ZeroCalls == [t \in Thread |-> CASE t = c1 -> {"zerowait"}
                                 [] t = c2 -> {"wait"}
                                 [] OTHER  -> {"signal"}]
ZeroUse == {ZeroCalls}
==============================================================================
