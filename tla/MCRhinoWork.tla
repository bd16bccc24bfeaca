---------------------------- MODULE MCRhinoWork ----------------------------
(***************************************************************************)
(* Small instances of the software timers and the work queues for TLC.     *)
(***************************************************************************)
EXTENDS RhinoWork

CONSTANTS d1, w1, tm1, tm2   \* a delayed work, which is a timer too, a work, two timers

MCInitCount  == [t \in Timer |-> IF t = tm1 THEN 1 ELSE 2]
MCRoundTicks == [t \in Timer |-> IF t = tm1 THEN 1 ELSE 0]

(* A change into a timer that fires once. *)
MCChanges == {<<2, 0>>}

(* A program with two timers of its own, and one with works. *)
TimersOrWorks == {{tm1, tm2}, {d1, w1}}
TwoQueues     == {{w1}}
==============================================================================
