----------------------------- MODULE MCRhinoIpc -----------------------------
(***************************************************************************)
(* Instances of RhinoIpc: lengths of two bytes, and a ring that messages   *)
(* of one and of three bytes fill and break in different ways.             *)
(***************************************************************************)
EXTENDS RhinoIpc

CONSTANTS t1, t2, a, b, c, f1, f2

Lens == a :> 1 @@ b :> 3 @@ c :> 3
Asked == {<<{f1}, "RHINO_AND">>, <<{f1, f2}, "RHINO_OR">>,
          <<{f1}, "RHINO_OR_CLEAR">>, <<{f1, f2}, "RHINO_AND_CLEAR">>}

(* The tasks are alike, and so are the two long messages. *)
Alike == Permutations({t1, t2}) \cup Permutations({b, c})
=============================================================================
