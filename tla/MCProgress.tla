----------------------------- MODULE MCProgress -----------------------------
(***************************************************************************)
(* Weights under which TLC checks Progress: of none, and of some, of the   *)
(* key results.                                                            *)
(***************************************************************************)
EXTENDS Progress

Weighing(m, p, b) == [metric |-> m, project |-> p, boolean |-> b]

SomeWeights == {Weighing(0, 0, 0), Weighing(60, 0, 40)}

=============================================================================
