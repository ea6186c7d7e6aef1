----------------------------- MODULE MCTeamTree -----------------------------
(***************************************************************************)
(* Small trees, on which the model checker runs TeamTree.                  *)
(***************************************************************************)
EXTENDS TeamTree, TLC

Symmetric == Permutations(Team)

=============================================================================
