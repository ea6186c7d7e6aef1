---------------------------- MODULE MCTeamPeriod -----------------------------
(***************************************************************************)
(* A small period under which TLC checks TeamPeriod.                       *)
(***************************************************************************)
EXTENDS TeamPeriod

CONSTANTS t1, t2, r1

\* t1 owns the goals but the last, numbered from 1.  Either t2 shares the first and
\* both are past no_goals, or t2 is still to be created.
Seeded ==
  LET new == CHOOSE g \in Goal : \A h \in Goal : h <= g
      Seed(there, n, s) ==
        /\ teams = there
        /\ place = [g \in Goal |-> [t \in Team |-> IF g = 1 /\ t = t2 THEN n ELSE NoPlace]]
        /\ status = [t \in Team |-> s]
  IN /\ removed = {}
     /\ owner = [g \in Goal |-> IF g = new THEN Unborn ELSE t1]
     /\ order = [g \in Goal |-> IF g = new THEN 0 ELSE g]
     /\ \/ Seed({t1, t2}, 1, "in_progress")
        \/ Seed({t1}, NoPlace, "no_goals")

\* Bounds: goals are created for t1, once per slot; of the statuses, one that a new
\* goal moves to forming and one that locks the page are chosen.
Bounded ==
  /\ \A r \in Req : pc[r] \in {"done", "failed"} => pc'[r] = pc[r]
  /\ \A r \in Req : team'[r] \in {NoTeam, t1}
  /\ \A t \in Team : chosen'[t] = chosen[t] \/ chosen'[t] \in {"no_goals", "closed"}

SeededInit == Seeded /\ Init

SeededSpec == SeededInit /\ [][Next /\ Bounded]_vars

=============================================================================
