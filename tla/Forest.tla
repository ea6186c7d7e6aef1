------------------------------- MODULE Forest -------------------------------
(***************************************************************************)
(* What TeamTree promises: a hierarchy of teams, given by who stands above *)
(* whom, directly or not.  A team is added below another one or at the     *)
(* top, moves with everybody below it to a place outside, and is removed,  *)
(* which lifts its children, and all below them, to the top.               *)
(***************************************************************************)
CONSTANT Team

VARIABLES
  teams, \* the teams there are
  gone,  \* the teams removed
  above  \* the pairs <<u, t>> in which u stands above t

vars == <<teams, gone, above>>

Above(t) == {u \in Team : <<u, t>> \in above}

Below(t) == {u \in Team : <<t, u>> \in above}

\* A strict order in which the teams above a team form a chain.
IsForest ==
  /\ \A t \in Team : <<t, t>> \notin above
  /\ \A t, u, v \in Team : <<t, u>> \in above /\ <<u, v>> \in above => <<t, v>> \in above
  /\ \A t \in Team : \A u, v \in Above(t) : u = v \/ <<u, v>> \in above \/ <<v, u>> \in above

Init ==
  /\ teams \subseteq Team
  /\ gone = {}
  /\ above \subseteq teams \X teams
  /\ IsForest

\* A place is given by the teams above it: none, or a team and those above it.
Places == {{}} \cup {{p} \cup Above(p) : p \in teams}

Add(t) ==
  /\ t \notin teams \cup gone
  /\ teams' = teams \cup {t}
  /\ UNCHANGED gone
  /\ \E P \in Places : above' = above \cup (P \X {t})

Move(t) ==
  /\ t \in teams
  /\ UNCHANGED <<teams, gone>>
  /\ LET whole == {t} \cup Below(t)
     IN \E P \in Places :
          /\ P \cap whole = {}
          /\ above' = (above \ (Above(t) \X whole)) \cup (P \X whole)

Remove(t) ==
  /\ t \in teams
  /\ teams' = teams \ {t}
  /\ gone' = gone \cup {t}
  /\ above' = ((above \ (Above(t) \X Below(t))) \ ({t} \X Team)) \ (Team \X {t})

Next == \E t \in Team : Add(t) \/ Move(t) \/ Remove(t)

Spec == Init /\ [][Next]_vars

=============================================================================
