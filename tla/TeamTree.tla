------------------------------ MODULE TeamTree ------------------------------
(***************************************************************************)
(* The tree of teams: teams.parent_id, and the handlers that create, edit  *)
(* and delete teams.                                                       *)
(*                                                                         *)
(* HandleCreateTeam and HandleUpdateTeam read all teams (ListTeams), check *)
(* the parent asked for against what they read, and write in a second,     *)
(* separate statement.  The names, types and texts of teams, and the       *)
(* checks on them, are abstracted away.                                    *)
(***************************************************************************)
CONSTANTS
  Team,         \* team ids
  Root,         \* parent[t] = Root: team t has no parent
  Unborn, Gone, \* parent[t] of an id not used yet, and of a deleted team
  Req,          \* request slots
  Editors       \* the slots that serve edits; all serve creations

ASSUME ConstantsAssumption ==
  /\ {Root, Unborn, Gone} \cap Team = {}
  /\ Root # Unborn /\ Root # Gone /\ Unborn # Gone
  /\ Editors \subseteq Req

VARIABLES
  parent, \* parent[t]: parent_id of team t
  pc,     \* pc[r]: "idle", or the statement that the request in slot r is about to run
  team,   \* team[r]: the team it edits
  wish    \* wish[r]: the parent it was asked for

vars == <<parent, pc, team, wish>>

Live(t) == parent[t] \notin {Unborn, Gone}

-----------------------------------------------------------------------------
\* childrenMap[t].  Mutant, in place of Walk or Descendants: only the children.
ChildrenOf(tree, t) == {u \in Team : tree[u] = t}

\* collectDescendants: its walk goes depth first, over the children still to do,
\* with one set of visited teams for all of its calls.
Walk(tree, t) ==
  LET after[visit \in (SUBSET Team) \X (SUBSET Team)] ==
        LET todo == visit[1]
            visited == visit[2]
            child == CHOOSE u \in todo : TRUE
            below == after[<<ChildrenOf(tree, child), visited \cup {child}>>]
        IN IF todo = {} THEN visited
           ELSE IF child \in visited THEN after[<<todo \ {child}, visited>>]
           ELSE after[<<todo \ {child}, below>>]
  IN after[<<ChildrenOf(tree, t), {}>>]

\* What it finds: the least set that holds the children of t and the children of
\* its members.
ClosedUnderChildren(tree, t, S) == \A u \in Team : tree[u] \in S \cup {t} => u \in S

Descendants(tree, t) ==
  {u \in Team : \A S \in SUBSET Team : ClosedUnderChildren(tree, t, S) => u \in S}

\* The teams that the hierarchies built from the roots show: buildTeamNode,
\* buildTeamManagementRows and appendTeamSummary walk down from the roots.
Listed(tree) ==
  LET roots == {t \in Team : tree[t] = Root}
  IN roots \cup UNION {Descendants(tree, t) : t \in roots}

-----------------------------------------------------------------------------
\* ListTeams and the checks on its result; a request refused changes nothing
\* and is no step.

\* teamExists, or no parent at all.
KnownParent(p) == p = Root \/ (p \in Team /\ Live(p))

SubmitNewTeam(r, p) ==
  /\ pc[r] = "idle"
  /\ KnownParent(p)
  /\ pc' = [pc EXCEPT ![r] = "insert"]
  /\ wish' = [wish EXCEPT ![r] = p]
  /\ UNCHANGED <<parent, team>>

\* Mutant: a team may be its own parent.
SubmitEditUnderItself(r, t, p) ==
  /\ r \in Editors
  /\ pc[r] = "idle"
  /\ KnownParent(p) /\ p \notin Descendants(parent, t)
  /\ pc' = [pc EXCEPT ![r] = "update"]
  /\ team' = [team EXCEPT ![r] = t]
  /\ wish' = [wish EXCEPT ![r] = p]
  /\ UNCHANGED parent

SubmitEdit(r, t, p) ==
  /\ r \in Editors
  /\ pc[r] = "idle"
  /\ KnownParent(p) /\ p # t /\ p \notin Descendants(parent, t)
  /\ pc' = [pc EXCEPT ![r] = "update"]
  /\ team' = [team EXCEPT ![r] = t]
  /\ wish' = [wish EXCEPT ![r] = p]
  /\ UNCHANGED parent

-----------------------------------------------------------------------------
\* The write.  The foreign key refuses a parent that is gone by now, and an
\* UPDATE of a team that is gone by now changes no row; the request ends anyway.

End(r) ==
  /\ pc' = [pc EXCEPT ![r] = "idle"]
  /\ team' = [team EXCEPT ![r] = Root]
  /\ wish' = [wish EXCEPT ![r] = Root]

InsertTeam(r) ==
  /\ pc[r] = "insert"
  /\ \/ /\ KnownParent(wish[r])
        /\ \E t \in Team : parent[t] = Unborn /\ parent' = [parent EXCEPT ![t] = wish[r]]
     \/ /\ ~KnownParent(wish[r])
        /\ UNCHANGED parent
  /\ End(r)

UpdateTeam(r) ==
  /\ pc[r] = "update"
  /\ \/ /\ KnownParent(wish[r]) /\ Live(team[r])
        /\ parent' = [parent EXCEPT ![team[r]] = wish[r]]
     \/ /\ ~(KnownParent(wish[r]) /\ Live(team[r]))
        /\ UNCHANGED parent
  /\ End(r)

\* Mutant: no ON DELETE SET NULL.
DeleteTeamKeepsChildren(t) ==
  /\ Live(t)
  /\ parent' = [parent EXCEPT ![t] = Gone]
  /\ UNCHANGED <<pc, team, wish>>

\* Mutant: the children are moved up to the parent of t.
DeleteTeamLiftsChildren(t) ==
  /\ Live(t)
  /\ parent' = [u \in Team |-> IF u = t THEN Gone
                               ELSE IF parent[u] = t THEN parent[t] ELSE parent[u]]
  /\ UNCHANGED <<pc, team, wish>>

\* HandleDeleteTeam is one DELETE; ON DELETE SET NULL makes its children roots.
DeleteTeam(t) ==
  /\ Live(t)
  /\ parent' = [u \in Team |-> IF u = t THEN Gone
                               ELSE IF parent[u] = t THEN Root ELSE parent[u]]
  /\ UNCHANGED <<pc, team, wish>>

\* The client disconnects, or the server stops, between the two statements.
Abandon(r) ==
  /\ pc[r] # "idle"
  /\ End(r)
  /\ UNCHANGED parent

-----------------------------------------------------------------------------
\* Properties

\* Every variable has its type.
TypeOK ==
  /\ parent \in [Team -> Team \cup {Root, Unborn, Gone}]
  /\ pc \in [Req -> {"idle", "insert", "update"}]
  /\ team \in [Req -> Team \cup {Root}]
  /\ wish \in [Req -> Team \cup {Root}]

\* A parent is a team that exists.
ParentsLive == \A t \in Team : parent[t] \in Team => Live(parent[t])

\* "The tree must not contain cycles": no team is reached again by following
\* parents, i.e. no nonempty set of teams holds the parents of all its members.
Acyclic == \A S \in SUBSET Team : (\A t \in S : parent[t] \in S) => S = {}

\* The hierarchies that the pages and the API build show every team.
AllListed == \A t \in Team : Live(t) => t \in Listed(parent)

\* An edit that passed its checks still has them satisfied when it writes,
\* although the tree may have changed since it was read.
ChecksStillHold ==
  \A r \in Req : pc[r] = "update" /\ wish[r] \in Team
    => wish[r] # team[r] /\ wish[r] \notin Descendants(parent, team[r])

\* collectDescendants' walk, which marks the teams it has visited, finds exactly
\* the descendants: in the tree as it is, and in every graph that a single
\* unchecked edit makes of it, with a cycle or without.
WalkFindsDescendants ==
  \A t, p \in Team :
    LET tree == [parent EXCEPT ![t] = p]
    IN \A u \in Team : /\ Walk(parent, u) = Descendants(parent, u)
                       /\ Walk(tree, u) = Descendants(tree, u)

-----------------------------------------------------------------------------
\* Any tree: what the application starts with is what it left in the database.
Init ==
  /\ parent \in [Team -> Team \cup {Root, Unborn}]
  /\ ParentsLive
  /\ Acyclic
  /\ pc = [r \in Req |-> "idle"]
  /\ team = [r \in Req |-> Root]
  /\ wish = [r \in Req |-> Root]

Next ==
  \/ \E r \in Req : \/ \E p \in Team \cup {Root} : SubmitNewTeam(r, p)
                    \/ \E t \in Team, p \in Team \cup {Root} : SubmitEdit(r, t, p)
                    \/ InsertTeam(r)
                    \/ UpdateTeam(r)
                    \/ Abandon(r)
  \/ \E t \in Team : DeleteTeam(t)

Spec == Init /\ [][Next]_vars

\* The hierarchy that the parents stand for.
teams == {t \in Team : Live(t)}

gone == {t \in Team : parent[t] = Gone}

above == UNION {{t} \X Descendants(parent, t) : t \in Team}

AsForest == INSTANCE Forest WITH teams <- teams, gone <- gone, above <- above

\* Teams are added to a hierarchy, moved about in it and removed from it, though
\* an edit checks the tree in one statement and writes in another.
ImplementsForest == AsForest!Spec

=============================================================================
