------------------------------ MODULE TeamPeriod ------------------------------
(***************************************************************************)
(* One period as its pages show it: which goals a team sees, in which      *)
(* order, with which other teams, and the status of the period for it.     *)
(*                                                                         *)
(* Goals are created by HandleCreateGoal, statement by statement, which    *)
(* also moves the status from no_goals to forming.  Every other request    *)
(* that writes goals, goal_shares, teams or team_period_statuses is one    *)
(* action here; their statements interleave in GoalShares, SortOrder and   *)
(* TeamTree.  The period itself may be deleted, with all that is in it.    *)
(*                                                                         *)
(* A load of the page of one team (GetTeamOKR) or of the table of all      *)
(* teams (GetTeamsWithPeriodSummary) is a series of queries without a      *)
(* transaction, with those writes in between.  Loads write nothing, so one *)
(* stands for all.  From a loaded page a client may save a goal's form.    *)
(***************************************************************************)
EXTENDS Integers, FiniteSets

CONSTANTS
  Team, Goal,    \* ids, never used twice
  Unborn, Gone,  \* "owner" of an id not used yet, and of a deleted goal
  NoTeam,        \* the team of an idle slot or load
  NoPlace,       \* "sort_order" of a share that does not exist
  Req,           \* slots of requests that create a goal
  MaxWrites      \* bound: writes other than those of the slots and the form

Status == {"no_goals", "forming", "in_progress", "validated", "closed"}

ASSUME ConstantsAssumption ==
  /\ Goal \subseteq Nat
  /\ Unborn \notin Team /\ Gone \notin Team /\ NoTeam \notin Team /\ Unborn # Gone
  /\ NoPlace \notin Int
  /\ IsFiniteSet(Team) /\ Team \cap Goal = {}
  /\ MaxWrites \in Nat

VARIABLES
  teams,     \* the teams that exist
  removed,   \* those that were deleted
  ended,     \* whether the period was deleted
  owner,     \* owner[g]: goals.team_id, Unborn or Gone
  order,     \* order[g]: goals.sort_order
  place,     \* place[g][t]: goal_shares.sort_order, or NoPlace
  status,    \* status[t]: GetTeamPeriodStatus
  writes,    \* writes so far, up to MaxWrites
  chosen,    \* history: chosen[t], the status last chosen for t
  overtaken, \* history: slots for whose team a status was chosen after they read it
  overruled, \* history: teams whose status an overtaken slot has written
  pc,        \* pc[r]: the next statement of the request in slot r
  team,      \* team[r]: the team to create a goal for
  read,      \* read[r]: the status it read
  lpc,       \* the next query of the load, or "idle", "done"
  kind,      \* "page" or "table"
  at,        \* the team whose row is being built; of a page, its team
  known,     \* the teams of the table's ListTeams
  drawn,     \* the teams whose rows were begun
  rest,      \* goals of that row whose shares are still to be read
  shareIDs,  \* teamIDs: team ids whose names are still to be read
  listed,    \* listed[t]: the goals of t's row
  key,       \* key[t][g]: their team_sort_order
  from,      \* from[t][g]: their team_id
  sharers,   \* sharers[t][g]: their share_teams
  shown,     \* shown[t]: the status of t's row
  touched,   \* history: goals and teams written since the load began
  epc,       \* the next statement of the saved form, or "idle"
  form,      \* its goal and whether it has a team_id
  wrote      \* the row whose weight it has written: "none", "goal", "share"

goalVars   == <<teams, removed, ended, owner, order, place>>
statusVars == <<status, chosen, overtaken, overruled>>
slotVars   == <<pc, team, read>>
pageVars   == <<listed, key, from, sharers, shown>>
loadVars   == <<lpc, kind, at, known, drawn, rest, shareIDs, pageVars>>
formVars   == <<epc, form, wrote>>
vars == <<goalVars, statusVars, writes, slotVars, loadVars, touched, formVars>>

Live(g) == owner[g] \in Team

\* ListGoalsByTeamPeriod: WHERE, and the column team_sort_order.
Sees(t, g) == Live(g) /\ (owner[g] = t \/ place[g][t] # NoPlace)

Key(t, g) == IF place[g][t] # NoPlace THEN place[g][t] ELSE order[g]

SharedTo(g) == {t \in Team : place[g][t] # NoPlace}

Viewers(g) == {t \in Team : Sees(t, g)}

\* The order of a list with these keys: ORDER BY team_sort_order, g.id.
Above(k, g, h) == k[g] < k[h] \/ (k[g] = k[h] /\ g < h)

\* A write by one of the atomic requests.
Write(changed) ==
  /\ writes < MaxWrites
  /\ writes' = writes + 1
  /\ touched' = touched \cup changed
  /\ UNCHANGED <<slotVars, loadVars, formVars>>

-----------------------------------------------------------------------------
\* HandleCreateGoal

StartCreate(r, t) ==
  /\ pc[r] \in {"idle", "done", "failed"}
  /\ pc' = [pc EXCEPT ![r] = "status"]
  /\ team' = [team EXCEPT ![r] = t]
  /\ UNCHANGED <<goalVars, statusVars, writes, read, loadVars, touched, formVars>>

Finish(r, outcome) ==
  /\ pc' = [pc EXCEPT ![r] = outcome]
  /\ team' = [team EXCEPT ![r] = NoTeam]
  /\ read' = [read EXCEPT ![r] = "no_goals"]

ReadStatus(r) ==
  /\ pc[r] = "status"
  /\ \/ /\ status[team[r]] = "closed"
        /\ Finish(r, "failed")
     \/ /\ status[team[r]] # "closed"
        /\ read' = [read EXCEPT ![r] = status[team[r]]]
        /\ pc' = [pc EXCEPT ![r] = "insert"]
        /\ UNCHANGED team
  /\ overtaken' = overtaken \ {r}
  /\ UNCHANGED <<goalVars, status, chosen, overruled, writes, loadVars, touched, formVars>>

\* COALESCE(MAX(sort_order), 0) + 1 over the goals that t owns.
IsNextOrder(t, n) ==
  LET mine == {order[g] : g \in {h \in Goal : owner[h] = t}}
  IN IF mine = {} THEN n = 1 ELSE n - 1 \in mine /\ \A o \in mine : o < n

\* What a row of goals or team_period_statuses refers to.
Refers(t) == t \in teams /\ ~ended

\* CreateGoal; the foreign keys refuse a team or a period that is gone.
CreateGoal(t, g) ==
  /\ Refers(t)
  /\ owner[g] = Unborn
  /\ \E n \in {1} \cup {order[h] + 1 : h \in Goal} :
       IsNextOrder(t, n) /\ order' = [order EXCEPT ![g] = n]
  /\ owner' = [owner EXCEPT ![g] = t]
  /\ touched' = touched \cup {g}

\* Mutants: the status is always set, and never.
InsertGoalForms(r) ==
  /\ pc[r] = "insert"
  /\ \E g \in Goal : CreateGoal(team[r], g)
  /\ pc' = [pc EXCEPT ![r] = "forming"]
  /\ UNCHANGED <<team, read, teams, removed, ended, place, statusVars, writes, loadVars, formVars>>

InsertGoalOnly(r) ==
  /\ pc[r] = "insert"
  /\ \E g \in Goal : CreateGoal(team[r], g)
  /\ Finish(r, "done")
  /\ UNCHANGED <<teams, removed, ended, place, statusVars, writes, loadVars, formVars>>

InsertGoal(r) ==
  /\ pc[r] = "insert"
  /\ \/ /\ ~Refers(team[r])
        /\ Finish(r, "failed")
        /\ UNCHANGED <<owner, order, touched>>
     \/ /\ \E g \in Goal : CreateGoal(team[r], g)
        /\ \/ /\ read[r] = "no_goals"
              /\ pc' = [pc EXCEPT ![r] = "forming"]
              /\ UNCHANGED <<team, read>>
           \/ read[r] # "no_goals" /\ Finish(r, "done")
  /\ UNCHANGED <<teams, removed, ended, place, statusVars, writes, loadVars, formVars>>

SetForming(r) ==
  /\ pc[r] = "forming"
  /\ LET t == team[r]
     IN \/ /\ ~Refers(t)
           /\ Finish(r, "failed")
           /\ UNCHANGED <<statusVars, touched>>
        \/ /\ Refers(t)
           /\ Finish(r, "done")
           /\ status' = [status EXCEPT ![t] = "forming"]
           /\ overruled' = IF r \in overtaken THEN overruled \cup {t} ELSE overruled
           /\ touched' = touched \cup {t}
           /\ UNCHANGED <<chosen, overtaken>>
  /\ UNCHANGED <<goalVars, writes, loadVars, formVars>>

\* The client disconnects or the server stops: the next statement is not run.
Abandon(r) ==
  /\ pc[r] \in {"status", "insert", "forming"}
  /\ Finish(r, "failed")
  /\ UNCHANGED <<goalVars, statusVars, writes, loadVars, touched, formVars>>

-----------------------------------------------------------------------------
\* The other writes

InFlight(t) == {r \in Req : team[r] = t /\ pc[r] \in {"insert", "forming"}}

SetTeamPeriodStatus(t, s) ==
  /\ Refers(t)
  /\ Write({t})
  /\ status' = [status EXCEPT ![t] = s]
  /\ chosen' = [chosen EXCEPT ![t] = s]
  /\ overtaken' = overtaken \cup InFlight(t)
  /\ overruled' = overruled \ {t}
  /\ UNCHANGED goalVars

CreateTeam(t) ==
  /\ t \notin teams \cup removed
  /\ Write({t})
  /\ teams' = teams \cup {t}
  /\ UNCHANGED <<removed, ended, owner, order, place, statusVars>>

\* Mutant: goal_shares.team_id lacks ON DELETE CASCADE.
DeleteTeamKeepsShares(t) ==
  /\ t \in teams
  /\ LET owned == {g \in Goal : owner[g] = t}
     IN /\ Write({t} \cup owned)
        /\ owner' = [g \in Goal |-> IF g \in owned THEN Gone ELSE owner[g]]
        /\ place' = [g \in Goal |-> IF g \in owned THEN [u \in Team |-> NoPlace] ELSE place[g]]
  /\ teams' = teams \ {t}
  /\ removed' = removed \cup {t}
  /\ UNCHANGED <<ended, order, statusVars>>

\* The team's goals go with it, from the lists of the teams they are shared to
\* too, and so do its shares and its status.
DeleteTeam(t) ==
  /\ t \in teams
  /\ LET owned == {g \in Goal : owner[g] = t}
     IN /\ Write({t} \cup {g \in Goal : Sees(t, g)})
        /\ owner' = [g \in Goal |-> IF g \in owned THEN Gone ELSE owner[g]]
        /\ place' = [g \in Goal |-> [u \in Team |->
                       IF g \in owned \/ u = t THEN NoPlace ELSE place[g][u]]]
  /\ teams' = teams \ {t}
  /\ removed' = removed \cup {t}
  /\ status' = [status EXCEPT ![t] = "no_goals"]
  /\ chosen' = [chosen EXCEPT ![t] = "no_goals"]
  /\ UNCHANGED <<ended, order, overtaken, overruled>>

\* The goals of the period go with it, their shares and every team's status.
DeletePeriod ==
  /\ ~ended
  /\ LET goals == {g \in Goal : Live(g)}
     IN /\ Write(Team \cup goals)
        /\ owner' = [g \in Goal |-> IF g \in goals THEN Gone ELSE owner[g]]
  /\ place' = [g \in Goal |-> [t \in Team |-> NoPlace]]
  /\ status' = [t \in Team |-> "no_goals"]
  /\ chosen' = [t \in Team |-> "no_goals"]
  /\ ended' = TRUE
  /\ UNCHANGED <<teams, removed, order, overtaken, overruled>>

DeleteGoal(g) ==
  /\ Live(g)
  /\ Write({g})
  /\ owner' = [owner EXCEPT ![g] = Gone]
  /\ place' = [place EXCEPT ![g] = [t \in Team |-> NoPlace]]
  /\ UNCHANGED <<teams, removed, ended, order, statusVars>>

UpdateGoalOwner(g, t) ==
  /\ Live(g) /\ t \in teams
  /\ Write({g})
  /\ owner' = [owner EXCEPT ![g] = t]
  /\ UNCHANGED <<teams, removed, ended, order, place, statusVars>>

\* Mutant: ON CONFLICT sets sort_order as well.
UpsertedAnew(g, t) == order[g]

\* upsertGoalShare: a new row copies the goal's sort_order, an old one keeps its own.
Upserted(g, t) == IF place[g][t] = NoPlace THEN order[g] ELSE place[g][t]

ReplaceGoalShares(g, targets) ==
  /\ Live(g) /\ targets \subseteq teams
  /\ Write({g})
  /\ place' = [place EXCEPT ![g] =
                 [t \in Team |-> IF t \in targets THEN Upserted(g, t) ELSE NoPlace]]
  /\ UNCHANGED <<teams, removed, ended, owner, order, statusVars>>

DeleteGoalShare(g, t) ==
  /\ Live(g) /\ place[g][t] # NoPlace
  /\ Write({g})
  /\ place' = [place EXCEPT ![g][t] = NoPlace]
  /\ UNCHANGED <<teams, removed, ended, owner, order, statusVars>>

\* h is the neighbour of g in its owner's list, in direction d.
Neighbour(g, h, d) ==
  LET beyond == {x \in Goal : owner[x] = owner[g] /\ d * (order[x] - order[g]) > 0}
  IN h \in beyond /\ \A x \in beyond : d * (order[h] - order[x]) <= 0

MoveGoal(g, d) ==
  /\ Live(g)
  /\ \E h \in Goal :
       /\ Neighbour(g, h, d)
       /\ Write({g, h})
       /\ order' = [order EXCEPT ![g] = order[h], ![h] = order[g]]
  /\ UNCHANGED <<teams, removed, ended, owner, place, statusVars>>

WriteStep ==
  \/ DeletePeriod
  \/ \E t \in Team : CreateTeam(t) \/ DeleteTeam(t)
  \/ \E t \in Team, s \in Status : SetTeamPeriodStatus(t, s)
  \/ \E g \in Goal : DeleteGoal(g)
  \/ \E g \in Goal, t \in Team : UpdateGoalOwner(g, t) \/ DeleteGoalShare(g, t)
  \/ \E g \in Goal, targets \in SUBSET Team : ReplaceGoalShares(g, targets)
  \/ \E g \in Goal, d \in {-1, 1} : MoveGoal(g, d)

-----------------------------------------------------------------------------
\* The load

NoForm == [goal |-> -1, sent |-> FALSE]

\* The client asks anew, for the page of t or, with NoTeam, for the table.
StartLoad(k, t) ==
  /\ lpc \in {"idle", "done"} /\ epc \in {"idle", "done"}
  /\ kind' = k /\ at' = t
  /\ lpc' = "period"
  /\ known' = {} /\ drawn' = {} /\ rest' = {} /\ shareIDs' = {}
  /\ listed' = [u \in Team |-> {}]
  /\ key' = [u \in Team |-> [g \in Goal |-> 0]]
  /\ from' = [u \in Team |-> [g \in Goal |-> NoTeam]]
  /\ sharers' = [u \in Team |-> [g \in Goal |-> {}]]
  /\ shown' = [u \in Team |-> "no_goals"]
  /\ touched' = {}
  /\ epc' = "idle" /\ form' = NoForm /\ wrote' = "none"
  /\ UNCHANGED <<goalVars, statusVars, writes, slotVars>>

LoadStep == UNCHANGED <<goalVars, statusVars, writes, slotVars, touched, formVars, kind>>

\* Not found, no page.
GetPeriod ==
  /\ lpc = "period"
  /\ lpc' = IF ended THEN "idle" ELSE "teams"
  /\ at' = IF ended THEN NoTeam ELSE at
  /\ UNCHANGED <<known, drawn, rest, shareIDs, pageVars>>
  /\ LoadStep

\* Not found, no page either.
GetTeam ==
  /\ lpc = "teams" /\ kind = "page"
  /\ lpc' = IF at \in teams THEN "goals" ELSE "idle"
  /\ drawn' = IF at \in teams THEN {at} ELSE {}
  /\ at' = IF at \in teams THEN at ELSE NoTeam
  /\ UNCHANGED <<known, rest, shareIDs, pageVars>>
  /\ LoadStep

\* appendTeamSummary of the next team.  The walk is in the order of the hierarchy,
\* which TeamTree has; here it is any order.
NextRow(all) ==
  \/ /\ all \subseteq drawn
     /\ lpc' = "done" /\ at' = NoTeam
     /\ UNCHANGED drawn
  \/ \E t \in all \ drawn :
       lpc' = "goals" /\ at' = t /\ drawn' = drawn \cup {t}

ListTeams ==
  /\ lpc = "teams" /\ kind = "table"
  /\ known' = teams
  /\ NextRow(teams)
  /\ UNCHANGED <<rest, shareIDs, pageVars>>
  /\ LoadStep

ListGoalsByTeamPeriod ==
  /\ lpc = "goals"
  /\ LET goals == {g \in Goal : Sees(at, g)}
     IN /\ listed' = [listed EXCEPT ![at] = goals]
        /\ key' = [key EXCEPT ![at] = [g \in Goal |-> IF g \in goals THEN Key(at, g) ELSE 0]]
        /\ from' = [from EXCEPT ![at] = [g \in Goal |-> IF g \in goals THEN owner[g] ELSE NoTeam]]
        /\ rest' = goals
        /\ lpc' = IF kind = "page" /\ goals # {} THEN "shares" ELSE "status"
  /\ UNCHANGED <<at, known, drawn, shareIDs, sharers, shown>>
  /\ LoadStep

\* The goal whose shares are next: the first of the list.
IsNext(g) == g \in rest /\ \A h \in rest \ {g} : Above(key[at], g, h)

\* Mutant: the owner is not among the teams.
TeamIDsShared(g) == SharedTo(g)

\* listGoalShareTeams: the owner the list had and the shares there are now.
TeamIDs(g) == {from[at][g]} \cup SharedTo(g)

\* The table takes the names from its ListTeams ...
ListSharesOfTable ==
  /\ lpc = "shares" /\ kind = "table"
  /\ \/ /\ rest = {}
        /\ NextRow(known)
        /\ UNCHANGED <<sharers, rest>>
     \/ \E g \in rest :
          /\ IsNext(g)
          /\ sharers' = [sharers EXCEPT ![at][g] = TeamIDs(g) \cap known]
          /\ rest' = rest \ {g}
          /\ UNCHANGED <<lpc, at, drawn>>
  /\ UNCHANGED <<known, shareIDs, listed, key, from, shown>>
  /\ LoadStep

\* ... the page from a query of their own per goal.
ListSharesOfPage ==
  /\ lpc = "shares" /\ kind = "page"
  /\ \E g \in rest : IsNext(g) /\ shareIDs' = TeamIDs(g)
  /\ lpc' = "names"
  /\ UNCHANGED <<at, known, drawn, rest, pageVars>>
  /\ LoadStep

ListNames ==
  /\ lpc = "names"
  /\ \E g \in rest :
       /\ IsNext(g)
       /\ sharers' = [sharers EXCEPT ![at][g] = shareIDs \cap teams]
       /\ rest' = rest \ {g}
       /\ lpc' = IF rest = {g} THEN "status" ELSE "shares"
  /\ shareIDs' = {}
  /\ UNCHANGED <<at, known, drawn, listed, key, from, shown>>
  /\ LoadStep

GetTeamPeriodStatus ==
  /\ lpc = "status"
  /\ shown' = [shown EXCEPT ![at] = status[at]]
  /\ lpc' = IF kind = "page" THEN "done" ELSE "shares"
  /\ UNCHANGED <<at, known, drawn, rest, shareIDs, listed, key, from, sharers>>
  /\ LoadStep

-----------------------------------------------------------------------------
\* The form of a goal, from the page that is shown: app.js and handleUpdateGoal.

Locked == {"validated", "closed"}

\* Mutant: the form never has a team_id.
SendsNoTeam(g) == FALSE

SendsTeam(g) == Cardinality(sharers[at][g]) > 1

OpenForm(g) ==
  /\ lpc = "done" /\ kind = "page" /\ epc \in {"idle", "done"}
  /\ shown[at] \notin Locked
  /\ g \in listed[at]
  /\ form' = [goal |-> g, sent |-> SendsTeam(g)]
  /\ epc' = "goal" /\ wrote' = "none"
  /\ UNCHANGED <<goalVars, statusVars, writes, slotVars, loadVars, touched>>

FormStep(label, written) ==
  /\ epc' = label /\ wrote' = written
  /\ UNCHANGED <<goalVars, statusVars, writes, slotVars, loadVars, touched, form>>

\* GetGoal, of a form with a team_id, and UpdateGoal, which writes back that weight;
\* without a team_id it writes the form's.
UpdateGoal ==
  /\ epc = "goal"
  /\ IF form.sent
     THEN FormStep(IF Live(form.goal) THEN "owner" ELSE "done", "none")
     ELSE FormStep("done", IF Live(form.goal) THEN "goal" ELSE "none")

\* UpdateGoalTeamWeight: the goal of that team, or else its share.
UpdateOwnerWeight ==
  /\ epc = "owner"
  /\ IF owner[form.goal] = at THEN FormStep("done", "goal") ELSE FormStep("share", "none")

UpdateShareWeight ==
  /\ epc = "share"
  /\ FormStep("done", IF place[form.goal][at] # NoPlace THEN "share" ELSE "none")

-----------------------------------------------------------------------------

CreateStep ==
  \E r \in Req :
    \/ \E t \in Team : StartCreate(r, t)
    \/ ReadStatus(r) \/ InsertGoal(r) \/ SetForming(r) \/ Abandon(r)

LoadNext ==
  \/ StartLoad("table", NoTeam)
  \/ \E t \in Team : StartLoad("page", t)
  \/ GetPeriod \/ GetTeam \/ ListTeams \/ ListGoalsByTeamPeriod
  \/ ListSharesOfTable \/ ListSharesOfPage \/ ListNames \/ GetTeamPeriodStatus

FormNext ==
  \/ \E g \in Goal : OpenForm(g)
  \/ UpdateGoal \/ UpdateOwnerWeight \/ UpdateShareWeight

Next == CreateStep \/ WriteStep \/ LoadNext \/ FormNext

\* What goals and goal_shares refer to exists.
ForeignKeys ==
  /\ \A g \in Goal : Live(g) => ~ended
  /\ \A g \in Goal : Live(g) => owner[g] \in teams
  /\ \A g \in Goal : SharedTo(g) # {} => Live(g)
  /\ \A g \in Goal : SharedTo(g) \subseteq teams

\* Any database, no request under way.
Init ==
  /\ teams \subseteq Team /\ removed = {} /\ ended = FALSE
  /\ owner \in [Goal -> Team \cup {Unborn, Gone}]
  /\ order \in [Goal -> Int]
  /\ place \in [Goal -> [Team -> Int \cup {NoPlace}]]
  /\ ForeignKeys
  /\ status \in [Team -> Status]
  /\ \A t \in Team \ teams : status[t] = "no_goals"
  /\ chosen = status
  /\ writes = 0 /\ overtaken = {} /\ overruled = {}
  /\ pc = [r \in Req |-> "idle"]
  /\ team = [r \in Req |-> NoTeam]
  /\ read = [r \in Req |-> "no_goals"]
  /\ lpc = "idle" /\ kind = "page" /\ at = NoTeam
  /\ known = {} /\ drawn = {} /\ rest = {} /\ shareIDs = {}
  /\ listed = [t \in Team |-> {}]
  /\ key = [t \in Team |-> [g \in Goal |-> 0]]
  /\ from = [t \in Team |-> [g \in Goal |-> NoTeam]]
  /\ sharers = [t \in Team |-> [g \in Goal |-> {}]]
  /\ shown = [t \in Team |-> "no_goals"]
  /\ touched = {}
  /\ epc = "idle" /\ form = NoForm /\ wrote = "none"

Spec == Init /\ [][Next]_vars

-----------------------------------------------------------------------------
\* Properties

RowType ==
  /\ listed \in [Team -> SUBSET Goal]
  /\ key \in [Team -> [Goal -> Int]]
  /\ from \in [Team -> [Goal -> Team \cup {NoTeam}]]
  /\ sharers \in [Team -> [Goal -> SUBSET Team]]
  /\ shown \in [Team -> Status]

GoalType ==
  /\ teams \subseteq Team /\ removed \subseteq Team /\ ended \in BOOLEAN
  /\ owner \in [Goal -> Team \cup {Unborn, Gone}]
  /\ order \in [Goal -> Int]
  /\ place \in [Goal -> [Team -> Int \cup {NoPlace}]]
  /\ ForeignKeys

StatusType ==
  /\ status \in [Team -> Status] /\ chosen \in [Team -> Status]
  /\ overtaken \subseteq Req /\ overruled \subseteq Team

SlotType ==
  /\ pc \in [Req -> {"idle", "status", "insert", "forming", "done", "failed"}]
  /\ team \in [Req -> Team \cup {NoTeam}]
  /\ \A r \in Req : pc[r] \in {"status", "insert", "forming"} => team[r] \in Team
  /\ read \in [Req -> Status]

LoadType ==
  /\ lpc \in {"idle", "period", "teams", "goals", "shares", "names", "status", "done"}
  /\ kind \in {"page", "table"}
  /\ at \in Team \cup {NoTeam}
  /\ known \subseteq Team /\ drawn \subseteq Team /\ rest \subseteq Goal
  /\ shareIDs \subseteq Team \cup {NoTeam}
  /\ lpc \in {"goals", "shares", "names", "status"} => at \in drawn
  /\ kind = "page" /\ lpc # "idle" => at \in Team
  /\ RowType

FormType ==
  /\ epc \in {"idle", "goal", "owner", "share", "done"}
  /\ epc # "idle" => lpc = "done" /\ kind = "page" /\ form.goal \in Goal
  /\ form \in [goal : Goal \cup {-1}, sent : BOOLEAN]
  /\ wrote \in {"none", "goal", "share"}

\* Every variable has its type, whatever is written while a page is read, and the
\* rows a deletion leaves refer to teams and goals that exist (the cascades).
TypeOK ==
  /\ GoalType /\ StatusType /\ SlotType /\ LoadType /\ FormType
  /\ writes \in 0..MaxWrites
  /\ touched \subseteq Goal \cup Team

\* The place of a goal in a team's list is the team's own: it changes only when a
\* goal the team owns is exchanged with another it owns, or when the share that
\* fixed the place goes.  No share, hand-over or move elsewhere reorders the list
\* (goal_shares.sort_order and the COALESCE of ListGoalsByTeamPeriod).
KeepsPlace(t, g) ==
  Sees(t, g) /\ Sees(t, g)' /\ Key(t, g)' # Key(t, g) =>
    \/ /\ owner[g] = t /\ place[g][t] = NoPlace
       /\ \E h \in Goal : owner[h] = t /\ order'[h] = order[g] /\ order'[g] = order[h]
    \/ place[g][t] # NoPlace /\ place'[g][t] = NoPlace

OrderOnlyByMoves == [][\A t \in Team, g \in Goal : KeepsPlace(t, g)]_vars

\* A status somebody chose stands, but for the move from no_goals to forming: a
\* new goal never takes a team out of in_progress, validated or closed, unless the
\* status was chosen while that goal was being created.
ChoiceStands ==
  \A t \in Team :
    status[t] # chosen[t] =>
      status[t] = "forming" /\ (chosen[t] = "no_goals" \/ t \in overruled)

\* A team whose goal was created is not left at no_goals, unless that status was
\* chosen while the goal was being created.
CreationForms ==
  [][\A r \in Req :
       pc[r] \in {"insert", "forming"} /\ pc'[r] = "done" =>
         status'[team[r]] # "no_goals" \/ r \in overtaken]_vars

\* The row of t as the database has it now, as far as nothing was written since
\* the load began.
GoalsExact(t) ==
  \A g \in Goal \ touched :
    /\ g \in listed[t] <=> Sees(t, g)
    /\ g \in listed[t] => key[t][g] = Key(t, g) /\ from[t][g] = owner[g]

SharersExact(t, g) == g \notin touched => sharers[t][g] = Viewers(g)

StatusExact(t) == t \notin touched => shown[t] = status[t]

\* A loaded page or table is right about all that was not written while it was
\* loaded, however its queries and other requests' writes interleave: which goals
\* a team sees, in which order, who shares them, the status, and, in the table,
\* which teams there are.
UntouchedShownExactly ==
  lpc = "done" =>
    /\ \A t \in drawn :
         /\ GoalsExact(t)
         /\ \A g \in listed[t] : SharersExact(t, g)
         /\ StatusExact(t)
    /\ kind = "table" => teams \ touched \subseteq drawn
    /\ kind = "page" => at \in drawn

\* A goal's form writes the weight that the team of the page sees, if nobody wrote
\* the goal since the page was loaded: whether app.js sends a team_id, what
\* handleUpdateGoal does with it, and COALESCE(gs.weight, g.weight) agree.  An owner
\* that also has a share row is excepted.
EditsReachTheirTeam ==
  LET g == form.goal
  IN epc = "done" /\ g \notin touched /\ place[g][owner[g]] = NoPlace =>
       wrote = IF place[g][at] # NoPlace THEN "share" ELSE "goal"

=============================================================================
