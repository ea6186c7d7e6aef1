-------------------------- MODULE TeamPeriod_proof ---------------------------
(***************************************************************************)
(* What the pages of a period show and what a creation does to its status, *)
(* for any sets of teams, goals and requests and any number of writes.     *)
(*                                                                         *)
(* The argument: a write leaves alone what it does not touch (Leaves), so  *)
(* what a load has read of an untouched goal or team is still what the     *)
(* database has (LoadInv), and so is the choice of app.js between the two  *)
(* rows that hold a weight (EditInv).                                      *)
(***************************************************************************)
EXTENDS TeamPeriod, FiniteSetTheorems, TLAPS

\* The row of t has its goals, is complete, has its status.
HasGoals(t) == t \in drawn /\ (lpc = "done" \/ t # at \/ lpc \in {"shares", "names", "status"})
Complete(t) == t \in drawn /\ (lpc = "done" \/ t # at)
HasStatus(t) == Complete(t) \/ (t = at /\ kind = "table" /\ lpc = "shares")

Reading == lpc \notin {"idle", "period", "teams"}

LoadInv ==
  /\ \A t \in Team : HasGoals(t) => GoalsExact(t)
  /\ \A t \in Team : HasGoals(t) =>
       \A g \in listed[t] : (t = at /\ g \in rest) \/ SharersExact(t, g)
  /\ \A t \in Team : HasStatus(t) => StatusExact(t)
  /\ ~Reading => drawn = {}
  /\ rest # {} => at \in Team /\ rest \subseteq listed[at]
  /\ rest # {} => lpc \in {"shares", "names", "status"}
  /\ rest # {} /\ kind = "page" => lpc # "status"
  /\ lpc = "names" => \A g \in Goal \ touched : IsNext(g) => shareIDs = Viewers(g)
  /\ lpc = "names" => kind = "page"
  /\ kind = "table" /\ Reading =>
       /\ teams \ touched \subseteq known
       /\ \A g \in Goal \ touched : Viewers(g) \subseteq known
       /\ lpc = "done" => known \subseteq drawn
  /\ kind = "page" /\ Reading => at \in drawn /\ drawn \subseteq {at}

EditInv ==
  LET g == form.goal
  IN /\ epc # "idle" => g \in listed[at] /\ form.sent = SendsTeam(g)
     /\ epc \in {"owner", "share"} => form.sent
     /\ epc = "share" /\ g \notin touched => owner[g] # at
     /\ EditsReachTheirTeam

\* What is not touched stays as it is.
Leaves ==
  /\ touched \subseteq touched'
  /\ \A g \in Goal : g \notin touched' =>
       /\ owner'[g] = owner[g] /\ order'[g] = order[g]
       /\ \A t \in Team : place'[g][t] = place[g][t]
  /\ \A t \in Team : t \notin touched' => status'[t] = status[t] /\ (t \in teams' <=> t \in teams)

IInv == TypeOK /\ LoadInv /\ EditInv

-----------------------------------------------------------------------------
\* Types

LEMMA FinishTypes ==
  ASSUME TypeOK, NEW r \in Req, NEW outcome \in {"done", "failed"}, Finish(r, outcome)
  PROVE  SlotType'
BY DEF TypeOK, SlotType, Finish, Status

LEMMA InitTypes == Init => TypeOK
<1> SUFFICES ASSUME Init PROVE TypeOK
  OBVIOUS
<1>1. GoalType
  BY DEF Init, GoalType
<1>2. StatusType /\ SlotType
  BY DEF Init, StatusType, SlotType, Status
<1>3. LoadType
  BY DEF Init, LoadType, RowType, Status
<1>4. FormType
  BY DEF Init, FormType, NoForm
<1>5. writes \in 0..MaxWrites /\ touched \subseteq Goal \cup Team
  BY ConstantsAssumption DEF Init
<1> QED BY <1>1, <1>2, <1>3, <1>4, <1>5 DEF TypeOK

LEMMA CreateGoalTypes ==
  ASSUME TypeOK, NEW t \in Team, NEW g \in Goal, CreateGoal(t, g),
         UNCHANGED <<teams, removed, ended, place>>
  PROVE  GoalType' /\ touched' \subseteq Goal \cup Team
<1>1. owner' \in [Goal -> Team \cup {Unborn, Gone}] /\ order' \in [Goal -> Int]
  BY DEF TypeOK, GoalType, CreateGoal
<1>2. ForeignKeys'
  BY ConstantsAssumption DEF TypeOK, GoalType, ForeignKeys, CreateGoal, Refers, Live, SharedTo
<1> QED BY <1>1, <1>2 DEF TypeOK, GoalType, CreateGoal

LEMMA CreateTypes == TypeOK /\ CreateStep => TypeOK'
<1> SUFFICES ASSUME TypeOK, NEW r \in Req,
             \/ \E t \in Team : StartCreate(r, t)
             \/ ReadStatus(r) \/ InsertGoal(r) \/ SetForming(r) \/ Abandon(r)
             PROVE TypeOK'
  BY DEF CreateStep
<1>1. CASE \E t \in Team : StartCreate(r, t)
  <2>1. SlotType'
    BY <1>1 DEF TypeOK, SlotType, StartCreate
  <2> QED BY <1>1, <2>1 DEF TypeOK, GoalType, StatusType, LoadType, RowType, FormType, StartCreate,
             ForeignKeys, Live, SharedTo, goalVars, statusVars, loadVars, pageVars, formVars
<1>2. CASE ReadStatus(r)
  <2>1. SlotType'
    <3>1. CASE Finish(r, "failed")
      BY <3>1, FinishTypes
    <3>2. CASE ~Finish(r, "failed")
      BY <1>2, <3>2 DEF TypeOK, SlotType, StatusType, ReadStatus, Status
    <3> QED BY <3>1, <3>2
  <2>2. StatusType'
    BY <1>2 DEF TypeOK, StatusType, ReadStatus
  <2> QED BY <1>2, <2>1, <2>2 DEF TypeOK, GoalType, LoadType, RowType, FormType, ReadStatus,
             ForeignKeys, Live, SharedTo, goalVars, loadVars, pageVars, formVars
<1>3. CASE InsertGoal(r)
  <2>1. team[r] \in Team
    BY <1>3 DEF TypeOK, SlotType, InsertGoal
  <2>2. GoalType' /\ touched' \subseteq Goal \cup Team
    <3>1. CASE \E g \in Goal : CreateGoal(team[r], g)
      BY <1>3, <2>1, <3>1, CreateGoalTypes DEF InsertGoal
    <3>2. CASE ~\E g \in Goal : CreateGoal(team[r], g)
      BY <1>3, <3>2 DEF InsertGoal, TypeOK, GoalType, ForeignKeys, Live, SharedTo
    <3> QED BY <3>1, <3>2
  <2>3. SlotType'
    <3>1. CASE Finish(r, "failed") \/ Finish(r, "done")
      BY <3>1, FinishTypes
    <3>2. CASE ~(Finish(r, "failed") \/ Finish(r, "done"))
      BY <1>3, <2>1, <3>2 DEF TypeOK, SlotType, InsertGoal
    <3> QED BY <3>1, <3>2
  <2> QED BY <1>3, <2>2, <2>3 DEF TypeOK, StatusType, LoadType, RowType, FormType, InsertGoal,
             statusVars, loadVars, pageVars, formVars
<1>4. CASE SetForming(r)
  <2>1. team[r] \in Team
    BY <1>4 DEF TypeOK, SlotType, SetForming
  <2>2. SlotType'
    BY <1>4, FinishTypes DEF SetForming
  <2>3. StatusType' /\ touched' \subseteq Goal \cup Team
    BY <1>4, <2>1 DEF TypeOK, StatusType, SetForming, statusVars, Status
  <2> QED BY <1>4, <2>2, <2>3 DEF TypeOK, GoalType, LoadType, RowType, FormType, SetForming,
             ForeignKeys, Live, SharedTo, goalVars, loadVars, pageVars, formVars
<1>5. CASE Abandon(r)
  <2>1. SlotType'
    BY <1>5, FinishTypes DEF Abandon
  <2> QED BY <1>5, <2>1 DEF TypeOK, GoalType, StatusType, LoadType, RowType, FormType, Abandon,
             ForeignKeys, Live, SharedTo, goalVars, statusVars, loadVars, pageVars, formVars
<1> QED BY <1>1, <1>2, <1>3, <1>4, <1>5

\* What every write of the other requests leaves alone.
LEMMA WriteTypes ==
  ASSUME TypeOK, NEW changed \in SUBSET (Goal \cup Team), Write(changed),
         GoalType', StatusType'
  PROVE  TypeOK'
<1>1. writes' \in 0..MaxWrites
  BY ConstantsAssumption DEF TypeOK, Write
<1> QED BY <1>1 DEF TypeOK, Write, SlotType, LoadType, RowType, FormType, slotVars, loadVars,
           pageVars, formVars

LEMMA WriteStepTypes == TypeOK /\ WriteStep => TypeOK'
<1> USE DEF statusVars
<1> SUFFICES ASSUME TypeOK, WriteStep PROVE TypeOK'
  OBVIOUS
<1>1. CASE \E t \in Team : CreateTeam(t)
  <2> PICK t \in Team : CreateTeam(t)
    BY <1>1
  <2>1. GoalType' /\ StatusType'
    BY DEF TypeOK, GoalType, StatusType, CreateTeam, ForeignKeys, Live, SharedTo
  <2> QED BY <2>1, WriteTypes DEF CreateTeam
<1>2. CASE \E t \in Team : DeleteTeam(t)
  <2> PICK t \in Team : DeleteTeam(t)
    BY <1>2
  <2>1. owner' \in [Goal -> Team \cup {Unborn, Gone}]
        /\ place' \in [Goal -> [Team -> Int \cup {NoPlace}]]
    BY DEF TypeOK, GoalType, DeleteTeam
  <2>2. ForeignKeys'
    BY <2>1, ConstantsAssumption DEF TypeOK, GoalType, DeleteTeam, ForeignKeys, Live, SharedTo
  <2>3. GoalType' /\ StatusType'
    BY <2>1, <2>2 DEF TypeOK, GoalType, StatusType, DeleteTeam, Status
  <2> QED BY <2>3, WriteTypes DEF DeleteTeam
<1>3. CASE \E t \in Team, s \in Status : SetTeamPeriodStatus(t, s)
  <2> PICK t \in Team, s \in Status : SetTeamPeriodStatus(t, s)
    BY <1>3
  <2>1. GoalType' /\ StatusType'
    BY DEF TypeOK, GoalType, StatusType, SetTeamPeriodStatus, InFlight, ForeignKeys, Live, SharedTo,
           goalVars
  <2> QED BY <2>1, WriteTypes DEF SetTeamPeriodStatus
<1>4. CASE \E g \in Goal : DeleteGoal(g)
  <2> PICK g \in Goal : DeleteGoal(g)
    BY <1>4
  <2>1. GoalType' /\ StatusType'
    BY ConstantsAssumption
       DEF TypeOK, GoalType, StatusType, DeleteGoal, ForeignKeys, Live, SharedTo
  <2> QED BY <2>1, WriteTypes DEF DeleteGoal
<1>5. CASE \E g \in Goal, t \in Team : UpdateGoalOwner(g, t)
  <2> PICK g \in Goal, t \in Team : UpdateGoalOwner(g, t)
    BY <1>5
  <2>1. GoalType' /\ StatusType'
    BY DEF TypeOK, GoalType, StatusType, UpdateGoalOwner, ForeignKeys, Live, SharedTo
  <2> QED BY <2>1, WriteTypes DEF UpdateGoalOwner
<1>6. CASE \E g \in Goal, t \in Team : DeleteGoalShare(g, t)
  <2> PICK g \in Goal, t \in Team : DeleteGoalShare(g, t)
    BY <1>6
  <2>1. place' \in [Goal -> [Team -> Int \cup {NoPlace}]]
    BY DEF TypeOK, GoalType, DeleteGoalShare
  <2>2. ForeignKeys'
    BY <2>1 DEF TypeOK, GoalType, DeleteGoalShare, ForeignKeys, Live, SharedTo
  <2>3. GoalType' /\ StatusType'
    BY <2>1, <2>2 DEF TypeOK, GoalType, StatusType, DeleteGoalShare
  <2> QED BY <2>3, WriteTypes DEF DeleteGoalShare
<1>7. CASE \E g \in Goal, targets \in SUBSET Team : ReplaceGoalShares(g, targets)
  <2> PICK g \in Goal, targets \in SUBSET Team : ReplaceGoalShares(g, targets)
    BY <1>7
  <2>1. place' \in [Goal -> [Team -> Int \cup {NoPlace}]]
    BY DEF TypeOK, GoalType, ReplaceGoalShares, Upserted
  <2>2. ForeignKeys'
    BY <2>1 DEF TypeOK, GoalType, ReplaceGoalShares, ForeignKeys, Live, SharedTo
  <2>3. GoalType' /\ StatusType'
    BY <2>1, <2>2 DEF TypeOK, GoalType, StatusType, ReplaceGoalShares
  <2> QED BY <2>3, WriteTypes DEF ReplaceGoalShares
<1>8. CASE \E g \in Goal, d \in {-1, 1} : MoveGoal(g, d)
  <2> PICK g \in Goal, d \in {-1, 1}, h \in Goal :
        /\ Write({g, h})
        /\ order' = [order EXCEPT ![g] = order[h], ![h] = order[g]]
        /\ UNCHANGED <<teams, removed, ended, owner, place, statusVars>>
    BY <1>8 DEF MoveGoal
  <2>1. GoalType' /\ StatusType'
    BY DEF TypeOK, GoalType, StatusType, ForeignKeys, Live, SharedTo
  <2> QED BY <2>1, WriteTypes
<1>9. CASE DeletePeriod
  <2>1. owner' \in [Goal -> Team \cup {Unborn, Gone}] /\ ForeignKeys'
    BY <1>9, ConstantsAssumption DEF TypeOK, GoalType, DeletePeriod, ForeignKeys, Live, SharedTo
  <2>2. GoalType' /\ StatusType'
    BY <1>9, <2>1 DEF TypeOK, GoalType, StatusType, DeletePeriod, Status
  <2>3. Team \cup {g \in Goal : Live(g)} \in SUBSET (Goal \cup Team)
    OBVIOUS
  <2> QED BY <1>9, <2>2, <2>3, WriteTypes DEF DeletePeriod
<1> QED BY <1>1, <1>2, <1>3, <1>4, <1>5, <1>6, <1>7, <1>8, <1>9 DEF WriteStep

\* A step of the load changes none of the data.
LEMMA LoadTypes ==
  ASSUME TypeOK, LoadStep, LoadType', epc = "idle" \/ (lpc' = "done" /\ kind' = "page")
  PROVE  TypeOK'
BY DEF TypeOK, GoalType, StatusType, SlotType, FormType, LoadStep, ForeignKeys, Live, SharedTo,
       goalVars, statusVars, slotVars, formVars

LEMMA LoadNextTypes == TypeOK /\ LoadNext => TypeOK'
<1> USE DEF pageVars
<1> SUFFICES ASSUME TypeOK, LoadNext PROVE TypeOK'
  OBVIOUS
<1>1. CASE StartLoad("table", NoTeam) \/ \E t \in Team : StartLoad("page", t)
  <2> PICK k \in {"page", "table"}, t \in Team \cup {NoTeam} :
        StartLoad(k, t) /\ (k = "page" => t \in Team)
    BY <1>1
  <2>1. LoadType' /\ FormType'
    BY DEF StartLoad, LoadType, RowType, FormType, Status, NoForm
  <2> QED BY <2>1 DEF TypeOK, GoalType, StatusType, SlotType, StartLoad, ForeignKeys, Live, SharedTo,
             goalVars, statusVars, slotVars
<1>9. CASE GetPeriod
  <2>1. LoadType' /\ epc = "idle"
    BY <1>9 DEF GetPeriod, LoadStep, TypeOK, LoadType, RowType, FormType
  <2> QED BY <1>9, <2>1, LoadTypes DEF GetPeriod
<1>2. CASE GetTeam
  <2>1. LoadType' /\ epc = "idle"
    BY <1>2 DEF GetTeam, LoadStep, TypeOK, LoadType, RowType, FormType
  <2> QED BY <1>2, <2>1, LoadTypes DEF GetTeam
<1>3. CASE ListTeams
  <2>1. LoadType' /\ epc = "idle"
    BY <1>3 DEF ListTeams, NextRow, LoadStep, TypeOK, GoalType, LoadType, RowType, FormType
  <2> QED BY <1>3, <2>1, LoadTypes DEF ListTeams
<1>4. CASE ListGoalsByTeamPeriod
  <2> DEFINE goals == {g \in Goal : Sees(at, g)}
  <2>1. at \in Team
    BY <1>4 DEF ListGoalsByTeamPeriod, TypeOK, LoadType
  <2>2. \A g \in goals : Key(at, g) \in Int /\ owner[g] \in Team
    BY <2>1 DEF TypeOK, GoalType, Key, Sees, Live
  <2>3. RowType'
    BY <1>4, <2>1, <2>2 DEF ListGoalsByTeamPeriod, TypeOK, LoadType, RowType
  <2>4. LoadType' /\ epc = "idle"
    BY <1>4, <2>1, <2>3 DEF ListGoalsByTeamPeriod, LoadStep, TypeOK, LoadType, FormType
  <2> QED BY <1>4, <2>4, LoadTypes DEF ListGoalsByTeamPeriod
<1>5. CASE ListSharesOfTable
  <2>1. sharers' \in [Team -> [Goal -> SUBSET Team]]
    <3> USE DEF TypeOK, LoadType, RowType
    <3>1. CASE UNCHANGED sharers
      BY <3>1
    <3>2. ASSUME NEW g \in rest, sharers' = [sharers EXCEPT ![at][g] = TeamIDs(g) \cap known]
          PROVE  sharers' \in [Team -> [Goal -> SUBSET Team]]
      <4>1. TeamIDs(g) \cap known \in SUBSET Team
        OBVIOUS
      <4> QED BY <3>2, <4>1
    <3> QED BY <1>5, <3>1, <3>2 DEF ListSharesOfTable
  <2>2. LoadType' /\ epc = "idle"
    BY <1>5, <2>1 DEF ListSharesOfTable, NextRow, LoadStep, TypeOK, LoadType, RowType, FormType
  <2> QED BY <1>5, <2>2, LoadTypes DEF ListSharesOfTable
<1>6. CASE ListSharesOfPage
  <2>1. ASSUME NEW g \in rest, shareIDs' = TeamIDs(g) PROVE shareIDs' \subseteq Team \cup {NoTeam}
    BY <2>1, <1>6 DEF ListSharesOfPage, TypeOK, LoadType, RowType, TeamIDs, SharedTo
  <2>2. LoadType' /\ epc = "idle"
    BY <1>6, <2>1 DEF ListSharesOfPage, LoadStep, TypeOK, LoadType, RowType, FormType
  <2> QED BY <1>6, <2>2, LoadTypes DEF ListSharesOfPage
<1>7. CASE ListNames
  <2>1. LoadType' /\ epc = "idle"
    BY <1>7 DEF ListNames, LoadStep, TypeOK, GoalType, LoadType, RowType, FormType
  <2> QED BY <1>7, <2>1, LoadTypes DEF ListNames
<1>8. CASE GetTeamPeriodStatus
  <2>1. LoadType' /\ epc = "idle"
    BY <1>8 DEF GetTeamPeriodStatus, LoadStep, TypeOK, StatusType, LoadType, RowType, FormType
  <2> QED BY <1>8, <2>1, LoadTypes DEF GetTeamPeriodStatus
<1> QED BY <1>1, <1>2, <1>3, <1>4, <1>5, <1>6, <1>7, <1>8, <1>9 DEF LoadNext

LEMMA FormNextTypes == TypeOK /\ FormNext => TypeOK'
<1> SUFFICES ASSUME TypeOK, FormNext PROVE TypeOK'
  OBVIOUS
<1>1. CASE \E g \in Goal : OpenForm(g)
  <2>1. FormType'
    BY <1>1 DEF OpenForm, FormType, SendsTeam, loadVars
  <2> QED BY <1>1, <2>1 DEF OpenForm, TypeOK, GoalType, StatusType, SlotType, LoadType, RowType,
             ForeignKeys, Live, SharedTo, goalVars, statusVars, slotVars, loadVars, pageVars
<1>2. CASE UpdateGoal \/ UpdateOwnerWeight \/ UpdateShareWeight
  <2> PICK label \in {"owner", "share", "done"}, written \in {"none", "goal", "share"} :
        epc # "idle" /\ FormStep(label, written)
    BY <1>2 DEF UpdateGoal, UpdateOwnerWeight, UpdateShareWeight
  <2>1. FormType'
    BY DEF FormStep, TypeOK, FormType, loadVars
  <2> QED BY <2>1 DEF FormStep, TypeOK, GoalType, StatusType, SlotType, LoadType, RowType,
             ForeignKeys, Live, SharedTo, goalVars, statusVars, slotVars, loadVars, pageVars
<1> QED BY <1>1, <1>2 DEF FormNext

\* The type invariant holds for any sets of teams, goals and requests, and with it the
\* references of goals and shares to teams, deletions included.
THEOREM TypeCorrect == Spec => []TypeOK
<1>1. TypeOK /\ [Next]_vars => TypeOK'
  <2> SUFFICES ASSUME TypeOK, [Next]_vars PROVE TypeOK'
    OBVIOUS
  <2>1. CASE Next
    BY <2>1, CreateTypes, WriteStepTypes, LoadNextTypes, FormNextTypes DEF Next
  <2>2. CASE UNCHANGED vars
    BY <2>2 DEF vars, TypeOK, GoalType, StatusType, SlotType, LoadType, RowType, FormType,
       ForeignKeys, Live, SharedTo, goalVars, statusVars, slotVars, loadVars, pageVars, formVars
  <2> QED BY <2>1, <2>2
<1> QED BY <1>1, InitTypes, PTL DEF Spec

-----------------------------------------------------------------------------
\* Writes leave alone what they do not touch.

LEMMA CreateLeaves == TypeOK /\ CreateStep => Leaves /\ UNCHANGED <<loadVars, formVars>>
<1> SUFFICES ASSUME TypeOK, NEW r \in Req,
             \/ \E t \in Team : StartCreate(r, t)
             \/ ReadStatus(r) \/ InsertGoal(r) \/ SetForming(r) \/ Abandon(r)
             PROVE Leaves /\ UNCHANGED <<loadVars, formVars>>
  BY DEF CreateStep
<1>1. CASE (\E t \in Team : StartCreate(r, t)) \/ ReadStatus(r) \/ Abandon(r)
  BY <1>1 DEF StartCreate, ReadStatus, Abandon, Leaves, goalVars, statusVars
<1>2. CASE InsertGoal(r)
  BY <1>2 DEF InsertGoal, CreateGoal, Leaves, TypeOK, GoalType, statusVars
<1>3. CASE SetForming(r)
  BY <1>3 DEF SetForming, Leaves, TypeOK, StatusType, goalVars, statusVars
<1> QED BY <1>1, <1>2, <1>3

LEMMA WriteLeaves == TypeOK /\ WriteStep => Leaves /\ UNCHANGED <<loadVars, formVars>>
<1> USE DEF Leaves, TypeOK, GoalType, StatusType, Write, goalVars, statusVars
<1> SUFFICES ASSUME TypeOK, WriteStep PROVE Leaves /\ UNCHANGED <<loadVars, formVars>>
  OBVIOUS
<1>1. CASE \E t \in Team : CreateTeam(t)
  BY <1>1 DEF CreateTeam
<1>2. CASE \E t \in Team : DeleteTeam(t)
  <2> PICK t \in Team : DeleteTeam(t)
    BY <1>2
  <2>1. ASSUME NEW g \in Goal, g \notin touched'
        PROVE  ~Sees(t, g)
    BY <2>1 DEF DeleteTeam
  <2>2. ASSUME NEW g \in Goal, g \notin touched'
        PROVE  owner[g] # t /\ place[g][t] = NoPlace
    BY <2>1, <2>2 DEF Sees, Live, ForeignKeys, SharedTo
  <2> QED BY <2>2 DEF DeleteTeam
<1>3. CASE \E t \in Team, s \in Status : SetTeamPeriodStatus(t, s)
  BY <1>3 DEF SetTeamPeriodStatus
<1>4. CASE \E g \in Goal : DeleteGoal(g)
  BY <1>4 DEF DeleteGoal
<1>5. CASE \E g \in Goal, t \in Team : UpdateGoalOwner(g, t)
  BY <1>5 DEF UpdateGoalOwner
<1>6. CASE \E g \in Goal, t \in Team : DeleteGoalShare(g, t)
  BY <1>6 DEF DeleteGoalShare
<1>7. CASE \E g \in Goal, targets \in SUBSET Team : ReplaceGoalShares(g, targets)
  BY <1>7 DEF ReplaceGoalShares
<1>8. CASE \E g \in Goal, d \in {-1, 1} : MoveGoal(g, d)
  BY <1>8 DEF MoveGoal
<1>9. CASE DeletePeriod
  <2>1. ASSUME NEW g \in Goal, g \notin touched', NEW t \in Team
        PROVE  ~Live(g) /\ place[g][t] = NoPlace
    BY <1>9, <2>1 DEF DeletePeriod, ForeignKeys, SharedTo
  <2> QED BY <1>9, <2>1 DEF DeletePeriod
<1> QED BY <1>1, <1>2, <1>3, <1>4, <1>5, <1>6, <1>7, <1>8, <1>9 DEF WriteStep

\* Who sees an untouched goal, and where.
LEMMA LeavesViews ==
  ASSUME Leaves, NEW g \in Goal, g \notin touched'
  PROVE  /\ g \notin touched
         /\ Viewers(g)' = Viewers(g) /\ SharedTo(g)' = SharedTo(g) /\ Live(g)' = Live(g)
         /\ \A t \in Team : Sees(t, g)' = Sees(t, g) /\ Key(t, g)' = Key(t, g)
BY DEF Leaves, Viewers, SharedTo, Sees, Key, Live

LEMMA LeavesRows ==
  ASSUME Leaves, UNCHANGED loadVars, NEW t \in Team
  PROVE  /\ GoalsExact(t) => GoalsExact(t)'
         /\ StatusExact(t) => StatusExact(t)'
         /\ \A g \in Goal : SharersExact(t, g) => SharersExact(t, g)'
<1>1. GoalsExact(t) => GoalsExact(t)'
  <2> SUFFICES ASSUME GoalsExact(t), NEW g \in Goal, g \notin touched'
               PROVE  /\ g \in listed'[t] <=> Sees(t, g)'
                      /\ g \in listed'[t] => key'[t][g] = Key(t, g)' /\ from'[t][g] = owner'[g]
    BY DEF GoalsExact
  <2> QED BY LeavesViews DEF GoalsExact, Leaves, loadVars, pageVars
<1>2. StatusExact(t) => StatusExact(t)'
  BY DEF StatusExact, Leaves, loadVars, pageVars
<1>3. ASSUME NEW g \in Goal, SharersExact(t, g) PROVE SharersExact(t, g)'
  BY <1>3, LeavesViews DEF SharersExact, loadVars, pageVars
<1> QED BY <1>1, <1>2, <1>3

LEMMA LeavesLoadInv ==
  ASSUME TypeOK, TypeOK', LoadInv, Leaves, UNCHANGED loadVars
  PROVE  LoadInv'
<1> USE DEF loadVars, pageVars
<1>1. \A t \in Team : (HasGoals(t) => GoalsExact(t))' /\ (HasStatus(t) => StatusExact(t))'
  BY LeavesRows DEF LoadInv, HasGoals, HasStatus, Complete
<1>2. ASSUME NEW t \in Team, HasGoals(t)', NEW g \in listed'[t]
      PROVE  (t = at' /\ g \in rest') \/ SharersExact(t, g)'
  <2>1. HasGoals(t) /\ g \in listed[t] /\ g \in Goal
    BY <1>2 DEF HasGoals, TypeOK, LoadType, RowType
  <2> QED BY <2>1, LeavesRows DEF LoadInv
<1>3. ASSUME lpc' = "names", NEW g \in Goal \ touched', IsNext(g)'
      PROVE  shareIDs' = Viewers(g)'
  BY <1>3, LeavesViews DEF LoadInv, IsNext, Above
<1>4. ASSUME kind' = "table", Reading'
      PROVE  /\ teams' \ touched' \subseteq known'
             /\ \A g \in Goal \ touched' : Viewers(g)' \subseteq known'
             /\ lpc' = "done" => known' \subseteq drawn'
  <2>1. \A g \in Goal \ touched' : Viewers(g)' \subseteq known'
    BY <1>4, LeavesViews DEF LoadInv, Reading
  <2>2. teams' \ touched' \subseteq known'
    BY <1>4 DEF LoadInv, Reading, Leaves, TypeOK, GoalType
  <2> QED BY <1>4, <2>1, <2>2 DEF LoadInv, Reading
<1> QED BY <1>1, <1>2, <1>3, <1>4 DEF LoadInv, Reading

\* The goal of a saved form, if nobody wrote it, is as the page shows it.
LEMMA FormGoalSeen ==
  ASSUME TypeOK, LoadInv, EditInv, epc # "idle", form.goal \notin touched
  PROVE  /\ form.goal \in Goal /\ at \in Team
         /\ Sees(at, form.goal) /\ owner[form.goal] \in Team
         /\ sharers[at][form.goal] = Viewers(form.goal)
<1>1. form.goal \in Goal /\ at \in Team /\ lpc = "done" /\ kind = "page"
  BY DEF TypeOK, FormType, LoadType
<1>2. at \in drawn /\ rest = {} /\ HasGoals(at) /\ form.goal \in listed[at]
  BY <1>1 DEF LoadInv, Reading, HasGoals, EditInv
<1> QED BY <1>1, <1>2 DEF LoadInv, GoalsExact, SharersExact, Sees, Live

LEMMA LeavesEditInv ==
  ASSUME TypeOK, LoadInv, EditInv, Leaves, UNCHANGED <<loadVars, formVars>>
  PROVE  EditInv'
<1> DEFINE g == form.goal
<1> USE DEF loadVars, pageVars, formVars
<1>1. CASE epc = "idle"
  BY <1>1 DEF EditInv, EditsReachTheirTeam
<1>2. CASE epc # "idle"
  <2>1. g \in Goal /\ at \in Team
    BY <1>2 DEF TypeOK, FormType, LoadType
  <2>2. EditsReachTheirTeam'
    <3> SUFFICES ASSUME epc' = "done", g \notin touched', place'[g][owner'[g]] = NoPlace
                 PROVE  wrote' = IF place'[g][at'] # NoPlace THEN "share" ELSE "goal"
      BY DEF EditsReachTheirTeam
    <3>1. owner'[g] = owner[g] /\ place'[g][at] = place[g][at] /\ g \notin touched
      BY <2>1 DEF Leaves
    <3>2. g \in listed[at] /\ place[g][owner[g]] = NoPlace
      BY <1>2, <2>1, <3>1, FormGoalSeen DEF EditInv, Leaves
    <3> QED BY <3>1, <3>2 DEF EditInv, EditsReachTheirTeam
  <2> QED BY <1>2, <2>1, <2>2 DEF EditInv, SendsTeam, Leaves
<1> QED BY <1>1, <1>2

-----------------------------------------------------------------------------
\* Steps of the load

LEMMA OneNext ==
  ASSUME TypeOK, at \in Team, NEW g \in Goal, NEW h \in Goal, IsNext(g), IsNext(h)
  PROVE  g = h
<1> DEFINE k == key[at]
<1>1. k[g] \in Int /\ k[h] \in Int /\ g \in Int /\ h \in Int
  <2>1. key \in [Team -> [Goal -> Int]]
    BY DEF TypeOK, LoadType, RowType
  <2>2. k \in [Goal -> Int]
    BY <2>1
  <2>3. g \in Int /\ h \in Int
    BY ConstantsAssumption
  <2> HIDE DEF k
  <2> QED BY <2>2, <2>3
<1>2. g # h => Above(k, g, h) /\ Above(k, h, g)
  BY DEF IsNext
<1> HIDE DEF k
<1> QED BY <1>1, <1>2 DEF Above

LEMMA ViewersAre ==
  ASSUME TypeOK, NEW g \in Goal, Live(g)
  PROVE  Viewers(g) = {owner[g]} \cup SharedTo(g) /\ Viewers(g) \subseteq teams
BY DEF TypeOK, GoalType, ForeignKeys, Viewers, SharedTo, Sees, Live

LEMMA ListedSeen ==
  ASSUME TypeOK, LoadInv, lpc \in {"shares", "names"}, NEW g \in rest, g \notin touched
  PROVE  /\ g \in Goal /\ Live(g) /\ at \in Team /\ g \in listed[at]
         /\ TeamIDs(g) = Viewers(g)
<1>1. at \in Team /\ g \in Goal /\ g \in listed[at] /\ HasGoals(at)
  BY DEF LoadInv, TypeOK, LoadType, HasGoals
<1>2. Live(g) /\ from[at][g] = owner[g]
  BY <1>1 DEF LoadInv, GoalsExact, Sees
<1> QED BY <1>1, <1>2, ViewersAre DEF TeamIDs

LEMMA RowsKept ==
  ASSUME UNCHANGED <<goalVars, statusVars, touched>>, NEW t \in Team
  PROVE  /\ UNCHANGED <<listed[t], key[t], from[t]>> => GoalsExact(t)' = GoalsExact(t)
         /\ UNCHANGED shown[t] => StatusExact(t)' = StatusExact(t)
         /\ \A g \in Goal : UNCHANGED sharers[t][g] => SharersExact(t, g)' = SharersExact(t, g)
<1> USE DEF goalVars, statusVars
<1>1. \A g \in Goal : Sees(t, g)' = Sees(t, g) /\ Key(t, g)' = Key(t, g) /\ Viewers(g)' = Viewers(g)
  BY DEF Sees, Key, Viewers, Live
<1> QED BY <1>1 DEF GoalsExact, StatusExact, SharersExact

LEMMA ListGoalsInv ==
  ASSUME TypeOK, LoadInv, ListGoalsByTeamPeriod
  PROVE  LoadInv'
<1> USE DEF ListGoalsByTeamPeriod, LoadStep
<1> DEFINE goals == {g \in Goal : Sees(at, g)}
<1>1. at \in Team /\ Reading /\ lpc' \in {"shares", "status"} /\ UNCHANGED <<at, kind, drawn, known>>
  BY DEF TypeOK, LoadType, Reading
<1>2. GoalsExact(at)'
  <2>1. \A g \in Goal : Sees(at, g)' = Sees(at, g) /\ Key(at, g)' = Key(at, g)
    BY <1>1 DEF Sees, Key, Live, goalVars
  <2>2. /\ listed'[at] = goals
        /\ \A g \in goals : key'[at][g] = Key(at, g) /\ from'[at][g] = owner[g]
    BY <1>1 DEF TypeOK, LoadType, RowType
  <2> QED BY <1>1, <2>1, <2>2 DEF GoalsExact, goalVars
<1>3. ASSUME NEW t \in Team, t # at, t \in drawn
      PROVE  /\ UNCHANGED <<listed[t], key[t], from[t], sharers[t], shown[t]>>
             /\ HasGoals(t) /\ HasStatus(t)
  BY <1>3, <1>1 DEF TypeOK, LoadType, RowType, HasGoals, HasStatus, Complete
<1>4. \A t \in Team : (HasGoals(t) => GoalsExact(t))'
  BY <1>1, <1>2, <1>3, RowsKept DEF LoadInv, HasGoals
<1>5. ASSUME NEW t \in Team, HasGoals(t)', NEW g \in listed'[t]
      PROVE  (t = at' /\ g \in rest') \/ SharersExact(t, g)'
  <2>1. CASE t = at
    BY <1>1, <1>5, <2>1 DEF TypeOK, LoadType, RowType
  <2>2. CASE t # at
    <3>1. t \in drawn /\ g \in Goal /\ g \in listed[t]
      BY <1>1, <1>3, <1>5, <2>2 DEF HasGoals, TypeOK, LoadType, RowType
    <3> QED BY <1>3, <2>2, <3>1, RowsKept DEF LoadInv
  <2> QED BY <2>1, <2>2
<1>6. \A t \in Team : (HasStatus(t) => StatusExact(t))'
  <2> SUFFICES ASSUME NEW t \in Team, HasStatus(t)' PROVE StatusExact(t)'
    OBVIOUS
  <2>1. t # at /\ t \in drawn
    BY <1>1 DEF HasStatus, Complete
  <2> QED BY <1>3, <2>1, RowsKept DEF LoadInv
<1>7. rest' # {} => at' \in Team /\ rest' \subseteq listed'[at']
  BY <1>1 DEF TypeOK, LoadType, RowType
<1>8. kind' = "table" =>
        /\ teams' \ touched' \subseteq known'
        /\ \A g \in Goal \ touched' : Viewers(g)' \subseteq known'
  BY <1>1 DEF LoadInv, goalVars, Viewers, Sees, Live
<1> QED BY <1>1, <1>4, <1>5, <1>6, <1>7, <1>8 DEF LoadInv, Reading

\* A row of the table is finished and the next one begun.
LEMMA NextRowInv ==
  ASSUME TypeOK, LoadInv, LoadStep, kind = "table", NextRow(known'),
         rest = {}, UNCHANGED <<rest, shareIDs, pageVars>>,
         \/ lpc = "teams" /\ known' = teams
         \/ lpc = "shares" /\ UNCHANGED known
  PROVE  LoadInv'
<1> USE DEF LoadStep, pageVars
<1>1. ASSUME NEW t \in Team, Complete(t)'
      PROVE  t \in drawn /\ HasGoals(t) /\ HasStatus(t)
  BY <1>1 DEF NextRow, Complete, HasGoals, HasStatus, LoadInv, Reading
<1>2. \A t \in Team : HasGoals(t)' \/ HasStatus(t)' => Complete(t)'
  BY DEF NextRow, HasGoals, HasStatus, Complete
<1>3. \A t \in Team : (HasGoals(t) => GoalsExact(t))' /\ (HasStatus(t) => StatusExact(t))'
  BY <1>1, <1>2, RowsKept DEF LoadInv
<1>4. ASSUME NEW t \in Team, HasGoals(t)', NEW g \in listed'[t]
      PROVE  SharersExact(t, g)'
  BY <1>1, <1>2, <1>4, RowsKept DEF LoadInv, TypeOK, LoadType, RowType
<1>5. /\ teams' \ touched' \subseteq known'
      /\ \A g \in Goal \ touched' : Viewers(g)' \subseteq known'
  <2>1. \A g \in Goal : Viewers(g)' = Viewers(g)
    BY DEF Viewers, Sees, Live, goalVars
  <2>2. CASE lpc = "teams"
    BY <2>1, <2>2, ViewersAre DEF goalVars, Viewers, Sees
  <2>3. CASE lpc = "shares"
    BY <2>1, <2>3 DEF LoadInv, Reading, goalVars
  <2> QED BY <2>2, <2>3
<1>6. lpc' \in {"goals", "done"} /\ (lpc' = "done" => known' \subseteq drawn')
  BY DEF NextRow
<1> QED BY <1>3, <1>4, <1>5, <1>6 DEF LoadInv, Reading

\* The share_teams of one goal are in place.
LEMMA SharersInv ==
  ASSUME TypeOK, LoadInv, LoadStep, lpc \in {"shares", "names"}, at \in Team,
         NEW g \in rest, NEW S \in SUBSET Team, g \in Goal,
         g \notin touched => S = Viewers(g),
         sharers' = [sharers EXCEPT ![at][g] = S], rest' = rest \ {g},
         UNCHANGED <<at, known, drawn, listed, key, from, shown>>,
         \/ lpc' = "shares"
         \/ lpc' = "status" /\ rest' = {} /\ kind = "page"
  PROVE  LoadInv'
<1> USE DEF LoadStep
<1>1. sharers'[at][g] = S
      /\ \A t \in Team, h \in Goal : t # at \/ h # g => sharers'[t][h] = sharers[t][h]
  BY DEF TypeOK, LoadType, RowType
<1>2. \A t \in Team : HasGoals(t)' = HasGoals(t) /\ (HasStatus(t)' => HasStatus(t))
  BY DEF HasGoals, HasStatus, Complete, LoadInv
<1>3. \A t \in Team : (HasGoals(t) => GoalsExact(t))' /\ (HasStatus(t) => StatusExact(t))'
  BY <1>2, RowsKept DEF LoadInv
<1>4. Viewers(g)' = Viewers(g)
  BY DEF Viewers, Sees, Live, goalVars
<1>5. ASSUME NEW t \in Team, HasGoals(t)', NEW h \in listed'[t]
      PROVE  (t = at' /\ h \in rest') \/ SharersExact(t, h)'
  <2>1. h \in Goal /\ h \in listed[t] /\ HasGoals(t)
    BY <1>2, <1>5 DEF TypeOK, LoadType, RowType
  <2>2. CASE t = at /\ h = g
    BY <1>1, <1>4, <2>2 DEF SharersExact
  <2>3. CASE ~(t = at /\ h = g)
    BY <1>1, <2>1, <2>3, RowsKept DEF LoadInv
  <2> QED BY <2>2, <2>3
<1>6. kind' = "table" =>
        /\ teams' \ touched' \subseteq known'
        /\ \A h \in Goal \ touched' : Viewers(h)' \subseteq known'
  BY DEF LoadInv, Reading, goalVars, Viewers, Sees, Live
<1> QED BY <1>3, <1>5, <1>6 DEF LoadInv, Reading

LEMMA ListSharesOfTableInv ==
  ASSUME TypeOK, LoadInv, ListSharesOfTable
  PROVE  LoadInv'
<1> USE DEF ListSharesOfTable
<1>1. CASE rest = {} /\ NextRow(known)
  BY <1>1, NextRowInv DEF pageVars
<1>2. CASE ~(rest = {} /\ NextRow(known))
  <2> PICK g \in rest :
        /\ sharers' = [sharers EXCEPT ![at][g] = TeamIDs(g) \cap known]
        /\ rest' = rest \ {g}
        /\ UNCHANGED <<lpc, at, drawn>>
    BY <1>2
  <2>1. g \in Goal /\ at \in Team /\ TeamIDs(g) \cap known \in SUBSET Team
    BY DEF TypeOK, LoadType, LoadInv
  <2>2. g \notin touched => TeamIDs(g) \cap known = Viewers(g)
    BY <2>1, ListedSeen DEF LoadInv, Reading
  <2> HIDE DEF ListSharesOfTable
  <2> QED BY <2>1, <2>2, SharersInv DEF ListSharesOfTable
<1> QED BY <1>1, <1>2

LEMMA ListNamesInv ==
  ASSUME TypeOK, LoadInv, ListNames
  PROVE  LoadInv'
<1> PICK g \in rest :
      /\ IsNext(g)
      /\ sharers' = [sharers EXCEPT ![at][g] = shareIDs \cap teams]
      /\ rest' = rest \ {g}
      /\ lpc' = IF rest = {g} THEN "status" ELSE "shares"
  BY DEF ListNames
<1>1. g \in Goal /\ at \in Team /\ kind = "page" /\ shareIDs \cap teams \in SUBSET Team
  BY DEF ListNames, TypeOK, GoalType, LoadType, LoadInv
<1>2. g \notin touched => shareIDs \cap teams = Viewers(g)
  BY <1>1, ListedSeen, ViewersAre DEF ListNames, LoadInv
<1>3. rest = {g} => rest \ {g} = {}
  OBVIOUS
<1> QED BY <1>1, <1>2, <1>3, SharersInv DEF ListNames

LEMMA ListSharesOfPageInv ==
  ASSUME TypeOK, LoadInv, ListSharesOfPage
  PROVE  LoadInv'
<1> USE DEF ListSharesOfPage, LoadStep, pageVars
<1>1. at \in Team
  BY DEF TypeOK, LoadType
<1>2. \A t \in Team : HasGoals(t)' = HasGoals(t) /\ HasStatus(t)' = HasStatus(t)
  BY DEF HasGoals, HasStatus, Complete
<1>3. \A t \in Team : (HasGoals(t) => GoalsExact(t))' /\ (HasStatus(t) => StatusExact(t))'
  BY <1>2, RowsKept DEF LoadInv
<1>4. ASSUME NEW t \in Team, HasGoals(t)', NEW h \in listed'[t]
      PROVE  (t = at' /\ h \in rest') \/ SharersExact(t, h)'
  BY <1>2, <1>4, RowsKept DEF LoadInv, TypeOK, LoadType, RowType
<1>5. ASSUME NEW g \in Goal \ touched', IsNext(g)'
      PROVE  shareIDs' = Viewers(g)'
  <2>1. IsNext(g) /\ g \in rest /\ Viewers(g)' = Viewers(g)
    BY <1>5 DEF IsNext, Above, Viewers, Sees, Live, goalVars
  <2>2. shareIDs' = TeamIDs(g)
    BY <1>1, <2>1, OneNext DEF TypeOK, LoadType
  <2> QED BY <1>5, <2>1, <2>2, ListedSeen
<1> QED BY <1>3, <1>4, <1>5 DEF LoadInv, Reading

LEMMA GetTeamPeriodStatusInv ==
  ASSUME TypeOK, LoadInv, GetTeamPeriodStatus
  PROVE  LoadInv'
<1> USE DEF GetTeamPeriodStatus, LoadStep
<1>1. at \in Team /\ at \in drawn
  BY DEF TypeOK, LoadType
<1>2. shown'[at] = status[at] /\ \A t \in Team : t # at => shown'[t] = shown[t]
  BY <1>1 DEF TypeOK, LoadType, RowType
<1>3. \A t \in Team : (HasGoals(t)' => HasGoals(t)) /\ (HasStatus(t)' => t = at \/ HasStatus(t))
  BY DEF HasGoals, HasStatus, Complete
<1>4. \A t \in Team : (HasGoals(t) => GoalsExact(t))'
  BY <1>3, RowsKept DEF LoadInv
<1>5. \A t \in Team : (HasStatus(t) => StatusExact(t))'
  <2> SUFFICES ASSUME NEW t \in Team, HasStatus(t)' PROVE StatusExact(t)'
    OBVIOUS
  <2>1. CASE t = at
    BY <1>2, <2>1 DEF StatusExact, statusVars
  <2>2. CASE t # at
    BY <1>2, <1>3, <2>2, RowsKept DEF LoadInv
  <2> QED BY <2>1, <2>2
<1>6. ASSUME NEW t \in Team, HasGoals(t)', NEW h \in listed'[t]
      PROVE  (t = at' /\ h \in rest') \/ SharersExact(t, h)'
  BY <1>3, <1>6, RowsKept DEF LoadInv, TypeOK, LoadType, RowType
<1>7. kind' = "table" =>
        /\ teams' \ touched' \subseteq known'
        /\ \A h \in Goal \ touched' : Viewers(h)' \subseteq known'
  BY DEF LoadInv, Reading, goalVars, Viewers, Sees, Live
<1> QED BY <1>4, <1>5, <1>6, <1>7 DEF LoadInv, Reading

LEMMA LoadNextInv == TypeOK /\ LoadInv /\ LoadNext => LoadInv'
<1> SUFFICES ASSUME TypeOK, LoadInv, LoadNext PROVE LoadInv'
  OBVIOUS
<1>1. CASE StartLoad("table", NoTeam) \/ \E t \in Team : StartLoad("page", t)
  BY <1>1 DEF StartLoad, LoadInv, HasGoals, HasStatus, Complete, Reading
<1>2. CASE GetTeam
  <2>1. drawn = {} /\ rest = {} /\ at \in Team
    BY <1>2 DEF GetTeam, LoadInv, Reading, TypeOK, LoadType
  <2>2. \A t \in Team : ~HasGoals(t)' /\ ~HasStatus(t)'
    BY <1>2, <2>1 DEF GetTeam, LoadStep, HasGoals, HasStatus, Complete
  <2> QED BY <1>2, <2>1, <2>2 DEF GetTeam, LoadStep, LoadInv, Reading
<1>3. CASE ListTeams
  BY <1>3, NextRowInv DEF ListTeams, LoadInv
<1>4. CASE GetPeriod
  <2>1. drawn = {} /\ rest = {}
    BY <1>4 DEF GetPeriod, LoadInv, Reading
  <2>2. \A t \in Team : ~HasGoals(t)' /\ ~HasStatus(t)'
    BY <1>4, <2>1 DEF GetPeriod, LoadStep, HasGoals, HasStatus, Complete
  <2> QED BY <1>4, <2>1, <2>2 DEF GetPeriod, LoadStep, LoadInv, Reading
<1> QED BY <1>1, <1>2, <1>3, <1>4, ListGoalsInv, ListSharesOfTableInv, ListSharesOfPageInv, ListNamesInv,
           GetTeamPeriodStatusInv DEF LoadNext

-----------------------------------------------------------------------------
\* Steps of the form

\* What app.js asks: is there another team than t?
LEMMA MoreThanOne ==
  ASSUME NEW S \in SUBSET Team, NEW t \in S
  PROVE  Cardinality(S) > 1 <=> S # {t}
<1>1. IsFiniteSet(S) /\ Cardinality({t}) = 1
  BY ConstantsAssumption, FS_Subset, FS_Singleton
<1>2. ASSUME NEW u \in S, u # t PROVE Cardinality(S) > 1
  <2>1. {t} \subseteq S /\ {t} # S
    BY <1>2
  <2>2. Cardinality({t}) <= Cardinality(S) /\ (Cardinality({t}) = Cardinality(S) => {t} = S)
    BY <1>1, <2>1, FS_Subset
  <2> QED BY <1>1, <2>1, <2>2, FS_CardinalityType
<1> QED BY <1>1, <1>2

LEMMA FormNextInv ==
  ASSUME TypeOK, LoadInv, EditInv, FormNext
  PROVE  LoadInv' /\ EditInv'
<1> DEFINE g == form.goal
<1>1. Leaves /\ UNCHANGED <<loadVars, touched>>
  BY DEF FormNext, OpenForm, UpdateGoal, UpdateOwnerWeight, UpdateShareWeight, FormStep, Leaves,
         goalVars, statusVars
<1>2. TypeOK' /\ LoadInv'
  BY <1>1, FormNextTypes, LeavesLoadInv
<1>3. CASE \E h \in Goal : OpenForm(h)
  <2> PICK h \in Goal : OpenForm(h)
    BY <1>3
  <2>1. epc' = "goal" /\ form'.goal = h /\ form'.sent = SendsTeam(h) /\ h \in listed[at]
    BY DEF OpenForm
  <2>2. listed' = listed /\ at' = at /\ SendsTeam(h)' = SendsTeam(h)
    BY DEF OpenForm, SendsTeam, loadVars, pageVars
  <2> QED BY <1>2, <2>1, <2>2 DEF EditInv, EditsReachTheirTeam
<1>4. CASE UpdateGoal \/ UpdateOwnerWeight \/ UpdateShareWeight
  <2>1. /\ epc \in {"goal", "owner", "share"} /\ form' = form
        /\ UNCHANGED <<owner, order, place, touched, listed, sharers, at>>
    BY <1>4 DEF UpdateGoal, UpdateOwnerWeight, UpdateShareWeight, FormStep, goalVars, loadVars,
                pageVars
  <2>2. /\ epc' # "idle" => g \in listed'[at'] /\ form'.sent = SendsTeam(g)'
        /\ epc' \in {"owner", "share"} => form'.sent
        /\ epc' = "share" => owner[g] # at
    BY <1>4, <2>1 DEF EditInv, SendsTeam, UpdateGoal, UpdateOwnerWeight, UpdateShareWeight, FormStep
  <2>3. EditsReachTheirTeam'
    <3> SUFFICES ASSUME epc' = "done", g \notin touched, place[g][owner[g]] = NoPlace
                 PROVE  wrote' = IF place[g][at] # NoPlace THEN "share" ELSE "goal"
      BY <2>1 DEF EditsReachTheirTeam
    <3>1. /\ g \in Goal /\ at \in Team /\ Sees(at, g) /\ Live(g) /\ owner[g] \in Team
          /\ sharers[at][g] = Viewers(g)
      BY <2>1, FormGoalSeen DEF Live
    <3>2. CASE UpdateGoal
      <4>1. ~form.sent /\ wrote' = "goal"
        BY <3>1, <3>2 DEF UpdateGoal, FormStep
      <4>2. at \in Viewers(g) /\ owner[g] \in Viewers(g) /\ Viewers(g) \in SUBSET Team
        BY <3>1 DEF Viewers, Sees
      <4>3. ~(Cardinality(Viewers(g)) > 1)
        BY <2>1, <3>1, <4>1 DEF EditInv, SendsTeam
      <4>4. owner[g] = at
        BY <4>2, <4>3, <3>1, MoreThanOne
      <4> QED BY <4>1, <4>4
    <3>3. CASE UpdateOwnerWeight
      BY <3>3 DEF UpdateOwnerWeight, FormStep
    <3>4. CASE UpdateShareWeight
      BY <3>1, <3>4 DEF UpdateShareWeight, FormStep, EditInv, Sees
    <3> QED BY <1>4, <3>2, <3>3, <3>4
  <2> QED BY <1>2, <2>1, <2>2, <2>3 DEF EditInv
<1> QED BY <1>2, <1>3, <1>4 DEF FormNext

LEMMA Invariance == Spec => []IInv
<1>1. Init => IInv
  <2> SUFFICES ASSUME Init PROVE IInv
    OBVIOUS
  <2>1. LoadInv
    BY DEF Init, LoadInv, HasGoals, HasStatus, Complete, Reading
  <2>2. EditInv
    BY DEF Init, EditInv, EditsReachTheirTeam
  <2> QED BY <2>1, <2>2, InitTypes DEF IInv
<1>2. IInv /\ [Next]_vars => IInv'
  <2> SUFFICES ASSUME IInv, [Next]_vars PROVE IInv'
    OBVIOUS
  <2> USE DEF IInv
  <2>1. CASE CreateStep \/ WriteStep
    <3>1. TypeOK' /\ Leaves /\ UNCHANGED <<loadVars, formVars>>
      BY <2>1, CreateTypes, WriteStepTypes, CreateLeaves, WriteLeaves
    <3> QED BY <3>1, LeavesLoadInv, LeavesEditInv
  <2>2. CASE LoadNext
    <3>1. TypeOK' /\ LoadInv'
      BY <2>2, LoadNextTypes, LoadNextInv
    <3>2. epc' = "idle"
      BY <2>2 DEF LoadNext, StartLoad, GetPeriod, GetTeam, ListTeams, ListGoalsByTeamPeriod, ListSharesOfTable,
         ListSharesOfPage, ListNames, GetTeamPeriodStatus, LoadStep, TypeOK, FormType, formVars
    <3>3. EditInv'
      BY <3>2 DEF EditInv, EditsReachTheirTeam
    <3> QED BY <3>1, <3>3
  <2>3. CASE FormNext
    BY <2>3, FormNextTypes, FormNextInv
  <2>4. CASE UNCHANGED vars
    <3>1. Leaves /\ UNCHANGED <<loadVars, formVars>> /\ TypeOK'
      <4>1. Leaves /\ UNCHANGED <<loadVars, formVars>>
        BY <2>4 DEF vars, Leaves, goalVars, statusVars
      <4>2. TypeOK'
        BY <2>4 DEF vars, TypeOK, GoalType, StatusType, SlotType, LoadType, RowType, FormType,
           ForeignKeys, Live, SharedTo, goalVars, statusVars, slotVars, loadVars, pageVars, formVars
      <4> QED BY <4>1, <4>2
    <3> QED BY <3>1, LeavesLoadInv, LeavesEditInv
  <2> QED BY <2>1, <2>2, <2>3, <2>4 DEF Next
<1> QED BY <1>1, <1>2, PTL DEF Spec

\* Whatever the interleaving of a load's queries with writes, its page or table is
\* right about the goals and teams that were not written meanwhile.
THEOREM LoadsShowTheUntouched == Spec => []UntouchedShownExactly
<1>1. IInv => UntouchedShownExactly
  <2> SUFFICES ASSUME IInv, lpc = "done"
               PROVE  /\ \A t \in drawn :
                           /\ GoalsExact(t)
                           /\ \A g \in listed[t] : SharersExact(t, g)
                           /\ StatusExact(t)
                      /\ kind = "table" => teams \ touched \subseteq drawn
                      /\ kind = "page" => at \in drawn
    BY DEF UntouchedShownExactly
  <2>1. drawn \subseteq Team /\ rest = {} /\ Reading
    BY DEF IInv, TypeOK, LoadType, LoadInv, Reading
  <2>2. \A t \in drawn : HasGoals(t) /\ HasStatus(t)
    BY DEF HasGoals, HasStatus, Complete
  <2> QED BY <2>1, <2>2 DEF IInv, LoadInv
<1> QED BY <1>1, Invariance, PTL

\* A goal's form reaches the weight that its team sees.
THEOREM FormsReachTheirTeam == Spec => []EditsReachTheirTeam
<1>1. IInv => EditsReachTheirTeam
  BY DEF IInv, EditInv
<1> QED BY <1>1, Invariance, PTL

-----------------------------------------------------------------------------
\* Statuses.  What a slot has read of a status, no choice having come in between,
\* still says whether no_goals was chosen.

SlotInv ==
  /\ teams \cap removed = {}
  /\ \A r \in Req : pc[r] = "forming" => read[r] = "no_goals"
  /\ \A r \in Req : pc[r] \in {"insert", "forming"} /\ r \notin overtaken =>
       IF read[r] = "no_goals" THEN chosen[team[r]] = "no_goals"
                               ELSE ended \/ team[r] \in removed \/ status[team[r]] # "no_goals"

StatusInv == TypeOK /\ SlotInv /\ ChoiceStands

LEMMA CreateStatusInv == StatusInv /\ CreateStep => SlotInv' /\ ChoiceStands'
<1> SUFFICES ASSUME StatusInv, NEW r \in Req,
             \/ \E t \in Team : StartCreate(r, t)
             \/ ReadStatus(r) \/ InsertGoal(r) \/ SetForming(r) \/ Abandon(r)
             PROVE SlotInv' /\ ChoiceStands'
  BY DEF CreateStep
<1> USE DEF StatusInv, TypeOK, StatusType, SlotType, goalVars, statusVars
<1>1. CASE (\E t \in Team : StartCreate(r, t)) \/ Abandon(r)
  BY <1>1 DEF StartCreate, Abandon, Finish, SlotInv, ChoiceStands
<1>2. CASE ReadStatus(r)
  <2>1. ChoiceStands'
    BY <1>2 DEF ReadStatus, ChoiceStands
  <2>2. status[team[r]] = "no_goals" => chosen[team[r]] = "no_goals"
    BY <1>2 DEF ReadStatus, ChoiceStands
  <2>3. SlotInv'
    BY <1>2, <2>2 DEF ReadStatus, Finish, SlotInv
  <2> QED BY <2>1, <2>3
<1>3. CASE InsertGoal(r)
  BY <1>3 DEF InsertGoal, CreateGoal, Finish, SlotInv, ChoiceStands
<1>4. CASE SetForming(r)
  <2>1. ChoiceStands'
    BY <1>4 DEF SetForming, SlotInv, ChoiceStands
  <2>2. SlotInv'
    BY <1>4 DEF SetForming, Finish, SlotInv
  <2> QED BY <2>1, <2>2
<1> QED BY <1>1, <1>2, <1>3, <1>4

LEMMA WriteStatusInv == StatusInv /\ WriteStep => SlotInv' /\ ChoiceStands'
<1> SUFFICES ASSUME StatusInv, WriteStep PROVE SlotInv' /\ ChoiceStands'
  OBVIOUS
<1> USE DEF StatusInv, TypeOK, StatusType, SlotType, Write, goalVars, statusVars, slotVars
<1>1. CASE \E t \in Team : CreateTeam(t)
  BY <1>1 DEF CreateTeam, SlotInv, ChoiceStands
<1>2. CASE \E t \in Team : DeleteTeam(t)
  BY <1>2 DEF DeleteTeam, SlotInv, ChoiceStands, GoalType
<1>3. CASE \E t \in Team, s \in Status : SetTeamPeriodStatus(t, s)
  BY <1>3 DEF SetTeamPeriodStatus, InFlight, SlotInv, ChoiceStands
<1>4. CASE UNCHANGED <<teams, removed, ended, statusVars, slotVars>>
  BY <1>4 DEF SlotInv, ChoiceStands
<1>5. CASE DeletePeriod
  BY <1>5 DEF DeletePeriod, SlotInv, ChoiceStands
<1> QED BY <1>1, <1>2, <1>3, <1>4, <1>5 DEF WriteStep, DeleteGoal, UpdateGoalOwner, DeleteGoalShare,
           ReplaceGoalShares, MoveGoal

LEMMA StatusInvariance == Spec => []StatusInv
<1>1. Init => StatusInv
  BY InitTypes DEF Init, StatusInv, SlotInv, ChoiceStands
<1>2. StatusInv /\ [Next]_vars => SlotInv' /\ ChoiceStands'
  <2> SUFFICES ASSUME StatusInv, [Next]_vars, UNCHANGED <<goalVars, statusVars, slotVars>>
               PROVE  SlotInv' /\ ChoiceStands'
    BY CreateStatusInv, WriteStatusInv
       DEF Next, vars, LoadNext, StartLoad, GetPeriod, GetTeam, ListTeams, ListGoalsByTeamPeriod,
           ListSharesOfTable, ListSharesOfPage, ListNames, GetTeamPeriodStatus, LoadStep,
           FormNext, OpenForm, UpdateGoal, UpdateOwnerWeight, UpdateShareWeight, FormStep
  <2> QED BY DEF StatusInv, SlotInv, ChoiceStands, goalVars, statusVars, slotVars
<1> QED BY <1>1, <1>2, TypeCorrect, PTL DEF Spec, StatusInv

\* A new goal never takes a team out of a status that was chosen for it, unless the
\* choice came between the two statements that read and write the status.
THEOREM ChoicesStand == Spec => []ChoiceStands
<1>1. StatusInv => ChoiceStands
  BY DEF StatusInv
<1> QED BY <1>1, StatusInvariance, PTL

\* A goal that was created leaves no team at no_goals, unless that was chosen meanwhile.
THEOREM CreationsForm == Spec => CreationForms
<1>1. StatusInv /\ [Next]_vars =>
        [\A r \in Req : pc[r] \in {"insert", "forming"} /\ pc'[r] = "done" =>
           status'[team[r]] # "no_goals" \/ r \in overtaken]_vars
  <2> SUFFICES ASSUME StatusInv, Next, NEW r \in Req, pc[r] \in {"insert", "forming"},
                      pc'[r] = "done", r \notin overtaken
               PROVE  status'[team[r]] # "no_goals"
    OBVIOUS
  <2>1. CreateStep
    BY DEF Next, LoadNext, StartLoad, GetPeriod, GetTeam, ListTeams, ListGoalsByTeamPeriod,
       ListSharesOfTable, ListSharesOfPage, ListNames, GetTeamPeriodStatus, LoadStep,
       FormNext, OpenForm, UpdateGoal, UpdateOwnerWeight, UpdateShareWeight, FormStep,
       WriteStep, DeletePeriod, CreateTeam, DeleteTeam, SetTeamPeriodStatus, DeleteGoal, UpdateGoalOwner,
       DeleteGoalShare, ReplaceGoalShares, MoveGoal, Write, slotVars
  <2>2. InsertGoal(r) \/ SetForming(r)
    BY <2>1 DEF CreateStep, StatusInv, TypeOK, SlotType, StartCreate, ReadStatus, InsertGoal,
       SetForming, Abandon, Finish
  <2>3. CASE InsertGoal(r)
    <3>1. Refers(team[r]) /\ read[r] # "no_goals" /\ UNCHANGED statusVars
      BY <2>3 DEF InsertGoal, CreateGoal, Finish, StatusInv, TypeOK, SlotType
    <3> QED BY <3>1 DEF StatusInv, SlotInv, Refers, statusVars
  <2>4. CASE SetForming(r)
    BY <2>4 DEF SetForming, Finish, StatusInv, TypeOK, SlotType, StatusType
  <2> QED BY <2>2, <2>3, <2>4
<1> QED BY <1>1, StatusInvariance, PTL DEF Spec, CreationForms

-----------------------------------------------------------------------------

\* A goal's place in a team's list changes only by moves among the team's own goals,
\* or when the share that fixed it goes.
THEOREM PlacesAreKept == Spec => OrderOnlyByMoves
<1>1. TypeOK /\ [Next]_vars => [\A t \in Team, g \in Goal : KeepsPlace(t, g)]_vars
  <2> SUFFICES ASSUME TypeOK, Next, NEW t \in Team, NEW g \in Goal,
                      Sees(t, g), Sees(t, g)', Key(t, g)' # Key(t, g)
               PROVE  \/ /\ owner[g] = t /\ place[g][t] = NoPlace
                         /\ \E h \in Goal : owner[h] = t /\ order'[h] = order[g]
                                            /\ order'[g] = order[h]
                      \/ place[g][t] # NoPlace /\ place'[g][t] = NoPlace
    BY DEF KeepsPlace
  <2> USE DEF TypeOK, GoalType, Sees, Key, Live, goalVars
  <2>1. ~(order' = order /\ place' = place)
    OBVIOUS
  <2>2. CASE CreateStep
    <3> PICK r \in Req : InsertGoal(r)
      BY <2>1, <2>2 DEF CreateStep, StartCreate, ReadStatus, SetForming, Abandon
    <3> QED BY ConstantsAssumption DEF InsertGoal, CreateGoal
  <2>3. CASE WriteStep
    <3>1. CASE \E u \in Team : DeleteTeam(u)
      <4> PICK u \in Team : DeleteTeam(u)
        BY <3>1
      <4>1. place'[g][t] = place[g][t] \/ place'[g][t] = NoPlace
        BY DEF DeleteTeam
      <4> QED BY <4>1 DEF DeleteTeam
    <3>2. CASE \E h \in Goal : DeleteGoal(h)
      BY <3>2, ConstantsAssumption DEF DeleteGoal
    <3>3. CASE \E h \in Goal, u \in Team : DeleteGoalShare(h, u)
      BY <3>3 DEF DeleteGoalShare
    <3>4. CASE \E h \in Goal, targets \in SUBSET Team : ReplaceGoalShares(h, targets)
      <4> PICK h \in Goal, targets \in SUBSET Team : ReplaceGoalShares(h, targets)
        BY <3>4
      <4>1. order' = order /\ (g # h => place'[g] = place[g])
        BY DEF ReplaceGoalShares
      <4>2. g = h => place'[g][t] = IF t \in targets THEN Upserted(g, t) ELSE NoPlace
        BY DEF ReplaceGoalShares
      <4> QED BY <4>1, <4>2 DEF Upserted
    <3>5. CASE \E h \in Goal, d \in {-1, 1} : MoveGoal(h, d)
      <4> PICK h \in Goal, k \in Goal :
            /\ owner[k] = owner[h] /\ place' = place
            /\ order' = [order EXCEPT ![h] = order[k], ![k] = order[h]]
        BY <3>5 DEF MoveGoal, Neighbour
      <4> QED BY <2>1
    <3>6. CASE DeletePeriod
      BY <3>6, ConstantsAssumption DEF DeletePeriod
    <3> QED BY <2>1, <2>3, <3>1, <3>2, <3>3, <3>4, <3>5, <3>6
           DEF WriteStep, CreateTeam, SetTeamPeriodStatus, UpdateGoalOwner
  <2>4. CASE LoadNext \/ FormNext
    BY <2>1, <2>4 DEF LoadNext, StartLoad, GetPeriod, GetTeam, ListTeams, ListGoalsByTeamPeriod,
       ListSharesOfTable, ListSharesOfPage, ListNames, GetTeamPeriodStatus, LoadStep,
       FormNext, OpenForm, UpdateGoal, UpdateOwnerWeight, UpdateShareWeight, FormStep
  <2> QED BY <2>2, <2>3, <2>4 DEF Next
<1> QED BY <1>1, TypeCorrect, PTL DEF Spec, OrderOnlyByMoves

=============================================================================
