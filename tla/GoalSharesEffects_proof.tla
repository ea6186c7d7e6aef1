----------------------- MODULE GoalSharesEffects_proof -----------------------
(***************************************************************************)
(* What the requests about a goal's shares do to the weights that the      *)
(* teams see, for any teams, weights, share lists and statuses, and any    *)
(* number of requests in flight.                                           *)
(*                                                                         *)
(* The argument: what a request has read stays true until it writes,       *)
(* except where others have written since (Fresh, Dropping), and its loops *)
(* have done what the places of their indices say (Selecting, Replacing).  *)
(* The history variable of GoalSharesTogether names those exceptions; one  *)
(* lemma (KnownFramed) shows that the steps of others need no other.       *)
(***************************************************************************)
EXTENDS GoalShares_proof, GoalSharesTogether

\* The statements that a request gets to, by its kind.
Route(r) ==
  pc[r] \notin Finished =>
    /\ req[r].kind = "apiShare" => pc[r] \in {"scan", "purge", "upsert", "commit"}
    /\ req[r].kind = "apiWeight" => pc[r] \in {"ownWeight", "shareWeight"}
    /\ req[r].kind = "apiUpdate" =>
         \/ pc[r] = "update"
         \/ pc[r] \in {"get", "ownWeight", "shareWeight"} /\ req[r].team # NoTeam
    /\ req[r].kind = "ssrUpdate" => pc[r] \in {"get", "status", "ownWeight", "shareWeight"}
    /\ req[r].kind = "ssrDelete" =>
         pc[r] \in {"get", "list", "status", "delete", "handOver", "unshare"}
    /\ req[r].kind = "ssrShare" =>
         pc[r] \in {"get", "list", "select", "own", "scan", "purge", "upsert", "commit"}
    /\ pc[r] \in {"get", "list", "status"} => list[r] = << >>

RouteInv == ShareInv /\ \A r \in Req : Route(r)

-----------------------------------------------------------------------------
\* One request moves at a time.

LEMMA OthersUndisturbed ==
  ASSUME TypeOK, NEW r \in Req, Start(r) \/ Statement(r) \/ Abort(r), NEW q \in Req \ {r}
  PROVE  Undisturbed(q)
<1>1. ASSUME NEW outcome \in Finished, Finish(r, outcome) PROVE Undisturbed(q)
  BY <1>1, FinishIsLocal
<1>2. ASSUME NEW label, GoTo(r, label), UNCHANGED locals PROVE Undisturbed(q)
  BY <1>2 DEF TypeOK, GoTo, locals, Undisturbed
<1>3. ASSUME NEW label, GoTo(r, label), UNCHANGED <<req, txn>>,
             seen'[q] = seen[q], list'[q] = list[q], idx'[q] = idx[q]
      PROVE  Undisturbed(q)
  BY <1>3 DEF TypeOK, GoTo, txn, Undisturbed
<1>4. CASE Start(r)
  BY <1>4 DEF TypeOK, Start, GoTo, Undisturbed
<1>5. CASE GetGoal(r)
  <2>1. seen'[q] = seen[q] \/ Finish(r, "failed")
    BY <1>5 DEF GetGoal, TypeOK
  <2> QED
    BY <1>1, <1>3, <1>5, <2>1 DEF GetGoal, Finished
<1>6. CASE ListGoalShares(r)
  <2>1. seen'[q] = seen[q] /\ list'[q] = list[q]
    BY <1>6 DEF ListGoalShares, TypeOK
  <2> QED
    BY <1>3, <1>6, <2>1 DEF ListGoalShares
<1>7. CASE GetTeamPeriodStatus(r) \/ UpdateGoal(r) \/ UpdateOwnerWeight(r) \/ HandOver(r)
  <2>1. Finish(r, "failed") \/ Finish(r, "done") \/ \E label : GoTo(r, label) /\ UNCHANGED locals
    BY <1>7 DEF GetTeamPeriodStatus, UpdateGoal, UpdateOwnerWeight, HandOver, locals
  <2> QED
    BY <1>1, <1>2, <2>1 DEF Finished
<1>8. CASE UpdateShareWeight(r) \/ DeleteGoalShare(r) \/ DeleteGoal(r) \/ CommitShares(r) \/ Abort(r)
  BY <1>1, <1>8 DEF UpdateShareWeight, DeleteGoalShare, DeleteGoal, CommitShares, Abort, Finished
<1>9. CASE SelectTeam(r) \/ UpdateGoalOwner(r)
  <2>1. CASE Finish(r, "failed") \/ (GoTo(r, "own") /\ UNCHANGED locals)
    BY <1>1, <1>2, <2>1 DEF Finished
  <2>2. CASE NextTeam(r) /\ UNCHANGED <<req, seen, txn>> /\ list'[q] = list[q]
    <3>1. idx'[q] = idx[q]
      BY <2>2 DEF NextTeam, TypeOK
    <3> QED
      BY <1>3, <2>2, <3>1 DEF NextTeam
  <2> QED
    BY <1>9, <2>1, <2>2 DEF SelectTeam, UpdateGoalOwner, TypeOK
<1>10. CASE ScanShares(r) \/ PurgeShares(r) \/ UpsertGoalShare(r)
  BY <1>10 DEF ScanShares, PurgeShares, UpsertGoalShare, GoTo, TypeOK, Undisturbed
<1> QED
  BY <1>4, <1>5, <1>6, <1>7, <1>8, <1>9, <1>10 DEF Statement

\* What becomes of the request in slot r in a step of its own.
LEMMA RouteNext ==
  ASSUME ShareInv, NEW r \in Req, Route(r), Start(r) \/ Statement(r) \/ Abort(r)
  PROVE  Route(r)'
<1> USE DEF ShareInv
<1>1. ASSUME NEW outcome \in Finished, Finish(r, outcome) PROVE Route(r)'
  BY <1>1 DEF TypeOK, Finish, Route, Finished
<1>2. CASE Start(r)
  <2>1. PICK q \in Requests : /\ req'[r] = q /\ pc'[r] = FirstStatement(q)
                              /\ q.kind # "apiShare" => list'[r] = << >>
    BY <1>2 DEF Start, GoTo, TypeOK
  <2>2. q.kind \in Kind
    BY RequestFields
  <2> QED
    BY <2>1, <2>2 DEF Route, FirstStatement, Kind
<1>3. CASE pc[r] \notin Finished /\ Statement(r)
  <2>1. req[r] \in Requests /\ req[r].kind \in Kind
    BY <1>3, RequestFields DEF Claim
  <2>2. ASSUME NEW label, GoTo(r, label) PROVE pc'[r] = label
    BY <2>2 DEF GoTo, TypeOK
  <2>3. CASE GetGoal(r)
    <3>1. \/ Finish(r, "failed")
          \/ pc'[r] = AfterGet(r) /\ req' = req /\ list' = list
      BY <2>2, <2>3 DEF GetGoal
    <3> QED
      BY <1>1, <1>3, <2>1, <2>3, <3>1 DEF GetGoal, Route, AfterGet, Kind, Finished
  <2>4. CASE ListGoalShares(r)
    <3>1. /\ req' = req /\ pc[r] = "list"
          /\ \/ pc'[r] = "select" /\ list' = list /\ req[r].kind = "ssrShare"
             \/ pc'[r] = "status" /\ list' = list /\ req[r].kind = "ssrDelete"
             \/ pc'[r] = "handOver" /\ req[r].kind = "ssrDelete"
      BY <2>2, <2>4 DEF ListGoalShares
    <3> QED
      BY <1>3, <3>1 DEF Route
  <2>5. CASE GetTeamPeriodStatus(r)
    <3>1. /\ pc[r] = "status"
          /\ \/ Finish(r, "failed")
             \/ /\ pc'[r] = (IF req[r].kind = "ssrDelete" THEN "delete" ELSE "ownWeight")
                /\ req' = req /\ list' = list
      BY <2>2, <2>5 DEF GetTeamPeriodStatus, locals
    <3> QED
      BY <1>1, <1>3, <2>1, <3>1 DEF Route, Kind, Finished
  <2>6. CASE UpdateGoal(r)
    <3>1. /\ pc[r] = "update"
          /\ \/ Finish(r, "done")
             \/ pc'[r] = "ownWeight" /\ req' = req /\ list' = list /\ req[r].team # NoTeam
      BY <2>2, <2>6 DEF UpdateGoal, locals
    <3> QED
      BY <1>1, <1>3, <2>1, <3>1 DEF Route, Kind, Finished
  <2>7. CASE UpdateOwnerWeight(r)
    <3>1. /\ pc[r] = "ownWeight"
          /\ Finish(r, "done") \/ (pc'[r] = "shareWeight" /\ req' = req /\ list' = list)
      BY <2>2, <2>7 DEF UpdateOwnerWeight, locals
    <3> QED
      BY <1>1, <1>3, <2>1, <3>1 DEF Route, Kind, Finished
  <2>8. CASE HandOver(r)
    <3>1. pc[r] = "handOver" /\ pc'[r] = "unshare" /\ req' = req /\ list' = list
      BY <2>2, <2>8 DEF HandOver, locals
    <3> QED
      BY <1>3, <2>1, <3>1 DEF Route, Kind
  <2>9. CASE UpdateShareWeight(r) \/ DeleteGoalShare(r) \/ DeleteGoal(r) \/ CommitShares(r)
    BY <1>1, <2>9 DEF UpdateShareWeight, DeleteGoalShare, DeleteGoal, CommitShares, Finished
  <2>10. CASE SelectTeam(r) \/ UpdateGoalOwner(r)
    <3>1. /\ pc[r] \in {"select", "own"}
          /\ Finish(r, "failed") \/ (pc'[r] \in {"select", "own", "scan"} /\ req' = req)
      BY <2>2, <2>10 DEF SelectTeam, UpdateGoalOwner, NextTeam, locals
    <3> QED
      BY <1>1, <1>3, <2>1, <3>1 DEF Route, Kind, Finished
  <2>11. CASE ScanShares(r) \/ PurgeShares(r) \/ UpsertGoalShare(r)
    <3>1. /\ pc[r] \in {"scan", "purge", "upsert"}
          /\ pc'[r] \in {"purge", "upsert", "commit"} /\ req' = req
      BY <2>2, <2>11 DEF ScanShares, PurgeShares, UpsertGoalShare
    <3> QED
      BY <1>3, <2>1, <3>1 DEF Route, Kind
  <2> QED
    BY <1>3, <2>3, <2>4, <2>5, <2>6, <2>7, <2>8, <2>9, <2>10, <2>11 DEF Statement
<1>4. CASE Abort(r)
  BY <1>1, <1>4 DEF Abort, Finished
<1>5. Statement(r) => pc[r] \notin Finished
  BY DEF Statement, GetGoal, ListGoalShares, GetTeamPeriodStatus, UpdateGoal, UpdateOwnerWeight,
     UpdateShareWeight, HandOver, DeleteGoalShare, DeleteGoal, SelectTeam, UpdateGoalOwner,
     ScanShares, PurgeShares, UpsertGoalShare, CommitShares, Finished
<1> QED
  BY <1>2, <1>3, <1>4, <1>5

LEMMA RouteInvInductive == RouteInv /\ [Next]_vars => RouteInv'
<1> SUFFICES ASSUME RouteInv, [Next]_vars PROVE RouteInv'
  OBVIOUS
<1>1. ShareInv'
  BY ShareInvInductive DEF RouteInv
<1>2. ASSUME NEW r \in Req, Start(r) \/ Statement(r) \/ Abort(r), NEW q \in Req PROVE Route(q)'
  <2>1. CASE q = r
    BY <1>2, <2>1, RouteNext DEF RouteInv
  <2>2. CASE q # r
    <3>1. Undisturbed(q)
      BY <1>2, <2>2, OthersUndisturbed DEF RouteInv, ShareInv
    <3> QED
      BY <3>1 DEF RouteInv, Route, Undisturbed
  <2> QED
    BY <2>1, <2>2
<1>3. CASE UNCHANGED <<pc, locals>>
  BY <1>1, <1>3 DEF RouteInv, Route, locals
<1>4. (\E t \in Team : SetTeamPeriodStatus(t)) \/ UNCHANGED vars => UNCHANGED <<pc, locals>>
  BY DEF SetTeamPeriodStatus, vars, locals
<1> QED
  BY <1>1, <1>2, <1>3, <1>4 DEF RouteInv, Next

LEMMA RouteInvHolds == Spec => []RouteInv
<1>1. Init => RouteInv
  <2> SUFFICES ASSUME Init PROVE RouteInv
    OBVIOUS
  <2>1. \A r \in Req : Route(r)
    BY DEF Init, Route, Finished
  <2> QED
    BY <2>1, InitShareInv DEF RouteInv
<1> QED
  BY <1>1, RouteInvInductive, PTL DEF Spec

-----------------------------------------------------------------------------
\* What the teams see.

LEMMA SeenUnchanged ==
  ASSUME UNCHANGED rows, NEW t
  PROVE  OthersUnaffected(t)
BY DEF rows, OthersUnaffected, SeenWeight, Visible, Exists, Shared

\* UpdateGoalTeamWeight, in either of its statements.
LEMMA WeightWriteIsolated ==
  ASSUME ShareInv, NEW r \in Req, UpdateOwnerWeight(r) \/ UpdateShareWeight(r)
  PROVE  OthersUnaffected(TargetTeam(r))
<1>1. PICK t : t = TargetTeam(r)
  OBVIOUS
<1>2. CASE UpdateOwnerWeight(r)
  <2>1. owner' = owner /\ share' = share /\ (weight' = weight \/ owner = t)
    BY <1>1, <1>2 DEF UpdateOwnerWeight
  <2> QED
    BY <1>1, <2>1 DEF OthersUnaffected, SeenWeight, Visible, Exists, Shared
<1>3. CASE UpdateShareWeight(r)
  <2>1. /\ owner' = owner /\ weight' = weight
        /\ share' = share \/ share' = [share EXCEPT ![t] = req[r].weight]
    BY <1>1, <1>3 DEF UpdateShareWeight, goalRow
  <2>2. \A u \in Team \ {t} : share'[u] = share[u]
    BY <2>1 DEF ShareInv, TypeOK
  <2> QED
    BY <1>1, <2>1, <2>2 DEF OthersUnaffected, SeenWeight, Visible, Exists, Shared
<1> QED
  BY <1>2, <1>3

\* The step of a request is a step of its own.
LEMMA SteppedBySelf ==
  ASSUME ShareInv, [Next]_vars, NEW r \in Req, Stepped(r)
  PROVE  Statement(r) \/ Abort(r)
<1>1. ASSUME NEW q \in Req, Start(q) \/ Statement(q) \/ Abort(q)
      PROVE  q = r
  BY <1>1, OthersUndisturbed DEF ShareInv, Stepped, Undisturbed
<1>2. pc' # pc
  BY DEF Stepped
<1>3. ~Start(r)
  BY DEF Start, Stepped
<1> QED
  BY <1>1, <1>2, <1>3 DEF Next, vars, SetTeamPeriodStatus

\* The weight endpoint and the page's form change the weight of no other team,
\* whatever other requests write between their read of the goal and their
\* update (UpdateGoalTeamWeight).
THEOREM WeightEditsAlwaysIsolated == Spec => WeightEditsIsolated
<1> DEFINE Isolated ==
      \A r \in Req : Stepped(r) /\ req[r].kind \in {"apiWeight", "ssrUpdate"}
        => OthersUnaffected(TargetTeam(r))
<1>1. RouteInv /\ [Next]_vars => [Isolated]_vars
  <2> SUFFICES ASSUME RouteInv, [Next]_vars, NEW r \in Req, Stepped(r),
                      req[r].kind \in {"apiWeight", "ssrUpdate"}
               PROVE  OthersUnaffected(TargetTeam(r))
    OBVIOUS
  <2>1. ShareInv /\ Route(r) /\ pc[r] \in {"get", "status", "ownWeight", "shareWeight"}
    BY DEF RouteInv, Route, Stepped
  <2>2. Statement(r) \/ Abort(r)
    BY <2>1, SteppedBySelf
  <2>3. CASE Abort(r) \/ GetGoal(r) \/ GetTeamPeriodStatus(r)
    BY <2>3, SeenUnchanged DEF Abort, GetGoal, GetTeamPeriodStatus
  <2>4. CASE UpdateOwnerWeight(r) \/ UpdateShareWeight(r)
    BY <2>1, <2>4, WeightWriteIsolated
  <2> QED
    BY <2>1, <2>2, <2>3, <2>4 DEF Statement, ListGoalShares, UpdateGoal, HandOver, DeleteGoalShare,
       DeleteGoal, SelectTeam, UpdateGoalOwner, ScanShares, PurgeShares, UpsertGoalShare, CommitShares
<1> QED
  BY <1>1, RouteInvHolds, PTL DEF Spec, WeightEditsIsolated

-----------------------------------------------------------------------------
\* What a request knows.

HandingOver(r) == pc[r] = "handOver" \/ (pc[r] = "unshare" /\ list[r] # << >>)

\* The request has read the goals row and not yet written to it.
HasGoal(r) ==
  \/ pc[r] \in {"list", "status", "delete", "handOver"}
  \/ pc[r] = "update" /\ req[r].team # NoTeam
  \/ pc[r] = "unshare" /\ list[r] = << >>
  \/ pc[r] \in {"ownWeight", "shareWeight"} /\ req[r].kind = "ssrUpdate"

\* What it read is so still, if nobody else changed that row.
Fresh(r) ==
  /\ HasGoal(r) => seen[r].owner \in Team
  /\ GoalFresh(r) =>
       /\ HasGoal(r) => Exists /\ seen[r].owner = owner /\ seen[r].weight = weight
       /\ pc[r] = "shareWeight" => owner # TargetTeam(r)

SharesFresh(r) == stale[r].shares = {}

\* A team that removes the goal: who it is, and how far it has got.
Dropping(r) ==
  pc[r] \notin Finished /\ req[r].kind = "ssrDelete" =>
    /\ pc[r] \in {"list", "status", "delete"} \/ HandingOver(r)
         => req[r].team \in {NoTeam, seen[r].owner}
    /\ pc[r] = "unshare" /\ list[r] = << >> => req[r].team \notin {NoTeam, seen[r].owner}
    /\ pc[r] \in {"status", "delete"} /\ SharesFresh(r) => Shared = {}
    /\ HandingOver(r) =>
         /\ SharesFresh(r) => seen[r].share = share
         /\ list[r][1].team \in Team /\ list[r][1].weight = seen[r].share[list[r][1].team]
         /\ seen[r].share[list[r][1].team] # NoShare
         /\ pc[r] = "unshare" /\ GoalFresh(r) =>
              owner = list[r][1].team /\ weight = list[r][1].weight

TeamsIn(s, n) == {s[k].team : k \in 1..n}

\* How many of the selected teams have been looked at.
Looked(r) == IF pc[r] \in {"select", "own"} THEN idx[r] - 1 ELSE Len(Selected(r))

\* HandleUpdateGoalShare's loop: the list and the goals row are those of the
\* teams looked at so far.
Selecting(r) ==
  /\ pc[r] \in {"select", "own", "scan", "purge", "upsert", "commit"} /\ req[r].kind = "ssrShare" =>
       LET found == TeamsIn(Selected(r), Looked(r))
       IN /\ seen[r].owner \in Team
          /\ TeamsOf(list[r]) = found \ {NewOwner(r)}
          /\ \A k \in DOMAIN list[r] : list[r][k].weight = SeenShareWeight(r, list[r][k].team)
          /\ GoalFresh(r) =>
               IF NewOwner(r) \in found
               THEN owner = NewOwner(r) /\ weight = OwnerWeight(r)
               ELSE owner = seen[r].owner /\ weight = seen[r].weight
  /\ pc[r] = "own" => Selected(r)[idx[r]].team = NewOwner(r)

\* w is the last weight that the first n entries of s give team t.
LastWeight(s, n, t, w) ==
  \E k \in 1..n : s[k].team = t /\ s[k].weight = w /\ \A j \in 1..n : s[j].team = t => j <= k

\* ReplaceGoalShares: the rows it has deleted, and those it has written.
Replacing(r) ==
  /\ pc[r] = "purge" => Shared \ TeamsOf(list[r]) \subseteq doomed[r] \cup stale[r].shares
  /\ pc[r] \in {"upsert", "commit"} =>
       /\ Shared \ TeamsOf(list[r]) \subseteq dels[r] \cup stale[r].shares
       /\ Exists => \A t \in Team :
            IF t \in TeamsIn(list[r], idx[r] - 1)
            THEN LastWeight(list[r], idx[r] - 1, t, ups[r][t])
            ELSE ups[r][t] = NoShare
  /\ pc[r] = "commit" => idx[r] = Len(list[r]) + 1

Known(r) == Fresh(r) /\ Dropping(r) /\ Selecting(r) /\ Replacing(r)

KnownInv == RouteInv /\ \A r \in Req : Known(r)

\* A request's own statement makes nothing stale that it keeps.
Kept(r) ==
  /\ KnowsGoal(r)' /\ GoalFresh(r)' => GoalFresh(r)
  /\ KnowsShares(r)' => stale'[r].shares = stale[r].shares

LEMMA OwnStepKeeps ==
  ASSUME NEW r \in Req, NoteStale, pc'[r] # pc[r] \/ UNCHANGED rows
  PROVE  Kept(r)
<1>1. stale'[r].goal = (KnowsGoal(r)' /\ (stale[r].goal \/ (pc'[r] = pc[r] /\ goalRow' # goalRow)))
  BY DEF NoteStale
<1>2. stale'[r].shares = IF KnowsShares(r)'
                         THEN stale[r].shares \cup (IF pc'[r] = pc[r] THEN Changed ELSE {})
                         ELSE {}
  BY DEF NoteStale
<1>3. UNCHANGED rows => goalRow' = goalRow /\ Changed = {}
  BY DEF rows, goalRow, Changed
<1> QED
  BY <1>1, <1>2, <1>3 DEF Kept, GoalFresh

LEMMA KeepsGoal ==
  ASSUME NEW r \in Req, Kept(r), pc'[r] \notin Finished \cup {"get"},
         req'[r].kind \in {"apiUpdate", "ssrUpdate", "ssrDelete", "ssrShare"}
  PROVE  GoalFresh(r)' => GoalFresh(r)
BY DEF Kept, KnowsGoal

LEMMA KeepsShares ==
  ASSUME NEW r \in Req, Kept(r),
         \/ pc'[r] \in {"status", "delete", "handOver", "unshare"} /\ req'[r].kind = "ssrDelete"
         \/ pc'[r] \in {"purge", "upsert", "commit"}
  PROVE  stale'[r].shares = stale[r].shares /\ (SharesFresh(r)' <=> SharesFresh(r))
BY DEF Kept, KnowsShares, SharesFresh, Finished

LEMMA KnownFinished ==
  ASSUME TypeOK, NEW r \in Req, NEW outcome \in Finished, Finish(r, outcome)
  PROVE  Known(r)'
BY DEF TypeOK, Finish, Known, Fresh, HasGoal, Dropping, HandingOver, Selecting, Replacing, Finished

LEMMA StartKnown ==
  ASSUME ShareInv, NEW r \in Req, Start(r)
  PROVE  Known(r)'
<1>1. PICK q \in Requests : /\ req'[r] = q /\ pc'[r] = FirstStatement(q)
                            /\ pc'[r] \in {"scan", "ownWeight", "update", "get"}
                            /\ pc'[r] = "scan" => q.kind = "apiShare"
                            /\ pc'[r] = "ownWeight" => q.kind = "apiWeight"
                            /\ pc'[r] = "update" => q.team = NoTeam
  BY DEF ShareInv, TypeOK, Start, GoTo, FirstStatement
<1> QED
  BY <1>1 DEF Known, Fresh, HasGoal, Dropping, HandingOver, Selecting, Replacing

LEMMA GetGoalKnown ==
  ASSUME ShareInv, NEW r \in Req, Route(r), GetGoal(r)
  PROVE  Known(r)'
<1> USE DEF ShareInv
<1>1. CASE Finish(r, "failed")
  BY <1>1, KnownFinished DEF Finished
<1>2. CASE ~Finish(r, "failed")
  <2>1. /\ pc[r] = "get" /\ Exists
        /\ seen' = [seen EXCEPT ![r] = [seen[r] EXCEPT !.owner = owner, !.weight = weight]]
        /\ pc'[r] = AfterGet(r) /\ UNCHANGED <<rows, req, list, idx, txn>>
    BY <1>2 DEF GetGoal, GoTo, TypeOK
  <2>2. seen'[r].owner = owner /\ seen'[r].weight = weight
    <3>1. seen'[r] = [seen[r] EXCEPT !.owner = owner, !.weight = weight]
      BY <2>1 DEF TypeOK
    <3> QED
      BY <3>1 DEF TypeOK
  <2>3. req[r] \in Requests /\ req[r].kind \in Kind /\ list[r] = << >>
    BY <2>1, RequestFields DEF Claim, Route, Finished
  <2>4. pc'[r] \in {"update", "status", "unshare", "list"} /\ pc'[r] = AfterGet(r)
    BY <2>1 DEF AfterGet
  <2>5. Fresh(r)'
    <3>1. owner \in Team
      BY <2>1 DEF TypeOK, Exists
    <3> QED
      BY <2>1, <2>2, <2>4, <3>1 DEF Fresh, HasGoal, Exists, rows
  <2>6. Dropping(r)'
    <3>1. req[r].kind = "ssrDelete" =>
            \/ pc'[r] = "unshare" /\ req[r].team \notin {NoTeam, owner}
            \/ pc'[r] = "list" /\ req[r].team \in {NoTeam, owner}
      BY <2>4 DEF AfterGet
    <3> QED
      BY <2>1, <2>2, <2>3, <3>1 DEF Dropping, HandingOver, rows
  <2>7. Selecting(r)' /\ Replacing(r)'
    BY <2>4 DEF Selecting, Replacing
  <2> QED
    BY <2>5, <2>6, <2>7 DEF Known
<1> QED
  BY <1>1, <1>2

LEMMA ListGoalSharesKnown ==
  ASSUME ShareInv, NEW r \in Req, Route(r), Known(r), Kept(r), ListGoalShares(r)
  PROVE  Known(r)'
<1> USE DEF ShareInv
<1>1. /\ pc[r] = "list" /\ UNCHANGED <<rows, req, idx, txn>>
      /\ seen' = [seen EXCEPT ![r] = [seen[r] EXCEPT !.share = share]]
  BY DEF ListGoalShares
<1>2. /\ seen'[r].owner = seen[r].owner /\ seen'[r].weight = seen[r].weight
      /\ seen'[r].share = share
  <2>1. seen'[r] = [seen[r] EXCEPT !.share = share]
    BY <1>1 DEF TypeOK
  <2> QED
    BY <2>1 DEF TypeOK
<1>3. /\ GoalFresh(r) => Exists /\ seen[r].owner = owner /\ seen[r].weight = weight
      /\ seen[r].owner \in Team /\ idx[r] = 1 /\ list[r] = << >> /\ req[r] \in Requests
      /\ req[r].kind = "ssrDelete" => req[r].team \in {NoTeam, seen[r].owner}
  BY <1>1 DEF Known, Fresh, HasGoal, Dropping, Route, Claim, TypeOK, Exists, Finished
<1>4. GoalFresh(r)' => GoalFresh(r)
  <2>1. pc'[r] \in {"select", "status", "handOver"} /\ req'[r].kind \in {"ssrShare", "ssrDelete"}
    BY DEF ListGoalShares, GoTo, TypeOK
  <2> QED
    BY <2>1, KeepsGoal DEF Finished
<1>5. Fresh(r)'
  <2>1. pc'[r] \in {"select", "status", "handOver"}
    BY DEF ListGoalShares, GoTo, TypeOK
  <2> QED
    BY <1>1, <1>2, <1>3, <1>4, <2>1 DEF Fresh, HasGoal, Exists, rows
<1>6. CASE req[r].kind = "ssrShare"
  <2>1. pc'[r] = "select" /\ list'[r] = << >> /\ req'[r] = req[r] /\ idx'[r] = 1
    BY <1>1, <1>3, <1>6 DEF ListGoalShares, GoTo, TypeOK
  <2>2. Looked(r)' = 0
    BY <2>1 DEF Looked
  <2>3. TeamsIn(Selected(r)', 0) = {} /\ TeamsOf(list'[r]) = {}
    BY <2>1 DEF TeamsIn, TeamsOf
  <2>4. Selecting(r)'
    BY <1>1, <1>2, <1>3, <1>4, <2>1, <2>2, <2>3 DEF Selecting, rows
  <2> QED
    BY <1>5, <1>6, <2>1, <2>4 DEF Known, Dropping, Replacing
<1>7. CASE req[r].kind = "ssrDelete" /\ GoTo(r, "status") /\ UNCHANGED list
  <2>1. pc'[r] = "status" /\ list'[r] = << >> /\ req'[r] = req[r] /\ Shared = {}
    BY <1>1, <1>3, <1>7 DEF ListGoalShares, GoTo, TypeOK
  <2>2. Dropping(r)'
    BY <1>1, <1>2, <1>3, <1>7, <2>1 DEF Dropping, HandingOver, Shared, rows
  <2> QED
    BY <1>5, <2>1, <2>2 DEF Known, Selecting, Replacing
<1>8. ASSUME req[r].kind = "ssrDelete", NEW t \in Shared, GoTo(r, "handOver"),
             list' = [list EXCEPT ![r] = <<[team |-> t, weight |-> share[t]]>>]
      PROVE  Known(r)'
  <2>1. pc'[r] = "handOver" /\ req'[r] = req[r] /\ list'[r] = <<[team |-> t, weight |-> share[t]]>>
    BY <1>1, <1>8 DEF GoTo, TypeOK
  <2>2. list'[r][1].team = t /\ list'[r][1].weight = share[t]
    BY <2>1
  <2>3. Dropping(r)'
    BY <1>1, <1>2, <1>3, <1>8, <2>1, <2>2 DEF Dropping, HandingOver, Shared, rows
  <2> QED
    BY <1>5, <2>1, <2>3 DEF Known, Selecting, Replacing
<1> QED
  BY <1>6, <1>7, <1>8 DEF ListGoalShares

LEMMA GetTeamPeriodStatusKnown ==
  ASSUME ShareInv, NEW r \in Req, Route(r), Known(r), Kept(r), GetTeamPeriodStatus(r)
  PROVE  Known(r)'
<1> USE DEF ShareInv
<1>1. CASE Finish(r, "failed")
  BY <1>1, KnownFinished DEF Finished
<1>2. CASE ~Finish(r, "failed")
  <2>1. /\ pc[r] = "status" /\ UNCHANGED <<rows, locals>>
        /\ pc'[r] = IF req[r].kind = "ssrDelete" THEN "delete" ELSE "ownWeight"
    BY <1>2 DEF GetTeamPeriodStatus, GoTo, TypeOK
  <2>2. req[r].kind \in {"ssrDelete", "ssrUpdate"}
    BY <2>1, RequestFields DEF Claim, Route, Kind, Finished
  <2> QED
    <3>1. GoalFresh(r)' => GoalFresh(r)
      BY <2>1, <2>2, KeepsGoal DEF locals, Finished
    <3>2. req[r].kind = "ssrDelete" => (SharesFresh(r)' => SharesFresh(r))
      BY <2>1, KeepsShares DEF locals
    <3> QED
      BY <2>1, <2>2, <3>1, <3>2
      DEF Known, Fresh, HasGoal, Exists, Dropping, HandingOver, Selecting, Replacing, Shared, rows,
          locals, Finished
<1> QED
  BY <1>1, <1>2

LEMMA UpdateGoalKnown ==
  ASSUME ShareInv, NEW r \in Req, Route(r), UpdateGoal(r)
  PROVE  Known(r)'
<1> USE DEF ShareInv
<1>1. CASE Finish(r, "done")
  BY <1>1, KnownFinished DEF Finished
<1>2. CASE ~Finish(r, "done")
  <2>1. pc[r] = "update" /\ pc'[r] = "ownWeight" /\ req' = req
    BY <1>2 DEF UpdateGoal, GoTo, TypeOK, locals
  <2>2. req[r].kind = "apiUpdate"
    BY <2>1, RequestFields DEF Claim, Route, Kind, Finished
  <2> QED
    BY <2>1, <2>2 DEF Known, Fresh, HasGoal, Dropping, HandingOver, Selecting, Replacing
<1> QED
  BY <1>1, <1>2

LEMMA UpdateOwnerWeightKnown ==
  ASSUME ShareInv, NEW r \in Req, Route(r), Known(r), Kept(r), UpdateOwnerWeight(r)
  PROVE  Known(r)'
<1> USE DEF ShareInv
<1>1. CASE Finish(r, "done")
  BY <1>1, KnownFinished DEF Finished
<1>2. CASE ~Finish(r, "done")
  <2>1. /\ pc[r] = "ownWeight" /\ pc'[r] = "shareWeight" /\ UNCHANGED <<rows, locals>>
        /\ owner # TargetTeam(r)
    BY <1>2 DEF UpdateOwnerWeight, GoTo, TypeOK, rows
  <2>2. req[r].kind \in {"apiWeight", "apiUpdate", "ssrUpdate"}
    BY <2>1, RequestFields DEF Claim, Route, Kind, Finished
  <2>3. Fresh(r)'
    <3>1. req[r].kind = "ssrUpdate" => (GoalFresh(r)' => GoalFresh(r))
      BY <2>1, KeepsGoal DEF locals, Finished
    <3> QED
      BY <2>1, <3>1 DEF Known, Fresh, HasGoal, Exists, TargetTeam, rows, locals
  <2> QED
    BY <2>1, <2>2, <2>3 DEF Known, Dropping, HandingOver, Selecting, Replacing, locals
<1> QED
  BY <1>1, <1>2

LEMMA HandOverKnown ==
  ASSUME ShareInv, NEW r \in Req, Route(r), Known(r), Kept(r), HandOver(r)
  PROVE  Known(r)'
<1> USE DEF ShareInv
<1>1. pc[r] = "handOver" /\ pc'[r] = "unshare" /\ UNCHANGED <<share, locals>> /\ list[r] # << >>
  BY DEF HandOver, GoTo, TypeOK, Claim
<1>2. req[r].kind = "ssrDelete"
  BY <1>1, RequestFields DEF Claim, Route, Kind, Finished
<1>3. (GoalFresh(r)' => GoalFresh(r)) /\ (SharesFresh(r)' => SharesFresh(r))
  BY <1>1, <1>2, KeepsGoal, KeepsShares DEF locals, Finished
<1>4. GoalFresh(r) => owner' = list[r][1].team /\ weight' = list[r][1].weight
  BY <1>1 DEF Known, Fresh, HasGoal, HandOver, SetGoal
<1>5. Fresh(r)'
  BY <1>1 DEF Fresh, HasGoal, locals
<1>6. Dropping(r)'
  BY <1>1, <1>2, <1>3, <1>4 DEF Known, Dropping, HandingOver, Shared, locals, Finished
<1> QED
  BY <1>1, <1>2, <1>5, <1>6 DEF Known, Selecting, Replacing, locals

-----------------------------------------------------------------------------
\* The loops.

LEMMA TeamsInNext ==
  ASSUME NEW s, NEW n \in Nat
  PROVE  TeamsIn(s, n + 1) = TeamsIn(s, n) \cup {s[n + 1].team}
BY DEF TeamsIn

LEMMA TeamsInAll ==
  ASSUME NEW s \in Seq(Target)
  PROVE  TeamsIn(s, Len(s)) = TeamsOf(s)
BY DEF TeamsIn, TeamsOf

LEMMA TeamsAppended ==
  ASSUME NEW s \in Seq(Target), NEW e \in Target
  PROVE  /\ TeamsOf(Append(s, e)) = TeamsOf(s) \cup {e.team}
         /\ \A k \in DOMAIN Append(s, e) :
              (k \in DOMAIN s /\ Append(s, e)[k] = s[k]) \/ Append(s, e)[k] = e
<1>1. /\ DOMAIN Append(s, e) = DOMAIN s \cup {Len(s) + 1}
      /\ Append(s, e)[Len(s) + 1] = e
      /\ \A k \in DOMAIN s : Append(s, e)[k] = s[k]
  OBVIOUS
<1> QED
  BY <1>1 DEF TeamsOf

\* What the request says of itself through its loops.
LEMMA SelectionFramed ==
  ASSUME NEW r \in Req, req'[r] = req[r], seen'[r] = seen[r]
  PROVE  /\ Selected(r)' = Selected(r) /\ NewOwner(r)' = NewOwner(r)
         /\ OwnerWeight(r)' = OwnerWeight(r)
         /\ \A t : SeenShareWeight(r, t)' = SeenShareWeight(r, t)
BY DEF Selected, NewOwner, OwnerWeight, SeenShareWeight

LEMMA NextTeamLooked ==
  ASSUME ShareInv, NEW r \in Req, pc[r] \in {"select", "own"}, NextTeam(r), req' = req
  PROVE  /\ Looked(r) \in Nat /\ Looked(r) + 1 = idx[r]
         /\ Looked(r)' = Looked(r) + 1
         /\ pc'[r] \in {"select", "scan"}
<1>1. idx[r] \in 1..Len(Selected(r)) /\ Len(Selected(r)) \in Nat
  BY SelectionTyped
<1>2. CASE idx[r] = Len(Selected(r))
  <2>1. pc'[r] = "scan" /\ Selected(r)' = Selected(r)
    BY <1>2 DEF NextTeam, GoTo, ShareInv, TypeOK, Selected
  <2> QED
    BY <1>1, <1>2, <2>1 DEF Looked
<1>3. CASE idx[r] # Len(Selected(r))
  <2>1. pc'[r] = "select" /\ idx'[r] = idx[r] + 1
    BY <1>3 DEF NextTeam, GoTo, ShareInv, TypeOK
  <2> QED
    BY <1>1, <2>1 DEF Looked
<1> QED
  BY <1>2, <1>3

LEMMA SelectTeamKnown ==
  ASSUME ShareInv, NEW r \in Req, Route(r), Known(r), Kept(r), SelectTeam(r)
  PROVE  Known(r)'
<1> DEFINE t == Selected(r)[idx[r]].team
           e == [team |-> t, weight |-> SeenShareWeight(r, t)]
<1>1. pc[r] = "select" /\ UNCHANGED rows /\ req[r].kind = "ssrShare" /\ t \in Team
  BY SelectionTyped DEF SelectTeam, ShareInv, Claim
<1>2. CASE Finish(r, "failed")
  BY <1>2, KnownFinished DEF ShareInv, Finished
<1>3. CASE t = NewOwner(r) /\ GoTo(r, "own") /\ UNCHANGED locals
  <2>1. pc'[r] = "own" /\ UNCHANGED <<req, seen, list, idx>>
    BY <1>3 DEF GoTo, ShareInv, TypeOK, locals
  <2>2. Looked(r)' = Looked(r) /\ t' = t
    BY <1>1, <2>1 DEF Looked, Selected
  <2>3. Selecting(r)'
    <3>1. GoalFresh(r)' => GoalFresh(r)
      BY <1>1, <2>1, KeepsGoal DEF Finished
    <3> QED
      BY <1>1, <1>3, <2>1, <2>2, <3>1, SelectionFramed DEF Known, Selecting, rows
  <2> QED
    BY <1>1, <2>1, <2>3 DEF Known, Fresh, HasGoal, Dropping, HandingOver, Replacing
<1>4. CASE /\ t # NewOwner(r) /\ NextTeam(r) /\ UNCHANGED <<req, seen, txn>>
           /\ list' = [list EXCEPT ![r] = Append(list[r], e)]
  <2>1. /\ Looked(r) \in Nat /\ Looked(r) + 1 = idx[r] /\ Looked(r)' = Looked(r) + 1
        /\ pc'[r] \in {"select", "scan"}
    BY <1>1, <1>4, NextTeamLooked
  <2>2. TeamsIn(Selected(r), Looked(r) + 1) = TeamsIn(Selected(r), Looked(r)) \cup {t}
    BY <2>1, TeamsInNext
  <2>3. list[r] \in Seq(Target) /\ list'[r] = Append(list[r], e) /\ e \in Target
    <3>1. SeenShareWeight(r, t) \in Weight
      BY <1>1, ConstantsAssumption DEF SeenShareWeight, ShareInv, TypeOK
    <3> QED
      BY <1>1, <1>4, <3>1 DEF ShareInv, TypeOK, Target
  <2>4. /\ TeamsOf(list'[r]) = TeamsOf(list[r]) \cup {t}
        /\ \A k \in DOMAIN list'[r] :
             (k \in DOMAIN list[r] /\ list'[r][k] = list[r][k]) \/ list'[r][k] = e
    BY <2>3, TeamsAppended
  <2>5. \A k \in DOMAIN list'[r] : list'[r][k].weight = SeenShareWeight(r, list'[r][k].team)
    BY <1>1, <2>4 DEF Known, Selecting
  <2>6. Selecting(r)'
    <3>1. GoalFresh(r)' => GoalFresh(r)
      BY <1>1, <1>4, <2>1, KeepsGoal DEF Finished
    <3> QED
      BY <1>1, <1>4, <2>1, <2>2, <2>4, <2>5, <3>1, SelectionFramed DEF Known, Selecting, rows
  <2> QED
    BY <1>1, <1>4, <2>1, <2>6 DEF Known, Fresh, HasGoal, Dropping, HandingOver, Replacing
<1> QED
  BY <1>2, <1>3, <1>4 DEF SelectTeam

LEMMA UpdateGoalOwnerKnown ==
  ASSUME ShareInv, NEW r \in Req, Route(r), Known(r), Kept(r), UpdateGoalOwner(r)
  PROVE  Known(r)'
<1> DEFINE t == Selected(r)[idx[r]].team
<1>1. /\ pc[r] = "own" /\ UNCHANGED <<share, req, seen, list, txn>> /\ req[r].kind = "ssrShare"
      /\ t = NewOwner(r)
  BY DEF UpdateGoalOwner, ShareInv, Claim, Known, Selecting
<1>2. NewOwner(r) \in Team
  BY <1>1, SelectionTyped
<1>3. GoalFresh(r) => owner' = NewOwner(r) /\ weight' = OwnerWeight(r)
  <2>1. GoalFresh(r) => Exists
    BY <1>1, <1>2, ConstantsAssumption DEF Known, Selecting, Exists
  <2> QED
    BY <2>1 DEF UpdateGoalOwner, SetGoal
<1>4. /\ Looked(r) \in Nat /\ Looked(r) + 1 = idx[r] /\ Looked(r)' = Looked(r) + 1
      /\ pc'[r] \in {"select", "scan"}
  BY <1>1, NextTeamLooked DEF UpdateGoalOwner
<1>5. TeamsIn(Selected(r), Looked(r) + 1) = TeamsIn(Selected(r), Looked(r)) \cup {NewOwner(r)}
  BY <1>1, <1>4, TeamsInNext
<1>6. Selecting(r)'
  <2>1. GoalFresh(r)' => GoalFresh(r)
    BY <1>1, <1>4, KeepsGoal DEF Finished
  <2> QED
    BY <1>1, <1>3, <1>4, <1>5, <2>1, SelectionFramed DEF Known, Selecting
<1> QED
  BY <1>1, <1>4, <1>6 DEF Known, Fresh, HasGoal, Dropping, HandingOver, Replacing

\* Within the transaction, the loop's results stay as they are.
LEMMA KeepsSelecting ==
  ASSUME NEW r \in Req, Known(r), Kept(r), UNCHANGED <<rows, req, seen, list>>,
         pc[r] \in {"scan", "purge", "upsert"}, pc'[r] \in {"purge", "upsert", "commit"},
         Looked(r)' = Looked(r)
  PROVE  Selecting(r)'
<1>1. req[r].kind = "ssrShare" => (GoalFresh(r)' => GoalFresh(r))
  BY KeepsGoal DEF Finished
<1> QED
  BY <1>1, SelectionFramed DEF Known, Selecting, rows

LEMMA ScanSharesKnown ==
  ASSUME ShareInv, NEW r \in Req, Route(r), Known(r), Kept(r), ScanShares(r)
  PROVE  Known(r)'
<1>1. /\ pc[r] = "scan" /\ pc'[r] = "purge" /\ UNCHANGED <<rows, req, seen, list, idx>>
      /\ doomed'[r] = Shared \ TeamsOf(list[r])
  BY DEF ScanShares, GoTo, ShareInv, TypeOK
<1>2. Looked(r)' = Looked(r)
  BY <1>1 DEF Looked, Selected
<1>3. Selecting(r)'
  BY <1>1, <1>2, KeepsSelecting
<1>4. Replacing(r)'
  BY <1>1 DEF Replacing, Shared, rows
<1> QED
  BY <1>1, <1>3, <1>4 DEF Known, Fresh, HasGoal, Dropping, HandingOver

LEMMA PurgeSharesKnown ==
  ASSUME ShareInv, NEW r \in Req, Route(r), Known(r), Kept(r), PurgeShares(r)
  PROVE  Known(r)'
<1>1. /\ pc[r] = "purge" /\ pc'[r] = (IF list[r] = << >> THEN "commit" ELSE "upsert")
      /\ UNCHANGED <<rows, req, seen, list, idx, ups>> /\ dels'[r] = doomed[r] \cap Shared
      /\ idx[r] = 1
  BY DEF PurgeShares, GoTo, ShareInv, TypeOK, Claim
<1>2. Looked(r)' = Looked(r)
  BY <1>1 DEF Looked, Selected
<1>3. Selecting(r)'
  BY <1>1, <1>2, KeepsSelecting
<1>4. Shared' \ TeamsOf(list'[r]) \subseteq dels'[r] \cup stale'[r].shares
  <2>1. stale'[r].shares = stale[r].shares
    BY <1>1, KeepsShares
  <2> QED
    BY <1>1, <2>1 DEF Known, Replacing, Shared, rows
<1>5. \A t \in Team : ups'[r][t] = NoShare
  BY <1>1 DEF ShareInv, Claim, Held, Upserted
<1>6. idx'[r] - 1 = 0 /\ TeamsIn(list'[r], 0) = {}
  BY <1>1 DEF TeamsIn
<1>7. pc'[r] = "commit" => idx'[r] = Len(list'[r]) + 1
  BY <1>1
<1>8. Replacing(r)'
  BY <1>1, <1>4, <1>5, <1>6, <1>7 DEF Replacing
<1> QED
  BY <1>1, <1>3, <1>8 DEF Known, Fresh, HasGoal, Dropping, HandingOver

LEMMA LastWeightNext ==
  ASSUME NEW s, NEW n \in Nat
  PROVE  /\ LastWeight(s, n + 1, s[n + 1].team, s[n + 1].weight)
         /\ \A t, w : t # s[n + 1].team /\ LastWeight(s, n, t, w) => LastWeight(s, n + 1, t, w)
BY DEF LastWeight

LEMMA UpsertGoalShareKnown ==
  ASSUME ShareInv, NEW r \in Req, Route(r), Known(r), Kept(r), UpsertGoalShare(r)
  PROVE  Known(r)'
<1> DEFINE s == list[r]
           n == idx[r] - 1
<1>1. /\ pc[r] = "upsert" /\ pc'[r] = (IF idx[r] = Len(s) THEN "commit" ELSE "upsert")
      /\ UNCHANGED <<rows, req, seen, list, doomed, dels>> /\ idx'[r] = idx[r] + 1
      /\ ups' = IF Exists THEN [ups EXCEPT ![r][s[idx[r]].team] = s[idx[r]].weight] ELSE ups
  BY DEF UpsertGoalShare, GoTo, ShareInv, TypeOK
<1>2. s \in Seq(Target) /\ idx[r] \in DOMAIN s /\ n \in Nat /\ n + 1 = idx[r] /\ idx'[r] - 1 = n + 1
  BY <1>1 DEF ShareInv, TypeOK, Claim
<1>3. Looked(r)' = Looked(r)
  BY <1>1 DEF Looked, Selected
<1>4. Selecting(r)'
  BY <1>1, <1>3, KeepsSelecting
<1>5. ASSUME Exists, NEW t \in Team
      PROVE  IF t \in TeamsIn(s, n + 1) THEN LastWeight(s, n + 1, t, ups'[r][t])
                                        ELSE ups'[r][t] = NoShare
  <2>1. ups'[r][t] = IF t = s[n + 1].team THEN s[n + 1].weight ELSE ups[r][t]
    BY <1>1, <1>2, <1>5 DEF ShareInv, TypeOK
  <2>2. IF t \in TeamsIn(s, n) THEN LastWeight(s, n, t, ups[r][t]) ELSE ups[r][t] = NoShare
    BY <1>1, <1>5 DEF Known, Replacing
  <2>3. TeamsIn(s, n + 1) = TeamsIn(s, n) \cup {s[n + 1].team}
    BY <1>2, TeamsInNext
  <2> QED
    BY <1>2, <2>1, <2>2, <2>3, LastWeightNext
<1>6. Exists' = Exists /\ Shared' = Shared /\ dels'[r] = dels[r] /\ list'[r] = s
  BY <1>1 DEF Exists, Shared, rows
<1>7. /\ Shared \ TeamsOf(s) \subseteq dels[r] \cup stale[r].shares
      /\ stale'[r].shares = stale[r].shares
  BY <1>1, KeepsShares DEF Known, Replacing
<1>8. pc'[r] = "commit" => idx'[r] = Len(list'[r]) + 1
  BY <1>1
<1>9. Replacing(r)'
  BY <1>1, <1>2, <1>5, <1>6, <1>7, <1>8 DEF Replacing
<1> QED
  BY <1>1, <1>4, <1>9 DEF Known, Fresh, HasGoal, Dropping, HandingOver

-----------------------------------------------------------------------------
\* The steps of others.

\* A deleted goal stays deleted.
LEMMA GoalNeverReturns ==
  ASSUME ShareInv, [Next]_vars
  PROVE  Exists' => Exists
BY DEF Next, vars, Start, Statement, Abort, SetTeamPeriodStatus, GetGoal, ListGoalShares,
   GetTeamPeriodStatus, UpdateGoal, UpdateOwnerWeight, UpdateShareWeight, HandOver, DeleteGoalShare,
   DeleteGoal, SelectTeam, UpdateGoalOwner, ScanShares, PurgeShares, UpsertGoalShare, CommitShares,
   SetGoal, rows, goalRow, Exists

\* What a request knows, it still knows after a step of another, but for what is
\* noted as stale.
LEMMA KnownFramed ==
  ASSUME ShareInv, ShareInv', NEW r \in Req, Route(r), Known(r), Undisturbed(r), Exists' => Exists,
         KnowsGoal(r) /\ GoalFresh(r)' => GoalFresh(r) /\ UNCHANGED goalRow,
         KnowsShares(r) => stale'[r].shares = stale[r].shares \cup Changed
  PROVE  Known(r)'
<1>1. /\ pc'[r] = pc[r] /\ req'[r] = req[r] /\ seen'[r] = seen[r] /\ list'[r] = list[r]
      /\ idx'[r] = idx[r] /\ doomed'[r] = doomed[r] /\ dels'[r] = dels[r] /\ ups'[r] = ups[r]
  BY DEF Undisturbed
<1>2. pc[r] \notin Finished => req[r].kind \in Kind
  BY RequestFields DEF ShareInv, Claim
<1>3. HasGoal(r) \/ pc[r] = "shareWeight" => KnowsGoal(r)
  BY <1>2 DEF HasGoal, KnowsGoal, Route, Kind, Finished
<1>4. Fresh(r)'
  <2>1. HasGoal(r)' = HasGoal(r) /\ TargetTeam(r)' = TargetTeam(r)
    BY <1>1 DEF HasGoal, TargetTeam
  <2> QED
    BY <1>1, <1>3, <2>1 DEF Known, Fresh, goalRow, Exists
<1>5. KnowsShares(r) =>
        /\ Shared' \subseteq Shared \cup Changed
        /\ SharesFresh(r)' => SharesFresh(r) /\ Shared' = Shared /\ share' = share
  <2>1. \A t \in Team : t \notin Changed => share'[t] = share[t]
    BY DEF Changed
  <2>2. Shared' \subseteq Shared \cup Changed
    BY <2>1 DEF Shared
  <2>3. Changed = {} => share' = share
    BY <2>1 DEF ShareInv, TypeOK
  <2> QED
    BY <2>2, <2>3 DEF SharesFresh, Shared
<1>6. Dropping(r)'
  <2>1. pc[r] \in {"status", "delete", "handOver", "unshare"} /\ req[r].kind = "ssrDelete"
          => KnowsShares(r) /\ KnowsGoal(r)
    BY DEF KnowsShares, KnowsGoal, Finished
  <2>2. HandingOver(r)' = HandingOver(r)
    BY <1>1 DEF HandingOver
  <2> QED
    BY <1>1, <1>5, <2>1, <2>2 DEF Known, Dropping, HandingOver, goalRow
<1>7. Selecting(r)'
  <2>1. pc[r] \in {"select", "own", "scan", "purge", "upsert", "commit"} /\ req[r].kind = "ssrShare"
          => KnowsGoal(r)
    BY DEF KnowsGoal, Finished
  <2>2. Looked(r)' = Looked(r)
    BY <1>1 DEF Looked, Selected
  <2> QED
    BY <1>1, <2>1, <2>2, SelectionFramed DEF Known, Selecting, goalRow
<1>8. Replacing(r)'
  <2>1. pc[r] \in {"purge", "upsert", "commit"} => KnowsShares(r)
    BY DEF KnowsShares
  <2> QED
    BY <1>1, <1>5, <2>1 DEF Known, Replacing
<1> QED
  BY <1>4, <1>6, <1>7, <1>8 DEF Known

LEMMA StepIsOfGoalShares == [NextTogether]_<<vars, stale>> => [Next]_vars
BY DEF NextTogether, vars

LEMMA KnownInvInductive == KnownInv /\ [NextTogether]_<<vars, stale>> => KnownInv'
<1> SUFFICES ASSUME KnownInv, [NextTogether]_<<vars, stale>> PROVE KnownInv'
  OBVIOUS
<1>1. [Next]_vars /\ RouteInv /\ RouteInv' /\ ShareInv /\ ShareInv' /\ TypeOK
  BY StepIsOfGoalShares, RouteInvInductive DEF KnownInv, RouteInv, ShareInv
<1>2. ASSUME NoteStale, NEW q \in Req, Start(q) \/ Statement(q) \/ Abort(q) PROVE Known(q)'
  <2>1. Route(q) /\ Known(q)
    BY <1>1 DEF KnownInv, RouteInv
  <2>2. CASE UpdateShareWeight(q) \/ DeleteGoalShare(q) \/ DeleteGoal(q) \/ CommitShares(q) \/ Abort(q)
    BY <1>1, <2>2, KnownFinished
    DEF UpdateShareWeight, DeleteGoalShare, DeleteGoal, CommitShares, Abort, Finished
  <2>3. CASE Start(q) \/ GetGoal(q) \/ UpdateGoal(q)
    BY <1>1, <2>1, <2>3, StartKnown, GetGoalKnown, UpdateGoalKnown
  <2>4. CASE \/ ListGoalShares(q) \/ GetTeamPeriodStatus(q) \/ UpdateOwnerWeight(q) \/ HandOver(q)
             \/ SelectTeam(q) \/ UpdateGoalOwner(q) \/ ScanShares(q) \/ PurgeShares(q)
             \/ UpsertGoalShare(q)
    <3>1. pc'[q] # pc[q] \/ UNCHANGED rows
      BY <1>1, <2>4
      DEF ListGoalShares, GetTeamPeriodStatus, UpdateOwnerWeight, HandOver, SelectTeam,
          UpdateGoalOwner, ScanShares, PurgeShares, UpsertGoalShare, NextTeam, Finish, GoTo, TypeOK
    <3>2. Kept(q)
      BY <1>2, <3>1, OwnStepKeeps
    <3> QED
      BY <1>1, <2>1, <2>4, <3>2, ListGoalSharesKnown, GetTeamPeriodStatusKnown,
         UpdateOwnerWeightKnown, HandOverKnown, SelectTeamKnown, UpdateGoalOwnerKnown,
         ScanSharesKnown, PurgeSharesKnown, UpsertGoalShareKnown
  <2> QED
    BY <1>2, <2>2, <2>3, <2>4 DEF Statement
<1>3. ASSUME NEW q \in Req, Undisturbed(q), NoteStale \/ UNCHANGED <<vars, stale>> PROVE Known(q)'
  <2>1. KnowsGoal(q)' = KnowsGoal(q) /\ KnowsShares(q)' = KnowsShares(q) /\ pc'[q] = pc[q]
    BY <1>3 DEF KnowsGoal, KnowsShares, Undisturbed
  <2>2. CASE NoteStale
    <3>1. /\ stale'[q].goal = (KnowsGoal(q)' /\ (stale[q].goal \/ goalRow' # goalRow))
          /\ stale'[q].shares = IF KnowsShares(q)' THEN stale[q].shares \cup Changed ELSE {}
      BY <2>1, <2>2 DEF NoteStale
    <3>2. /\ KnowsGoal(q) /\ GoalFresh(q)' => GoalFresh(q) /\ UNCHANGED goalRow
          /\ KnowsShares(q) => stale'[q].shares = stale[q].shares \cup Changed
      BY <2>1, <3>1 DEF GoalFresh
    <3>3. Route(q) /\ Known(q)
      BY <1>1 DEF KnownInv, RouteInv
    <3> QED
      BY <1>1, <1>3, <3>2, <3>3, KnownFramed, GoalNeverReturns
  <2>3. CASE UNCHANGED <<vars, stale>>
    <3>1. /\ KnowsGoal(q) /\ GoalFresh(q)' => GoalFresh(q) /\ UNCHANGED goalRow
          /\ KnowsShares(q) => stale'[q].shares = stale[q].shares \cup Changed
      BY <2>3 DEF GoalFresh, vars, goalRow, Changed
    <3>2. Route(q) /\ Known(q)
      BY <1>1 DEF KnownInv, RouteInv
    <3> QED
      BY <1>1, <1>3, <3>1, <3>2, KnownFramed, GoalNeverReturns
  <2> QED
    BY <1>3, <2>2, <2>3
<1>4. CASE UNCHANGED <<vars, stale>>
  <2>1. \A q \in Req : Undisturbed(q)
    BY <1>4 DEF vars, Undisturbed
  <2> QED
    BY <1>1, <1>3, <1>4, <2>1 DEF KnownInv
<1>5. ASSUME NoteStale, NEW r \in Req, Start(r) \/ Statement(r) \/ Abort(r), NEW q \in Req
      PROVE  Known(q)'
  BY <1>1, <1>2, <1>3, <1>5, OthersUndisturbed
<1>6. ASSUME NoteStale, NEW t \in Team, SetTeamPeriodStatus(t), NEW q \in Req PROVE Known(q)'
  <2>1. Undisturbed(q)
    BY <1>6 DEF SetTeamPeriodStatus, locals, Undisturbed
  <2> QED
    BY <1>3, <1>6, <2>1
<1> QED
  BY <1>1, <1>4, <1>5, <1>6 DEF KnownInv, NextTogether, Next

LEMMA KnownInvHolds == SpecTogether => []KnownInv
<1>1. InitTogether => KnownInv
  <2> SUFFICES ASSUME InitTogether PROVE KnownInv
    OBVIOUS
  <2>1. Init /\ \A r \in Req : Route(r)
    BY DEF InitTogether, Init, Route, Finished
  <2>2. \A r \in Req : Known(r)
    BY <2>1 DEF Init, Known, Fresh, HasGoal, Dropping, HandingOver, Selecting, Replacing, Finished
  <2> QED
    BY <2>1, <2>2, InitShareInv DEF KnownInv, RouteInv
<1> QED
  BY <1>1, KnownInvInductive, PTL DEF SpecTogether

-----------------------------------------------------------------------------
\* The effects of requests, as their last statements show them.

LEMMA KnownFacts ==
  ASSUME KnownInv, [Next]_vars, NEW r \in Req, Stepped(r)
  PROVE  /\ ShareInv /\ Route(r) /\ Known(r) /\ (Statement(r) \/ Abort(r))
         /\ req[r] \in Requests
<1>1. ShareInv /\ Route(r) /\ Known(r)
  BY DEF KnownInv, RouteInv
<1>2. req[r] \in Requests
  BY <1>1 DEF ShareInv, Claim, Stepped
<1> QED
  BY <1>1, <1>2, SteppedBySelf

LEMMA CommitIsCommit ==
  ASSUME KnownInv, [Next]_vars, NEW r \in Req, pc[r] = "commit", pc'[r] = "done"
  PROVE  CommitShares(r)
<1>1. Statement(r) \/ (Abort(r) /\ TypeOK)
  BY KnownFacts DEF Stepped, Finished, ShareInv
<1>2. ~(Abort(r) /\ TypeOK)
  BY DEF Abort, Finish, TypeOK
<1> QED
  BY <1>1, <1>2
  DEF Statement, GetGoal, ListGoalShares, GetTeamPeriodStatus, UpdateGoal, UpdateOwnerWeight,
      UpdateShareWeight, HandOver, DeleteGoalShare, DeleteGoal, SelectTeam, UpdateGoalOwner,
      ScanShares, PurgeShares, UpsertGoalShare

\* The last weight of a team is the one that ListedWeight chooses.
LEMMA LastWeightIsListed ==
  ASSUME NEW s \in Seq(Target), NEW t, NEW w, LastWeight(s, Len(s), t, w)
  PROVE  ListedWeight(s, t) = w
<1> DEFINE Last(k) == s[k].team = t /\ \A j \in DOMAIN s : s[j].team = t => j <= k
           last == CHOOSE k \in DOMAIN s : Last(k)
<1>1. PICK k \in DOMAIN s : Last(k) /\ s[k].weight = w
  BY DEF LastWeight
<1>2. last \in DOMAIN s /\ Last(last)
  <2>1. \E j \in DOMAIN s : Last(j)
    BY <1>1
  <2> HIDE DEF Last
  <2> QED
    BY <2>1
<1>3. last = k
  <2>1. last <= k /\ k <= last /\ last \in Int /\ k \in Int
    BY <1>1, <1>2
  <2> HIDE DEF last
  <2> QED
    BY <2>1
<1>4. ListedWeight(s, t) = s[last].weight
  BY DEF ListedWeight
<1> QED
  BY <1>1, <1>3, <1>4

\* A commit replaces the shares by those of the list, but for rows that others
\* have written.
LEMMA CommitReplaces ==
  ASSUME ShareInv, NEW r \in Req, Known(r), CommitShares(r), Exists
  PROVE  /\ TeamsOf(list[r]) \subseteq Team
         /\ \A t \in TeamsOf(list[r]) :
               /\ share'[t] = ListedWeight(list[r], t)
               /\ LastWeight(list[r], Len(list[r]), t, share'[t])
         /\ \A t \in Team \ (TeamsOf(list[r]) \cup stale[r].shares) : share'[t] = NoShare
<1> DEFINE s == list[r]
<1>1. /\ pc[r] = "commit" /\ s \in Seq(Target)
      /\ share' = [t \in Team |-> IF t \in Upserted(r) THEN ups[r][t]
                                  ELSE IF t \in dels[r] THEN NoShare ELSE share[t]]
  BY DEF CommitShares, ShareInv, TypeOK
<1>2. /\ Shared \ TeamsOf(s) \subseteq dels[r] \cup stale[r].shares
      /\ \A t \in Team : IF t \in TeamsOf(s) THEN LastWeight(s, Len(s), t, ups[r][t])
                                             ELSE ups[r][t] = NoShare
  <2>1. idx[r] - 1 = Len(s)
    BY <1>1 DEF Known, Replacing
  <2>2. TeamsIn(s, idx[r] - 1) = TeamsOf(s)
    BY <1>1, <2>1, TeamsInAll
  <2> QED
    BY <1>1, <2>1, <2>2 DEF Known, Replacing
<1>3. \A k \in DOMAIN s : s[k] \in Target
  <2>1. s \in Seq(Target)
    BY <1>1
  <2> HIDE DEF s
  <2> QED
    BY <2>1
<1>4. TeamsOf(s) \subseteq Team
  BY <1>3 DEF TeamsOf, Target
<1>5. ASSUME NEW t \in TeamsOf(s)
      PROVE  share'[t] = ListedWeight(s, t) /\ LastWeight(s, Len(s), t, share'[t])
  <2>1. LastWeight(s, Len(s), t, ups[r][t]) /\ ListedWeight(s, t) = ups[r][t]
    BY <1>1, <1>2, <1>4, <1>5, LastWeightIsListed
  <2>2. ups[r][t] # NoShare
    <3>1. PICK k \in DOMAIN s : s[k].weight = ups[r][t]
      BY <2>1 DEF LastWeight
    <3> QED
      BY <1>3, <3>1, ConstantsAssumption DEF Target
  <2>3. share'[t] = ups[r][t]
    BY <1>1, <1>4, <1>5, <2>2 DEF Upserted
  <2> QED
    BY <2>1, <2>3
<1>6. ASSUME NEW t \in Team \ (TeamsOf(s) \cup stale[r].shares) PROVE share'[t] = NoShare
  BY <1>1, <1>2, <1>6 DEF Upserted, Shared
<1> QED
  BY <1>4, <1>5, <1>6

\* A share request that succeeds leaves its targets the goal at their weights,
\* and no other team except where another request wrote (ReplaceGoalShares).
THEOREM ReplaceIsExact == SpecTogether => ReplaceExact
<1> DEFINE Exact ==
      \A r \in Req : pc[r] = "commit" /\ pc'[r] = "done" /\ Exists
        => /\ \A t \in TeamsOf(list[r]) : share'[t] = ListedWeight(list[r], t)
           /\ Shared' \subseteq TeamsOf(list[r]) \cup stale[r].shares
<1>1. KnownInv /\ [Next]_vars => [Exact]_vars
  <2> SUFFICES ASSUME KnownInv, [Next]_vars, NEW r \in Req,
                      pc[r] = "commit", pc'[r] = "done", Exists
               PROVE  /\ \A t \in TeamsOf(list[r]) : share'[t] = ListedWeight(list[r], t)
                      /\ Shared' \subseteq TeamsOf(list[r]) \cup stale[r].shares
    OBVIOUS
  <2>1. CommitShares(r) /\ ShareInv /\ Known(r)
    BY CommitIsCommit DEF KnownInv, RouteInv
  <2>2. \A t \in TeamsOf(list[r]) : share'[t] = ListedWeight(list[r], t)
    BY <2>1, CommitReplaces
  <2>3. \A t \in Team \ (TeamsOf(list[r]) \cup stale[r].shares) : share'[t] = NoShare
    BY <2>1, CommitReplaces
  <2> QED
    BY <2>2, <2>3 DEF Shared
<1> QED
  BY <1>1, StepIsOfGoalShares, KnownInvHolds, PTL DEF SpecTogether, ReplaceExact

\* A goal edit of the API with a team_id writes back the weight it has read.
LEMMA GoalEditKeepsRows ==
  ASSUME NEW r \in Req, Known(r), GoalFresh(r), UpdateGoal(r), req[r].team # NoTeam
  PROVE  UNCHANGED rows
<1>1. seen[r].weight = weight
  BY DEF UpdateGoal, Known, Fresh, HasGoal
<1> QED
  BY <1>1 DEF UpdateGoal, SetGoal, goalRow, rows

\* The API's goal edit with a team_id changes the weight of that team only,
\* unless another request changed the goals row since it was read
\* (handleUpdateGoal).
THEOREM GoalEditAlwaysIsolated == SpecTogether => GoalEditIsolated
<1> DEFINE Isolated ==
      \A r \in Req : /\ Stepped(r) /\ req[r].kind = "apiUpdate" /\ req[r].team # NoTeam
                     /\ GoalFresh(r)
        => OthersUnaffected(req[r].team)
<1>1. KnownInv /\ [Next]_vars => [Isolated]_vars
  <2> SUFFICES ASSUME KnownInv, [Next]_vars, NEW r \in Req, Stepped(r),
                      req[r].kind = "apiUpdate", req[r].team # NoTeam, GoalFresh(r)
               PROVE  OthersUnaffected(req[r].team)
    OBVIOUS
  <2>1. ShareInv /\ Route(r) /\ Known(r) /\ (Statement(r) \/ Abort(r))
    BY KnownFacts
  <2>2. pc[r] \in {"get", "update", "ownWeight", "shareWeight"}
    BY <2>1 DEF Route, Stepped
  <2>3. CASE Abort(r) \/ GetGoal(r) \/ UpdateGoal(r)
    BY <2>1, <2>3, SeenUnchanged, GoalEditKeepsRows DEF Abort, GetGoal
  <2>4. CASE UpdateOwnerWeight(r) \/ UpdateShareWeight(r)
    BY <2>1, <2>4, WeightWriteIsolated DEF TargetTeam
  <2> QED
    BY <2>1, <2>2, <2>3, <2>4
    DEF Statement, ListGoalShares, GetTeamPeriodStatus, HandOver, DeleteGoalShare, DeleteGoal,
        SelectTeam, UpdateGoalOwner, ScanShares, PurgeShares, UpsertGoalShare, CommitShares
<1> QED
  BY <1>1, StepIsOfGoalShares, KnownInvHolds, PTL DEF SpecTogether, GoalEditIsolated

\* A request is acknowledged by its last statement.
LEMMA AcknowledgedByStatement ==
  ASSUME KnownInv, [Next]_vars, NEW r \in Req, pc[r] # "done", pc'[r] = "done"
  PROVE  Stepped(r) /\ Statement(r)
<1>1. TypeOK
  BY DEF KnownInv, RouteInv, ShareInv
<1>2. ASSUME NEW q \in Req, Start(q) \/ Statement(q) \/ Abort(q)
      PROVE  q = r
  BY <1>1, <1>2, OthersUndisturbed DEF Undisturbed
<1>3. ~Start(r)
  BY <1>1 DEF TypeOK, Start, GoTo, FirstStatement
<1>4. ~Abort(r)
  BY <1>1 DEF TypeOK, Abort, Finish
<1>5. Statement(r)
  BY <1>2, <1>3, <1>4 DEF Next, vars, SetTeamPeriodStatus
<1>6. Statement(r) => pc[r] \notin Finished
  BY DEF Statement, GetGoal, ListGoalShares, GetTeamPeriodStatus, UpdateGoal, UpdateOwnerWeight,
     UpdateShareWeight, HandOver, DeleteGoalShare, DeleteGoal, SelectTeam, UpdateGoalOwner,
     ScanShares, PurgeShares, UpsertGoalShare, CommitShares, Finished
<1> QED
  BY <1>5, <1>6 DEF Stepped

\* The owner without a share row sees the weight of the goal.
LEMMA OwnerSeesWeight ==
  ASSUME ShareInv, owner' = owner, share' = share, Exists, ~HidesOwnWeight(owner, share)
  PROVE  SeenWeight(owner)' = weight'
BY ConstantsAssumption
DEF ShareInv, TypeOK, Exists, HidesOwnWeight, SeenWeight, Visible, Shared

\* The second statement of UpdateGoalTeamWeight finds the row of the team, if
\* that team sees the goal: it is not the owner.
LEMMA ShareWeightSeen ==
  ASSUME ShareInv, NEW r \in Req, Known(r), Route(r), req[r] \in Requests,
         UpdateShareWeight(r), GoalFresh(r),
         req[r].kind \in {"apiWeight", "apiUpdate", "ssrUpdate"},
         NEW t \in Team, t = EditedTeam(r), Visible(t)
  PROVE  SeenWeight(t)' = req[r].weight
<1>1. pc[r] = "shareWeight" /\ owner # TargetTeam(r)
  BY DEF UpdateShareWeight, Known, Fresh
<1>2. req[r].kind = "apiWeight" => req[r].team # NoTeam
  BY ConstantsAssumption
<1>3. req[r].kind = "apiUpdate" => req[r].team # NoTeam
  BY <1>1 DEF Route, Finished
<1>4. req[r].kind = "ssrUpdate" => req[r].team # NoTeam
  BY <1>1 DEF Known, Fresh, HasGoal, TargetTeam
<1>5. t = TargetTeam(r)
  BY <1>2, <1>3, <1>4 DEF EditedTeam, TargetTeam
<1>6. t \in Shared /\ Exists
  BY <1>1, <1>5 DEF Visible
<1>7. req[r].weight \in Weight
  BY RequestFields
<1>8. share'[t] = req[r].weight /\ owner' = owner
  BY <1>5, <1>6 DEF UpdateShareWeight, goalRow, ShareInv, TypeOK
<1> QED
  BY <1>6, <1>7, <1>8, ConstantsAssumption DEF SeenWeight, Visible, Exists, Shared

\* A weight whose edit was acknowledged is the weight the team sees, unless its
\* own share row hides it or the goal changed hands meanwhile (UpdateGoal, UpdateGoalTeamWeight).
THEOREM AcknowledgedWeightIsSeen == SpecTogether => AcknowledgedWeightSeen
<1> DEFINE Seen ==
      \A r \in Req : /\ pc[r] # "done" /\ pc'[r] = "done"
                     /\ req[r].kind \in {"apiWeight", "apiUpdate", "ssrUpdate"}
                     /\ GoalFresh(r) /\ ~HidesOwnWeight(owner, share)
        => \A t \in Team : t = EditedTeam(r) /\ Visible(t)
                             => SeenWeight(t)' = req[r].weight
<1>1. KnownInv /\ [Next]_vars => [Seen]_vars
  <2> SUFFICES ASSUME KnownInv, [Next]_vars, NEW r \in Req, pc[r] # "done", pc'[r] = "done",
                      req[r].kind \in {"apiWeight", "apiUpdate", "ssrUpdate"},
                      GoalFresh(r), ~HidesOwnWeight(owner, share),
                      NEW t \in Team, t = EditedTeam(r), Visible(t)
               PROVE  SeenWeight(t)' = req[r].weight
    OBVIOUS
  <2>1. Stepped(r) /\ Statement(r)
    BY AcknowledgedByStatement
  <2>2. ShareInv /\ Route(r) /\ Known(r) /\ req[r] \in Requests /\ TypeOK
    BY <2>1, KnownFacts DEF ShareInv
  <2>3. pc[r] \in {"get", "status", "update", "ownWeight", "shareWeight"}
    BY <2>1, <2>2 DEF Route, Stepped
  <2>4. ~(GetGoal(r) \/ GetTeamPeriodStatus(r))
    BY <2>2 DEF GetGoal, GetTeamPeriodStatus, GoTo, AfterGet, Finish, TypeOK
  <2>5. CASE UpdateGoal(r)
    <3>1. req[r].team = NoTeam
      BY <2>2, <2>5 DEF UpdateGoal, GoTo, TypeOK
    <3>2. Exists /\ t = owner
      BY <3>1 DEF EditedTeam, Visible
    <3>3. owner' = owner /\ share' = share /\ weight' = req[r].weight
      BY <2>5, <3>1, <3>2 DEF UpdateGoal, SetGoal
    <3> QED
      BY <2>2, <3>2, <3>3, OwnerSeesWeight
  <2>6. CASE UpdateOwnerWeight(r)
    <3>1. owner = TargetTeam(r) /\ weight' = req[r].weight
      BY <2>2, <2>6 DEF UpdateOwnerWeight, GoTo, TypeOK
    <3>2. t = owner /\ Exists
      BY <3>1 DEF EditedTeam, TargetTeam, Visible
    <3> QED
      BY <2>2, <2>6, <3>1, <3>2, OwnerSeesWeight DEF UpdateOwnerWeight
  <2>7. CASE UpdateShareWeight(r)
    BY <2>2, <2>7, ShareWeightSeen
  <2> QED
    BY <2>1, <2>3, <2>4, <2>5, <2>6, <2>7
    DEF Statement, ListGoalShares, HandOver, DeleteGoalShare, DeleteGoal, SelectTeam,
        UpdateGoalOwner, ScanShares, PurgeShares, UpsertGoalShare, CommitShares
<1> QED
  BY <1>1, StepIsOfGoalShares, KnownInvHolds, PTL DEF SpecTogether, AcknowledgedWeightSeen

\* What a removal of the goal has found, at each of its statements.
LEMMA DropFacts ==
  ASSUME KnownInv, NEW r \in Req, pc[r] \notin Finished, req[r].kind = "ssrDelete"
  PROVE  /\ pc[r] \in {"get", "list", "status", "delete", "handOver", "unshare"}
         /\ pc[r] = "unshare" /\ list[r] = << >> =>
              /\ DroppingTeam(r) = req[r].team /\ req[r].team # seen[r].owner
              /\ GoalFresh(r) => req[r].team # owner
         /\ pc[r] \notin {"get", "unshare"} \/ HandingOver(r) =>
              req[r].team \in {NoTeam, seen[r].owner} /\ DroppingTeam(r) = seen[r].owner
         /\ AllFresh(r) /\ pc[r] = "delete" => Shared = {} /\ DroppingTeam(r) = owner
         /\ AllFresh(r) /\ HandingOver(r) =>
              /\ seen[r].share = share
              /\ list[r][1].team \in Shared /\ list[r][1].weight = share[list[r][1].team]
         /\ AllFresh(r) /\ pc[r] = "handOver" => Exists /\ DroppingTeam(r) = owner
         /\ AllFresh(r) /\ pc[r] = "unshare" /\ list[r] # << >> =>
              owner = list[r][1].team /\ weight = list[r][1].weight
<1>1. Route(r) /\ Fresh(r) /\ Dropping(r)
  BY DEF KnownInv, RouteInv, Known
<1>2. pc[r] \in {"get", "list", "status", "delete", "handOver", "unshare"}
  BY <1>1 DEF Route
<1>3. pc[r] \notin {"get", "unshare"} \/ HandingOver(r) =>
        req[r].team \in {NoTeam, seen[r].owner} /\ DroppingTeam(r) = seen[r].owner
  BY <1>1, <1>2 DEF Dropping, DroppingTeam, HandingOver
<1>4. GoalFresh(r) /\ pc[r] \in {"delete", "handOver"} => Exists /\ seen[r].owner = owner
  BY <1>1 DEF Fresh, HasGoal
<1>5. pc[r] = "unshare" /\ list[r] = << >> =>
        /\ DroppingTeam(r) = req[r].team /\ req[r].team # seen[r].owner
        /\ GoalFresh(r) => req[r].team # owner
  BY <1>1 DEF Dropping, DroppingTeam, Fresh, HasGoal
<1>6. AllFresh(r) => GoalFresh(r) /\ SharesFresh(r)
  BY DEF AllFresh, SharesFresh
<1>7. AllFresh(r) /\ HandingOver(r) =>
        /\ seen[r].share = share
        /\ list[r][1].team \in Shared /\ list[r][1].weight = share[list[r][1].team]
  BY <1>1, <1>6 DEF Dropping, Shared
<1>8. AllFresh(r) /\ pc[r] = "unshare" /\ list[r] # << >> =>
        owner = list[r][1].team /\ weight = list[r][1].weight
  BY <1>1, <1>6 DEF Dropping, HandingOver, Finished
<1>9. AllFresh(r) /\ pc[r] = "delete" => Shared = {}
  BY <1>1, <1>6 DEF Dropping, Finished
<1> QED
  BY <1>2, <1>3, <1>4, <1>5, <1>6, <1>7, <1>8, <1>9

LEMMA HandOverKeepsWeights ==
  ASSUME KnownInv, NEW r \in Req, req[r].kind = "ssrDelete", AllFresh(r), HandOver(r)
  PROVE  OthersUnaffected(DroppingTeam(r))
<1> DEFINE t == list[r][1].team
<1>1. /\ pc[r] = "handOver" /\ share' = share /\ Exists /\ DroppingTeam(r) = owner
      /\ t \in Shared /\ owner' = t /\ weight' = share[t]
  BY DropFacts DEF HandOver, HandingOver, SetGoal, Finished
<1>2. Exists' /\ Shared' = Shared
  BY <1>1, ConstantsAssumption DEF Exists, Shared
<1> QED
  BY <1>1, <1>2 DEF OthersUnaffected, SeenWeight, Visible

\* The new owner's share row goes; the goals row has its weight by now.
LEMMA NewOwnerKeepsWeight ==
  ASSUME KnownInv, NEW r \in Req, req[r].kind = "ssrDelete", AllFresh(r),
         DeleteGoalShare(r), list[r] # << >>
  PROVE  OthersUnaffected(DroppingTeam(r))
<1>1. /\ pc[r] = "unshare" /\ owner' = owner /\ weight' = weight
      /\ owner \in Shared /\ weight = share[owner]
      /\ share' = [share EXCEPT ![owner] = NoShare]
  BY DropFacts DEF DeleteGoalShare, HandingOver, goalRow, Finished
<1>2. TypeOK /\ Exists
  BY <1>1, ConstantsAssumption DEF KnownInv, RouteInv, ShareInv, Exists, Shared
<1>3. \A u \in Team : share'[u] = IF u = owner THEN NoShare ELSE share[u]
  BY <1>1, <1>2 DEF TypeOK
<1> QED
  BY <1>1, <1>2, <1>3 DEF OthersUnaffected, SeenWeight, Visible, Exists, Shared

LEMMA DropOwnShare ==
  ASSUME KnownInv, NEW r \in Req, req[r].kind = "ssrDelete", DeleteGoalShare(r), list[r] = << >>
  PROVE  OthersUnaffected(DroppingTeam(r))
<1>1. /\ DroppingTeam(r) = req[r].team /\ owner' = owner /\ weight' = weight
      /\ share' = [share EXCEPT ![req[r].team] = NoShare] /\ TypeOK
  BY DropFacts DEF DeleteGoalShare, goalRow, KnownInv, RouteInv, ShareInv, Finished
<1>2. \A u \in Team \ {req[r].team} : share'[u] = share[u]
  BY <1>1 DEF TypeOK
<1> QED
  BY <1>1, <1>2 DEF OthersUnaffected, SeenWeight, Visible, Exists, Shared

\* The owner of a goal that nobody shares deletes it.
LEMMA DeleteUnshared ==
  ASSUME KnownInv, NEW r \in Req, req[r].kind = "ssrDelete", AllFresh(r), DeleteGoal(r)
  PROVE  OthersUnaffected(DroppingTeam(r))
<1>1. Shared = {} /\ DroppingTeam(r) = owner /\ owner' = NoTeam
  BY DropFacts DEF DeleteGoal, Finished
<1> QED
  BY <1>1 DEF OthersUnaffected, SeenWeight, Visible, Exists

\* A team that removes the goal from its page takes it from nobody else, nor
\* changes anybody's weight (HandleDeleteGoal).
THEOREM DropAffectsOnlyTheDropper == SpecTogether => DropAffectsOnlyDropper
<1> DEFINE Only ==
      \A r \in Req : /\ Stepped(r) /\ req[r].kind = "ssrDelete" /\ pc[r] # "get"
                     /\ AllFresh(r) \/ req[r].team \notin {NoTeam, seen[r].owner}
        => OthersUnaffected(DroppingTeam(r))
<1>1. KnownInv /\ [Next]_vars => [Only]_vars
  <2> SUFFICES ASSUME KnownInv, [Next]_vars, NEW r \in Req, Stepped(r),
                      req[r].kind = "ssrDelete", pc[r] # "get",
                      AllFresh(r) \/ req[r].team \notin {NoTeam, seen[r].owner}
               PROVE  OthersUnaffected(DroppingTeam(r))
    OBVIOUS
  <2>1. Statement(r) \/ Abort(r)
    BY KnownFacts
  <2>2. pc[r] \in {"list", "status", "delete", "handOver", "unshare"}
    BY DropFacts DEF Stepped
  <2>3. CASE Abort(r) \/ ListGoalShares(r) \/ GetTeamPeriodStatus(r)
    BY <2>3, SeenUnchanged DEF Abort, ListGoalShares, GetTeamPeriodStatus
  <2>4. CASE HandOver(r) \/ DeleteGoalShare(r) \/ DeleteGoal(r)
    <3>1. HandOver(r) \/ DeleteGoal(r) \/ list[r] # << >> => AllFresh(r)
      BY <2>2, <2>4, DropFacts DEF HandOver, DeleteGoal, DeleteGoalShare, HandingOver, Stepped
    <3> QED
      BY <2>4, <3>1, HandOverKeepsWeights, NewOwnerKeepsWeight, DropOwnShare, DeleteUnshared
  <2> QED
    BY <2>1, <2>2, <2>3, <2>4
    DEF Statement, GetGoal, UpdateGoal, UpdateOwnerWeight, UpdateShareWeight, SelectTeam,
        UpdateGoalOwner, ScanShares, PurgeShares, UpsertGoalShare, CommitShares
<1> QED
  BY <1>1, StepIsOfGoalShares, KnownInvHolds, PTL DEF SpecTogether, DropAffectsOnlyDropper

\* The team that has removed the goal no longer sees it, unless its own share
\* row was in the way (HandleDeleteGoal).
THEOREM DropAlwaysTakesEffect == SpecTogether => DropTakesEffect
<1> DEFINE Gone ==
      \A r \in Req : /\ pc[r] # "done" /\ pc'[r] = "done" /\ req[r].kind = "ssrDelete"
                     /\ AllFresh(r) /\ ~HidesOwnWeight(seen[r].owner, seen[r].share)
        => \A t \in Team : t = DroppingTeam(r) => ~Visible(t)'
<1>1. KnownInv /\ [Next]_vars => [Gone]_vars
  <2> SUFFICES ASSUME KnownInv, [Next]_vars, NEW r \in Req, pc[r] # "done", pc'[r] = "done",
                      req[r].kind = "ssrDelete",
                      AllFresh(r), ~HidesOwnWeight(seen[r].owner, seen[r].share),
                      NEW t \in Team, t = DroppingTeam(r)
               PROVE  ~Visible(t)'
    OBVIOUS
  <2>1. Stepped(r) /\ Statement(r) /\ TypeOK
    BY AcknowledgedByStatement DEF KnownInv, RouteInv, ShareInv
  <2>2. pc[r] \in {"get", "list", "status", "delete", "handOver", "unshare"}
    BY <2>1, DropFacts DEF Stepped
  <2>3. DeleteGoalShare(r) \/ DeleteGoal(r)
    <3>1. ~(GetGoal(r) \/ ListGoalShares(r) \/ GetTeamPeriodStatus(r) \/ HandOver(r))
      BY <2>1
      DEF TypeOK, GetGoal, ListGoalShares, GetTeamPeriodStatus, HandOver, GoTo, AfterGet, Finish
    <3> QED
      BY <2>1, <2>2, <3>1
      DEF Statement, UpdateGoal, UpdateOwnerWeight, UpdateShareWeight, SelectTeam,
          UpdateGoalOwner, ScanShares, PurgeShares, UpsertGoalShare, CommitShares
  <2>4. CASE DeleteGoal(r)
    BY <2>4 DEF DeleteGoal, Visible, Exists
  <2>5. CASE DeleteGoalShare(r) /\ list[r] = << >>
    <3>1. t # owner /\ t = req[r].team
      BY <2>5, DropFacts DEF DeleteGoalShare, AllFresh, Finished
    <3>2. owner' = owner /\ share'[t] = NoShare
      BY <2>1, <2>5, <3>1 DEF DeleteGoalShare, goalRow, TypeOK
    <3> QED
      BY <3>1, <3>2 DEF Visible, Shared
  <2>6. CASE DeleteGoalShare(r) /\ list[r] # << >>
    <3>1. t = seen[r].owner /\ share = seen[r].share /\ owner \in Shared
      BY <2>6, DropFacts DEF DeleteGoalShare, HandingOver, Finished
    <3>2. share[t] = NoShare /\ t # owner
      BY <3>1 DEF HidesOwnWeight, Shared
    <3>3. owner' = owner /\ share'[t] = NoShare
      BY <2>1, <2>6, <3>2 DEF DeleteGoalShare, goalRow, TypeOK
    <3> QED
      BY <3>2, <3>3 DEF Visible, Shared
  <2> QED
    BY <2>3, <2>4, <2>5, <2>6
<1> QED
  BY <1>1, StepIsOfGoalShares, KnownInvHolds, PTL DEF SpecTogether, DropTakesEffect

\* The commit of a share request from the page: the goals row is the new
\* owner's, and the list is that of the other teams, at the weights they had.
LEMMA SelectionCommitted ==
  ASSUME KnownInv, NEW r \in Req, CommitShares(r), req[r].kind = "ssrShare", GoalFresh(r)
  PROVE  /\ owner = NewOwner(r) /\ weight = OwnerWeight(r)
         /\ owner \in TeamsOf(Selected(r)) /\ owner \in Team
         /\ TeamsOf(list[r]) = TeamsOf(Selected(r)) \ {owner}
         /\ \A k \in DOMAIN list[r] : list[r][k].weight = SeenShareWeight(r, list[r][k].team)
<1> DEFINE s == Selected(r)
<1>1. ShareInv /\ Selecting(r) /\ pc[r] = "commit"
  BY DEF CommitShares, KnownInv, RouteInv, Known
<1>2. s \in Seq(Target) /\ s # << >>
  BY <1>1, RequestFields DEF ShareInv, Claim, Selected, Finished
<1>3. Looked(r) = Len(s) /\ TeamsIn(s, Looked(r)) = TeamsOf(s)
  BY <1>1, <1>2, TeamsInAll DEF Looked
<1>4. NewOwner(r) \in TeamsOf(s)
  BY <1>2 DEF NewOwner, TeamsOf
<1>5. TeamsOf(s) \subseteq Team
  <2>1. \A k \in DOMAIN s : s[k] \in Target
    <3> HIDE DEF s
    <3> QED
      BY <1>2
  <2> QED
    BY <2>1 DEF TeamsOf, Target
<1> QED
  BY <1>1, <1>3, <1>4, <1>5 DEF Selecting

\* The weight SelectionTakesEffect gives a selected team.
SelectedWeight(r, t) ==
  IF t = seen[r].owner /\ HidesOwnWeight(t, seen[r].share) THEN seen[r].weight
  ELSE WeightBefore(r, t)

\* A share request from the page shows the goal to the selected teams and to no
\* other, whatever runs beside it: each keeps the weight it saw when the request
\* read the shares, a new one starts at 0, and an owner whose own share row hid
\* goals.weight sees that weight again.  Rows of teams that others wrote are
\* excepted (HandleUpdateGoalShare).
THEOREM SelectionAlwaysTakesEffect == SpecTogether => SelectionTakesEffect
<1> DEFINE Shown ==
      \A r \in Req : /\ pc[r] = "commit" /\ pc'[r] = "done" /\ req[r].kind = "ssrShare"
                     /\ GoalFresh(r)
        => \A t \in Team \ stale[r].shares :
              SeenWeight(t)' = IF t \notin TeamsOf(Selected(r)) THEN NoShare
                               ELSE IF t = seen[r].owner /\ HidesOwnWeight(t, seen[r].share)
                                    THEN seen[r].weight
                               ELSE WeightBefore(r, t)
<1>1. KnownInv /\ [Next]_vars => [Shown]_vars
  <2> SUFFICES ASSUME KnownInv, [Next]_vars, NEW r \in Req, pc[r] = "commit", pc'[r] = "done",
                      req[r].kind = "ssrShare", GoalFresh(r), NEW t \in Team \ stale[r].shares
               PROVE  SeenWeight(t)' = IF t \notin TeamsOf(Selected(r)) THEN NoShare
                                       ELSE SelectedWeight(r, t)
    BY DEF SelectedWeight
  <2>1. CommitShares(r) /\ ShareInv /\ Known(r)
    BY CommitIsCommit DEF KnownInv, RouteInv
  <2>2. /\ owner = NewOwner(r) /\ weight = OwnerWeight(r)
        /\ owner \in TeamsOf(Selected(r)) /\ owner \in Team
        /\ TeamsOf(list[r]) = TeamsOf(Selected(r)) \ {owner}
        /\ \A k \in DOMAIN list[r] : list[r][k].weight = SeenShareWeight(r, list[r][k].team)
    BY <2>1, SelectionCommitted
  <2>3. owner' = owner /\ weight' = weight /\ Exists /\ Exists'
    BY <2>1, <2>2, ConstantsAssumption DEF CommitShares, goalRow, Exists
  <2>4. /\ t \in TeamsOf(list[r]) => LastWeight(list[r], Len(list[r]), t, share'[t])
        /\ t \notin TeamsOf(list[r]) => share'[t] = NoShare
    BY <2>1, <2>3, CommitReplaces
  <2>5. CASE t \in TeamsOf(list[r])
    <3>1. share'[t] = SeenShareWeight(r, t)
      BY <2>2, <2>4, <2>5 DEF LastWeight
    <3>2. share'[t] \in Weight
      <4>1. seen[r].share[t] \in Weight \cup {NoShare}
        BY <2>1 DEF ShareInv, TypeOK
      <4> QED
        BY <3>1, <4>1, ConstantsAssumption DEF SeenShareWeight
    <3>3. SeenWeight(t)' = share'[t]
      BY <2>3, <3>2, ConstantsAssumption DEF SeenWeight, Visible, Shared
    <3>4. t \in TeamsOf(Selected(r)) /\ t # seen[r].owner
      BY <2>2, <2>5 DEF NewOwner
    <3> QED
      BY <3>1, <3>3, <3>4 DEF SeenShareWeight, SelectedWeight, WeightBefore
  <2>6. CASE t = owner
    <3>1. SeenWeight(t)' = weight
      BY <2>2, <2>3, <2>4, <2>6 DEF SeenWeight, Visible, Shared
    <3>2. t = seen[r].owner <=> NewOwner(r) = seen[r].owner
      BY <2>2, <2>6
    <3>3. weight = SelectedWeight(r, t)
      BY <2>2, <2>6, <3>2
      DEF OwnerWeight, SeenShareWeight, SelectedWeight, WeightBefore, HidesOwnWeight
    <3> QED
      BY <2>2, <2>6, <3>1, <3>3
  <2>7. CASE t \notin TeamsOf(list[r]) /\ t # owner
    BY <2>2, <2>3, <2>4, <2>7 DEF SeenWeight, Visible, Shared
  <2> QED
    BY <2>5, <2>6, <2>7
<1> QED
  BY <1>1, StepIsOfGoalShares, KnownInvHolds, PTL DEF SpecTogether, SelectionTakesEffect

=============================================================================
