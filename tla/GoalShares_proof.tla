-------------------------- MODULE GoalShares_proof --------------------------
(***************************************************************************)
(* Share transactions and the statements beside them, for any teams,       *)
(* weights and requests: no row is written while somebody else's open      *)
(* transaction holds it, and no share outlives its goal.                   *)
(*                                                                         *)
(* The argument: open transactions hold disjoint sets of rows, and while   *)
(* one has inserted a row the goal cannot go.                              *)
(***************************************************************************)
EXTENDS GoalShares, TLAPS

\* What the place of a request says of its locals.
Claim(r) ==
  /\ pc[r] \notin Finished => req[r] \in Requests
  /\ pc[r] = "get" => req[r].kind \notin {"apiShare", "apiWeight"}
  /\ pc[r] = "list" => req[r].kind \in {"ssrShare", "ssrDelete"}
  /\ pc[r] \in {"select", "own"} => req[r].kind = "ssrShare" /\ idx[r] \in DOMAIN req[r].list
  /\ pc[r] = "handOver" => list[r] # << >>
  /\ pc[r] = "upsert" => idx[r] \in DOMAIN list[r]
  /\ pc[r] \notin {"select", "own", "upsert", "commit"} => idx[r] = 1
  /\ pc[r] \notin {"upsert", "commit"} => Held(r) = {}

\* No two open transactions hold the same row.
Exclusive == \A r, q \in Req : r # q => Held(r) \cap Held(q) = {}

\* While a transaction has inserted a row the goal exists.
GoalHeld == \A r \in Req : Upserted(r) # {} => Exists

ShareInv ==
  TypeOK /\ (\A r \in Req : Claim(r)) /\ Exclusive /\ GoalHeld /\ SharesHaveGoal

-----------------------------------------------------------------------------
\* A request that moves on leaves the others alone.

\* The locals of slot r are as before.
Undisturbed(r) ==
  /\ pc'[r] = pc[r] /\ req'[r] = req[r] /\ seen'[r] = seen[r] /\ list'[r] = list[r]
  /\ idx'[r] = idx[r] /\ doomed'[r] = doomed[r] /\ dels'[r] = dels[r] /\ ups'[r] = ups[r]

LEMMA UndisturbedKeepsClaim ==
  ASSUME NEW r \in Req, Claim(r), Undisturbed(r)
  PROVE  Claim(r)'
BY DEF Claim, Undisturbed, Held, Upserted

LEMMA UndisturbedKeepsHeld ==
  ASSUME NEW r \in Req, Undisturbed(r)
  PROVE  Held(r)' = Held(r) /\ Upserted(r)' = Upserted(r)
BY DEF Undisturbed, Held, Upserted

LEMMA FinishedHoldsNothing ==
  ASSUME TypeOK, NEW r \in Req, NEW outcome \in Finished, Finish(r, outcome)
  PROVE  Claim(r)' /\ Held(r)' = {} /\ Upserted(r)' = {}
<1>1. pc'[r] = outcome /\ dels'[r] = {} /\ ups'[r] = NoShares /\ idx'[r] = 1
  BY DEF TypeOK, Finish
<1>2. Upserted(r)' = {} /\ Held(r)' = {}
  BY <1>1 DEF Upserted, Held, NoShares
<1> QED
  BY <1>1, <1>2 DEF Claim, Finished

LEMMA FinishTypes ==
  ASSUME TypeOK, NEW r \in Req, NEW outcome \in Finished, Finish(r, outcome)
  PROVE  /\ pc' \in [Req -> Label]
         /\ req' \in [Req -> Requests \cup {NoRequest}]
         /\ seen' \in [Req -> [owner : Team \cup {NoTeam}, weight : Weight,
                              share : [Team -> Weight \cup {NoShare}]]]
         /\ list' \in [Req -> Seq(Target)]
         /\ idx' \in [Req -> Nat \ {0}]
         /\ doomed' \in [Req -> SUBSET Team]
         /\ dels' \in [Req -> SUBSET Team]
         /\ ups' \in [Req -> [Team -> Weight \cup {NoShare}]]
<1>1. NothingSeen \in [owner : Team \cup {NoTeam}, weight : Weight,
                       share : [Team -> Weight \cup {NoShare}]]
  BY ConstantsAssumption DEF NothingSeen, NoShares
<1>2. << >> \in Seq(Target)
  OBVIOUS
<1>3. NoShares \in [Team -> Weight \cup {NoShare}]
  BY DEF NoShares
<1> QED
  BY <1>1, <1>2, <1>3 DEF TypeOK, Finish, Label

LEMMA FinishIsLocal ==
  ASSUME TypeOK, NEW r \in Req, NEW outcome \in Finished, Finish(r, outcome), NEW q \in Req, q # r
  PROVE  Undisturbed(q)
BY DEF TypeOK, Finish, Undisturbed

\* A request ends; the rows it leaves behind are well-typed, and the goal stays
\* unless nobody else holds a row of it.
LEMMA FinishStep ==
  ASSUME ShareInv, NEW r \in Req, NEW outcome \in Finished, Finish(r, outcome),
         owner' \in Team \cup {NoTeam}, weight' \in Weight,
         share' \in [Team -> Weight \cup {NoShare}], status' = status,
         Exists => Exists' \/ \A q \in Req \ {r} : Upserted(q) = {},
         SharesHaveGoal'
  PROVE  ShareInv'
<1> USE DEF ShareInv
<1>1. TypeOK'
  BY FinishTypes DEF TypeOK
<1>2. \A q \in Req : Claim(q)'
  BY FinishedHoldsNothing, FinishIsLocal, UndisturbedKeepsClaim
<1>3. \A q \in Req : Held(q)' = IF q = r THEN {} ELSE Held(q)
  BY FinishedHoldsNothing, FinishIsLocal, UndisturbedKeepsHeld
<1>4. \A q \in Req : Upserted(q)' = IF q = r THEN {} ELSE Upserted(q)
  BY FinishedHoldsNothing, FinishIsLocal, UndisturbedKeepsHeld
<1>5. Exclusive'
  BY <1>3 DEF Exclusive
<1>6. GoalHeld'
  BY <1>4 DEF GoalHeld
<1> QED
  BY <1>1, <1>2, <1>5, <1>6

\* A request goes on, outside of a transaction or within one, without locking
\* rows.
LEMMA GoOnStep ==
  ASSUME ShareInv, TypeOK', NEW r \in Req, Claim(r)', dels' = dels, ups' = ups,
         \A q \in Req \ {r} : Undisturbed(q),
         Exists => Exists', SharesHaveGoal'
  PROVE  ShareInv'
<1> USE DEF ShareInv
<1>1. \A q \in Req : Claim(q)'
  BY UndisturbedKeepsClaim
<1>2. \A q \in Req : Held(q)' = Held(q) /\ Upserted(q)' = Upserted(q)
  BY DEF Held, Upserted
<1> QED
  BY <1>1, <1>2 DEF Exclusive, GoalHeld

\* Statements that touch no row keep the shares and the goal.
LEMMA UnchangedRows ==
  ASSUME ShareInv, UNCHANGED rows
  PROVE  /\ owner' \in Team \cup {NoTeam} /\ weight' \in Weight
         /\ share' \in [Team -> Weight \cup {NoShare}]
         /\ (Exists => Exists') /\ SharesHaveGoal'
BY DEF ShareInv, TypeOK, rows, Exists, SharesHaveGoal, Shared

\* What is written to the goals row keeps it a goal.
LEMMA SetGoalStep ==
  ASSUME ShareInv, NEW t, NEW w \in Weight, SetGoal(t, w), Exists => t \in Team, share' = share
  PROVE  /\ owner' \in Team \cup {NoTeam} /\ weight' \in Weight
         /\ share' \in [Team -> Weight \cup {NoShare}]
         /\ (Exists => Exists') /\ SharesHaveGoal'
BY ConstantsAssumption
DEF ShareInv, TypeOK, SetGoal, goalRow, Exists, SharesHaveGoal, Shared

\* The fields of a request.
LEMMA RequestFields ==
  ASSUME NEW q \in Requests
  PROVE  /\ q.kind \in Kind /\ q.team \in Team \cup {NoTeam} /\ q.weight \in Weight
         /\ q.list \in Seq(Target)
         /\ q.kind \in {"apiShare", "ssrShare"} => q.list # << >>
BY ConstantsAssumption DEF Request
-----------------------------------------------------------------------------
\* One lemma per action.

LEMMA StartStep ==
  ASSUME ShareInv, NEW r \in Req, Start(r)
  PROVE  ShareInv'
<1>1. PICK q \in Requests :
         /\ req' = [req EXCEPT ![r] = q]
         /\ list' = [list EXCEPT ![r] = IF q.kind = "apiShare" THEN q.list ELSE << >>]
         /\ pc' = [pc EXCEPT ![r] = FirstStatement(q)]
  BY DEF Start, GoTo
<1>2. FirstStatement(q) \in Label \ Finished
      /\ FirstStatement(q) \in {"scan", "ownWeight", "update", "get"}
      /\ (FirstStatement(q) = "get" => q.kind \notin {"apiShare", "apiWeight"})
  BY DEF FirstStatement, Label, Finished
<1>3. UNCHANGED <<owner, weight, share, status, seen, idx, doomed, dels, ups>>
  BY DEF Start
<1>4. TypeOK'
  <2>1. pc' \in [Req -> Label]
    BY <1>1, <1>2 DEF ShareInv, TypeOK
  <2>2. list' \in [Req -> Seq(Target)] /\ req' \in [Req -> Requests \cup {NoRequest}]
    BY <1>1, RequestFields DEF ShareInv, TypeOK
  <2> QED
    BY <1>3, <2>1, <2>2 DEF ShareInv, TypeOK
<1>5. Claim(r)'
  <2>1. Held(r)' = {} /\ idx'[r] = 1
    BY <1>3 DEF Start, ShareInv, Claim, Finished, Held, Upserted
  <2>2. pc'[r] = FirstStatement(q) /\ req'[r] = q
    BY <1>1 DEF ShareInv, TypeOK
  <2> QED
    BY <1>2, <2>1, <2>2 DEF Claim, Finished
<1>6. ASSUME NEW p \in Req \ {r} PROVE Undisturbed(p)
  BY <1>1, <1>3, <1>6 DEF ShareInv, TypeOK, Undisturbed
<1>7. (Exists => Exists') /\ SharesHaveGoal'
  BY <1>3, UnchangedRows DEF rows
<1> QED
  BY <1>3, <1>4, <1>5, <1>6, <1>7, GoOnStep


\* A statement that only reads: what it read is typed, and the request goes on.
LEMMA ReadStep ==
  ASSUME ShareInv, NEW r \in Req, NEW label \in Label \ {"upsert", "commit"},
         pc[r] \notin {"upsert", "commit"}, UNCHANGED <<rows, status, req, idx, txn>>,
         GoTo(r, label),
         seen' \in [Req -> [owner : Team \cup {NoTeam}, weight : Weight,
                           share : [Team -> Weight \cup {NoShare}]]],
         list' \in [Req -> Seq(Target)],
         \A q \in Req \ {r} : seen'[q] = seen[q] /\ list'[q] = list[q],
         Claim(r)'
  PROVE  ShareInv'
<1>1. TypeOK'
  BY DEF ShareInv, TypeOK, rows, txn, GoTo
<1>2. \A q \in Req \ {r} : Undisturbed(q)
  BY DEF ShareInv, TypeOK, Undisturbed, txn, GoTo
<1>3. (Exists => Exists') /\ SharesHaveGoal'
  BY UnchangedRows
<1>4. dels' = dels /\ ups' = ups
  BY DEF txn
<1> QED
  BY <1>1, <1>2, <1>3, <1>4, GoOnStep

LEMMA GetGoalStep ==
  ASSUME ShareInv, NEW r \in Req, GetGoal(r)
  PROVE  ShareInv'
<1>1. CASE Finish(r, "failed") /\ UNCHANGED <<rows, status>>
  BY <1>1, UnchangedRows, FinishStep DEF Finished
<1>2. CASE /\ Exists
           /\ seen' = [seen EXCEPT ![r].owner = owner, ![r].weight = weight]
           /\ GoTo(r, AfterGet(r))
           /\ UNCHANGED <<rows, status, req, list, idx, txn>>
  <2>1. pc[r] = "get"
    BY DEF GetGoal
  <2>2. AfterGet(r) \in {"update", "status", "unshare", "list"}
        /\ (AfterGet(r) = "list" => req[r].kind \in {"ssrShare", "ssrDelete"})
    <3>1. req[r].kind \in Kind \ {"apiShare", "apiWeight"}
      BY <2>1, RequestFields DEF ShareInv, Claim, Finished
    <3> QED
      BY <3>1 DEF AfterGet, Kind
  <2>3. Claim(r)'
    <3>1. Held(r)' = Held(r)
      BY <1>2 DEF txn, Held, Upserted
    <3> QED
      BY <1>2, <2>1, <2>2, <3>1 DEF ShareInv, TypeOK, Claim, GoTo, Finished
  <2>4. seen' \in [Req -> [owner : Team \cup {NoTeam}, weight : Weight,
                          share : [Team -> Weight \cup {NoShare}]]]
        /\ \A q \in Req \ {r} : seen'[q] = seen[q]
    <3>1. seen' = [seen EXCEPT ![r] = [seen[r] EXCEPT !.owner = owner, !.weight = weight]]
      BY <1>2
    <3> QED
      BY <3>1 DEF ShareInv, TypeOK
  <2>5. list' \in [Req -> Seq(Target)] /\ \A q \in Req \ {r} : list'[q] = list[q]
    BY <1>2 DEF ShareInv, TypeOK
  <2>6. AfterGet(r) \in Label \ {"upsert", "commit"}
    BY <2>2 DEF Label
  <2> QED
    BY <1>2, <2>1, <2>3, <2>4, <2>5, <2>6, ReadStep
<1> QED
  BY <1>1, <1>2 DEF GetGoal

LEMMA ListGoalSharesStep ==
  ASSUME ShareInv, NEW r \in Req, ListGoalShares(r)
  PROVE  ShareInv'
<1>1. pc[r] = "list" /\ UNCHANGED <<rows, status, req, idx, txn>>
      /\ seen' = [seen EXCEPT ![r] = [seen[r] EXCEPT !.share = share]]
  BY DEF ListGoalShares
<1>2. seen' \in [Req -> [owner : Team \cup {NoTeam}, weight : Weight,
                        share : [Team -> Weight \cup {NoShare}]]]
      /\ \A q \in Req \ {r} : seen'[q] = seen[q]
  <2> DEFINE Seen == [owner : Team \cup {NoTeam}, weight : Weight,
                      share : [Team -> Weight \cup {NoShare}]]
  <2>1. seen \in [Req -> Seen] /\ share \in [Team -> Weight \cup {NoShare}]
    BY DEF ShareInv, TypeOK
  <2>2. [seen[r] EXCEPT !.share = share] \in Seen
    BY <2>1
  <2> HIDE DEF Seen
  <2>3. seen' \in [Req -> Seen] /\ \A q \in Req \ {r} : seen'[q] = seen[q]
    BY <1>1, <2>1, <2>2
  <2> QED
    BY <2>3 DEF Seen
<1>3. req[r] \in Requests /\ idx[r] = 1 /\ Held(r) = {}
  BY <1>1 DEF ShareInv, Claim, Finished
<1>4. Held(r)' = {} /\ idx'[r] = 1 /\ req'[r] = req[r]
  BY <1>1, <1>3 DEF txn, Held, Upserted
<1>5. CASE req[r].kind = "ssrShare" /\ GoTo(r, "select") /\ UNCHANGED list
  <2>1. idx[r] \in DOMAIN req[r].list
    BY <1>3, <1>5, RequestFields
  <2>2. Claim(r)'
    BY <1>3, <1>4, <1>5, <2>1 DEF ShareInv, TypeOK, Claim, GoTo, Finished
  <2> QED
    BY <1>1, <1>2, <1>5, <2>2, ReadStep DEF ShareInv, TypeOK, Label
<1>6. CASE GoTo(r, "status") /\ UNCHANGED list
  <2>1. Claim(r)'
    BY <1>3, <1>4, <1>6 DEF ShareInv, TypeOK, Claim, GoTo, Finished
  <2> QED
    BY <1>1, <1>2, <1>6, <2>1, ReadStep DEF ShareInv, TypeOK, Label
<1>7. ASSUME NEW t \in Shared, GoTo(r, "handOver"),
             list' = [list EXCEPT ![r] = <<[team |-> t, weight |-> share[t]]>>]
      PROVE  ShareInv'
  <2>1. [team |-> t, weight |-> share[t]] \in Target
    BY DEF ShareInv, TypeOK, Shared, Target
  <2>2. list' \in [Req -> Seq(Target)] /\ list'[r] # << >>
        /\ \A q \in Req \ {r} : list'[q] = list[q]
    BY <1>7, <2>1 DEF ShareInv, TypeOK
  <2>3. Claim(r)'
    BY <1>3, <1>4, <1>7, <2>2 DEF ShareInv, TypeOK, Claim, GoTo, Finished
  <2> QED
    BY <1>1, <1>2, <1>7, <2>2, <2>3, ReadStep DEF Label
<1> QED
  BY <1>5, <1>6, <1>7 DEF ListGoalShares

LEMMA GetTeamPeriodStatusStep ==
  ASSUME ShareInv, NEW r \in Req, GetTeamPeriodStatus(r)
  PROVE  ShareInv'
<1>1. CASE Finish(r, "failed") /\ UNCHANGED <<rows, status>>
  BY <1>1, UnchangedRows, FinishStep DEF Finished
<1>2. ASSUME NEW label \in {"delete", "ownWeight"}, pc[r] = "status", GoTo(r, label),
             UNCHANGED <<rows, status, locals>>
      PROVE  ShareInv'
  <2>1. Claim(r)'
    BY <1>2 DEF ShareInv, TypeOK, Claim, GoTo, locals, Held, Upserted, Finished
  <2> QED
    BY <1>2, <2>1, ReadStep DEF ShareInv, TypeOK, locals, txn, Label
<1> QED
  BY <1>1, <1>2 DEF GetTeamPeriodStatus

LEMMA SetTeamPeriodStatusStep ==
  ASSUME ShareInv, NEW t \in Team, SetTeamPeriodStatus(t)
  PROVE  ShareInv'
BY DEF SetTeamPeriodStatus, ShareInv, TypeOK, rows, locals, Claim, Held, Upserted, Exclusive,
       GoalHeld, Exists, SharesHaveGoal, Shared

LEMMA AbortStep ==
  ASSUME ShareInv, NEW r \in Req, Abort(r)
  PROVE  ShareInv'
BY UnchangedRows, FinishStep DEF Abort, Finished


\* A statement on the goals row alone, after which the request ends or goes on
\* where it holds nothing.
LEMMA GoalRowStep ==
  ASSUME ShareInv, NEW r \in Req, NEW label \in {"ownWeight", "shareWeight", "unshare"},
         pc[r] \in {"update", "ownWeight", "handOver"},
         owner' \in Team \cup {NoTeam}, weight' \in Weight,
         share' \in [Team -> Weight \cup {NoShare}], Exists => Exists', SharesHaveGoal',
         UNCHANGED status,
         Finish(r, "done") \/ (GoTo(r, label) /\ UNCHANGED locals)
  PROVE  ShareInv'
<1>1. CASE Finish(r, "done")
  BY <1>1, FinishStep DEF Finished
<1>2. CASE GoTo(r, label) /\ UNCHANGED locals
  <2>1. TypeOK'
    BY <1>2 DEF ShareInv, TypeOK, GoTo, locals, Label
  <2>2. Claim(r)'
    BY <1>2 DEF ShareInv, TypeOK, Claim, GoTo, locals, Held, Upserted, Finished
  <2>3. \A q \in Req \ {r} : Undisturbed(q)
    BY <1>2 DEF ShareInv, TypeOK, Undisturbed, GoTo, locals
  <2>4. dels' = dels /\ ups' = ups
    BY <1>2 DEF locals
  <2> QED
    BY <2>1, <2>2, <2>3, <2>4, GoOnStep
<1> QED
  BY <1>1, <1>2

LEMMA UpdateGoalStep ==
  ASSUME ShareInv, NEW r \in Req, UpdateGoal(r)
  PROVE  ShareInv'
<1>1. pc[r] = "update" /\ UNCHANGED <<share, status>>
  BY DEF UpdateGoal
<1>2. req[r].weight \in Weight /\ seen[r].weight \in Weight
  BY <1>1, RequestFields DEF ShareInv, TypeOK, Claim, Finished
<1>3. \E w \in Weight : SetGoal(owner, w)
  BY <1>2 DEF UpdateGoal
<1>4. Exists => owner \in Team
  BY DEF ShareInv, TypeOK, Exists
<1> QED
  BY <1>1, <1>3, <1>4, SetGoalStep, GoalRowStep DEF UpdateGoal

LEMMA UpdateOwnerWeightStep ==
  ASSUME ShareInv, NEW r \in Req, UpdateOwnerWeight(r)
  PROVE  ShareInv'
<1>1. pc[r] = "ownWeight" /\ UNCHANGED <<owner, share, status>>
  BY DEF UpdateOwnerWeight
<1>2. req[r].weight \in Weight
  BY <1>1, RequestFields DEF ShareInv, Claim, Finished
<1>3. weight' \in Weight
  BY <1>2 DEF UpdateOwnerWeight, ShareInv, TypeOK
<1>4. owner' \in Team \cup {NoTeam} /\ share' \in [Team -> Weight \cup {NoShare}]
      /\ (Exists => Exists') /\ SharesHaveGoal'
  BY <1>1 DEF ShareInv, TypeOK, Exists, SharesHaveGoal, Shared
<1> QED
  BY <1>1, <1>3, <1>4, GoalRowStep DEF UpdateOwnerWeight

LEMMA HandOverStep ==
  ASSUME ShareInv, NEW r \in Req, HandOver(r)
  PROVE  ShareInv'
<1>1. pc[r] = "handOver" /\ GoTo(r, "unshare") /\ UNCHANGED <<share, status, locals>>
      /\ SetGoal(list[r][1].team, list[r][1].weight)
  BY DEF HandOver
<1>2. list[r] # << >> /\ list[r] \in Seq(Target)
  BY <1>1 DEF ShareInv, TypeOK, Claim
<1>3. list[r][1] \in Target
  BY <1>2
<1>4. list[r][1].team \in Team /\ list[r][1].weight \in Weight
  BY <1>3 DEF Target
<1> QED
  BY <1>1, <1>4, SetGoalStep, GoalRowStep

\* Statements on a share row that is already there, or that take one away.
LEMMA UpdateShareWeightStep ==
  ASSUME ShareInv, NEW r \in Req, UpdateShareWeight(r)
  PROVE  ShareInv'
<1> DEFINE t == TargetTeam(r)
<1>1. pc[r] = "shareWeight" /\ Finish(r, "done") /\ UNCHANGED <<owner, weight, status>>
      /\ (share' = share \/ (t \in Shared /\ share' = [share EXCEPT ![t] = req[r].weight]))
  BY DEF UpdateShareWeight, goalRow
<1>2. req[r].weight \in Weight
  BY <1>1, RequestFields DEF ShareInv, Claim, Finished
<1>3. share' \in [Team -> Weight \cup {NoShare}] /\ Shared' = Shared
  <2>1. CASE share' = share
    BY <2>1 DEF ShareInv, TypeOK, Shared
  <2>2. ASSUME NEW u \in Team, share[u] # NoShare, share' = [share EXCEPT ![u] = req[r].weight]
        PROVE  share' \in [Team -> Weight \cup {NoShare}] /\ Shared' = Shared
    <3>1. req[r].weight # NoShare
      BY <1>2, ConstantsAssumption
    <3> QED
      BY <1>2, <2>2, <3>1 DEF ShareInv, TypeOK, Shared
  <2> QED
    BY <1>1, <2>1, <2>2 DEF Shared
<1>4. owner' \in Team \cup {NoTeam} /\ weight' \in Weight /\ (Exists => Exists') /\ SharesHaveGoal'
  BY <1>1, <1>3 DEF ShareInv, TypeOK, Exists, SharesHaveGoal
<1> QED
  BY <1>1, <1>3, <1>4, FinishStep DEF Finished

LEMMA DeleteGoalShareStep ==
  ASSUME ShareInv, NEW r \in Req, DeleteGoalShare(r)
  PROVE  ShareInv'
<1>1. Finish(r, "done") /\ UNCHANGED <<owner, weight, status>>
      /\ \E t : share' = [share EXCEPT ![t] = NoShare]
  BY DEF DeleteGoalShare, goalRow
<1>2. share' \in [Team -> Weight \cup {NoShare}] /\ Shared' \subseteq Shared
  BY <1>1 DEF ShareInv, TypeOK, Shared
<1>3. owner' \in Team \cup {NoTeam} /\ weight' \in Weight /\ (Exists => Exists') /\ SharesHaveGoal'
  BY <1>1, <1>2 DEF ShareInv, TypeOK, Exists, SharesHaveGoal
<1> QED
  BY <1>1, <1>2, <1>3, FinishStep DEF Finished

\* The goal goes only when no transaction has inserted a row of it.
LEMMA DeleteGoalStep ==
  ASSUME ShareInv, NEW r \in Req, DeleteGoal(r)
  PROVE  ShareInv'
<1>1. Finish(r, "done") /\ owner' = NoTeam /\ weight' = 0 /\ share' = NoShares /\ status' = status
      /\ Locked(r) = {}
  BY DEF DeleteGoal
<1>2. \A q \in Req \ {r} : Upserted(q) = {}
  BY <1>1 DEF Locked, Held
<1>3. share' \in [Team -> Weight \cup {NoShare}] /\ weight' \in Weight /\ Shared' = {}
  BY <1>1, ConstantsAssumption DEF NoShares, Shared
<1> QED
  BY <1>1, <1>2, <1>3, FinishStep DEF Finished, SharesHaveGoal

-----------------------------------------------------------------------------
\* The loop over the selected teams.

LEMMA SelectionTyped ==
  ASSUME ShareInv, NEW r \in Req, pc[r] \in {"select", "own"}
  PROVE  /\ Selected(r) \in Seq(Target) /\ Selected(r) # << >>
         /\ idx[r] \in 1..Len(Selected(r))
         /\ Selected(r)[idx[r]].team \in Team /\ Selected(r)[1].team \in Team
<1>1. req[r] \in Requests /\ req[r].kind = "ssrShare" /\ idx[r] \in DOMAIN req[r].list
  BY DEF ShareInv, Claim, Finished
<1>2. Selected(r) \in Seq(Target) /\ Selected(r) # << >>
  BY <1>1, RequestFields DEF Selected
<1>3. idx[r] \in 1..Len(Selected(r))
  BY <1>1, <1>2 DEF Selected
<1>4. Selected(r)[idx[r]] \in Target /\ Selected(r)[1] \in Target
  BY <1>2, <1>3
<1> QED
  BY <1>2, <1>3, <1>4 DEF Target

\* The end of one round of the loop.
LEMMA NextTeamStep ==
  ASSUME ShareInv, NEW r \in Req, pc[r] \in {"select", "own"}, NextTeam(r),
         UNCHANGED <<status, req, seen, txn>>,
         list' \in [Req -> Seq(Target)], \A q \in Req \ {r} : list'[q] = list[q],
         owner' \in Team \cup {NoTeam}, weight' \in Weight,
         share' \in [Team -> Weight \cup {NoShare}], Exists => Exists', SharesHaveGoal'
  PROVE  ShareInv'
<1>1. idx[r] \in 1..Len(Selected(r)) /\ Len(Selected(r)) \in Nat
  BY SelectionTyped
<1>2. PICK label \in {"scan", "select"} :
         /\ pc' = [pc EXCEPT ![r] = label]
         /\ idx' = [idx EXCEPT ![r] = IF label = "scan" THEN 1 ELSE idx[r] + 1]
         /\ label = "select" => idx[r] # Len(Selected(r))
  BY DEF NextTeam, GoTo
<1>3. TypeOK'
  <2>1. idx' \in [Req -> Nat \ {0}]
    BY <1>1, <1>2 DEF ShareInv, TypeOK
  <2> QED
    BY <1>2, <2>1 DEF ShareInv, TypeOK, txn, Label
<1>4. Claim(r)'
  <2>1. Held(r)' = {}
    BY DEF ShareInv, Claim, txn, Held, Upserted
  <2>2. label = "select" => idx'[r] \in DOMAIN req[r].list
    BY <1>1, <1>2, SelectionTyped DEF ShareInv, TypeOK, Selected
  <2>3. pc'[r] = label /\ (label = "scan" => idx'[r] = 1)
    BY <1>2 DEF ShareInv, TypeOK
  <2> QED
    BY <2>1, <2>2, <2>3 DEF ShareInv, Claim, Finished
<1>5. \A q \in Req \ {r} : Undisturbed(q)
  BY <1>2 DEF ShareInv, TypeOK, Undisturbed, txn
<1>6. dels' = dels /\ ups' = ups
  BY DEF txn
<1> QED
  BY <1>3, <1>4, <1>5, <1>6, GoOnStep


LEMMA SelectTeamStep ==
  ASSUME ShareInv, NEW r \in Req, SelectTeam(r)
  PROVE  ShareInv'
<1> DEFINE t == Selected(r)[idx[r]].team
<1>1. pc[r] = "select" /\ UNCHANGED <<rows, status>>
  BY DEF SelectTeam
<1>2. /\ owner' \in Team \cup {NoTeam} /\ weight' \in Weight
      /\ share' \in [Team -> Weight \cup {NoShare}]
      /\ (Exists => Exists') /\ SharesHaveGoal'
  BY <1>1, UnchangedRows
<1>3. CASE Finish(r, "failed")
  BY <1>1, <1>2, <1>3, FinishStep DEF Finished
<1>4. CASE GoTo(r, "own") /\ UNCHANGED locals
  <2>1. Claim(r)'
    BY <1>1, <1>4 DEF ShareInv, TypeOK, Claim, GoTo, locals, Held, Upserted, Finished
  <2> QED
    BY <1>1, <1>4, <2>1, ReadStep DEF ShareInv, TypeOK, locals, txn, Label
<1>5. CASE /\ list' = [list EXCEPT ![r] =
                         Append(list[r], [team |-> t, weight |-> SeenShareWeight(r, t)])]
           /\ NextTeam(r)
           /\ UNCHANGED <<req, seen, txn>>
  <2>1. t \in Team
    BY <1>1, SelectionTyped
  <2>2. SeenShareWeight(r, t) \in Weight
    BY <2>1, ConstantsAssumption DEF SeenShareWeight, ShareInv, TypeOK
  <2>3. [team |-> t, weight |-> SeenShareWeight(r, t)] \in Target
    BY <2>1, <2>2 DEF Target
  <2>4. Append(list[r], [team |-> t, weight |-> SeenShareWeight(r, t)]) \in Seq(Target)
    BY <2>3 DEF ShareInv, TypeOK
  <2>5. list' \in [Req -> Seq(Target)] /\ \A q \in Req \ {r} : list'[q] = list[q]
    BY <1>5, <2>4 DEF ShareInv, TypeOK
  <2> QED
    BY <1>1, <1>2, <1>5, <2>5, NextTeamStep
<1> QED
  BY <1>3, <1>4, <1>5 DEF SelectTeam

LEMMA UpdateGoalOwnerStep ==
  ASSUME ShareInv, NEW r \in Req, UpdateGoalOwner(r)
  PROVE  ShareInv'
<1>1. /\ pc[r] = "own" /\ SetGoal(NewOwner(r), OwnerWeight(r)) /\ NextTeam(r)
      /\ UNCHANGED <<share, status, req, seen, list, txn>>
  BY DEF UpdateGoalOwner
<1>2. NewOwner(r) \in Team
  <2>1. CASE seen[r].owner \in TeamsOf(Selected(r))
    <3>1. PICK k \in DOMAIN Selected(r) : seen[r].owner = Selected(r)[k].team
      BY <2>1 DEF TeamsOf
    <3>2. Selected(r)[k] \in Target
      BY <1>1, SelectionTyped
    <3> QED
      BY <2>1, <3>1, <3>2 DEF NewOwner, Target
  <2>2. CASE seen[r].owner \notin TeamsOf(Selected(r))
    BY <1>1, <2>2, SelectionTyped DEF NewOwner
  <2> QED
    BY <2>1, <2>2
<1>3. OwnerWeight(r) \in Weight
  BY <1>2, ConstantsAssumption DEF OwnerWeight, SeenShareWeight, ShareInv, TypeOK
<1>4. /\ owner' \in Team \cup {NoTeam} /\ weight' \in Weight
      /\ share' \in [Team -> Weight \cup {NoShare}]
      /\ (Exists => Exists') /\ SharesHaveGoal'
  BY <1>1, <1>2, <1>3, SetGoalStep
<1>5. list' \in [Req -> Seq(Target)] /\ \A q \in Req \ {r} : list'[q] = list[q]
  BY <1>1 DEF ShareInv, TypeOK
<1> QED
  BY <1>1, <1>4, <1>5, NextTeamStep

-----------------------------------------------------------------------------
\* The share transaction.

LEMMA ScanSharesStep ==
  ASSUME ShareInv, NEW r \in Req, ScanShares(r)
  PROVE  ShareInv'
<1>1. /\ pc[r] = "scan" /\ GoTo(r, "purge")
      /\ doomed' = [doomed EXCEPT ![r] = Shared \ TeamsOf(list[r])]
      /\ UNCHANGED <<rows, status, req, seen, list, idx, dels, ups>>
  BY DEF ScanShares
<1>2. TypeOK'
  BY <1>1 DEF ShareInv, TypeOK, rows, GoTo, Label, Shared
<1>3. Claim(r)'
  BY <1>1 DEF ShareInv, TypeOK, Claim, GoTo, Held, Upserted, Finished
<1>4. \A q \in Req \ {r} : Undisturbed(q)
  BY <1>1 DEF ShareInv, TypeOK, Undisturbed, GoTo
<1> QED
  BY <1>1, <1>2, <1>3, <1>4, UnchangedRows, GoOnStep

\* A transaction goes on and may lock rows, none that others hold.
LEMMA LockStep ==
  ASSUME ShareInv, TypeOK', NEW r \in Req, Claim(r)', UNCHANGED rows,
         \A q \in Req \ {r} : Undisturbed(q),
         Held(r)' \cap Locked(r) = {},
         Upserted(r)' # {} => Exists
  PROVE  ShareInv'
<1> USE DEF ShareInv
<1>1. \A q \in Req : Claim(q)'
  BY UndisturbedKeepsClaim
<1>2. \A q \in Req \ {r} : Held(q)' = Held(q) /\ Upserted(q)' = Upserted(q)
  BY UndisturbedKeepsHeld
<1>3. \A q \in Req \ {r} : Held(r)' \cap Held(q) = {}
  BY DEF Locked
<1>4. Exclusive'
  BY <1>2, <1>3 DEF Exclusive
<1>5. GoalHeld'
  BY <1>2, UnchangedRows DEF GoalHeld
<1> QED
  BY <1>1, <1>4, <1>5, UnchangedRows

LEMMA PurgeSharesStep ==
  ASSUME ShareInv, NEW r \in Req, PurgeShares(r)
  PROVE  ShareInv'
<1> DEFINE label == IF list[r] = << >> THEN "commit" ELSE "upsert"
<1>1. /\ pc[r] = "purge" /\ GoTo(r, label)
      /\ doomed[r] \cap Shared \cap Locked(r) = {}
      /\ dels' = [dels EXCEPT ![r] = doomed[r] \cap Shared]
      /\ doomed' = [doomed EXCEPT ![r] = {}]
      /\ UNCHANGED <<rows, status, req, seen, list, idx, ups>>
  BY DEF PurgeShares
<1>2. TypeOK'
  BY <1>1 DEF ShareInv, TypeOK, rows, GoTo, Label, Shared
<1>3. Claim(r)'
  <2>1. idx[r] = 1 /\ list[r] \in Seq(Target) /\ req[r] \in Requests
    BY <1>1 DEF ShareInv, TypeOK, Claim, Finished
  <2>2. list[r] # << >> => idx[r] \in DOMAIN list[r]
    BY <2>1
  <2>3. pc'[r] = label /\ idx'[r] = idx[r] /\ list'[r] = list[r] /\ req'[r] = req[r]
    BY <1>1 DEF ShareInv, TypeOK, GoTo
  <2> QED
    BY <2>1, <2>2, <2>3 DEF Claim, Finished
<1>4. Upserted(r)' = {} /\ Held(r)' = doomed[r] \cap Shared
  <2>1. Upserted(r) = {}
    BY <1>1 DEF ShareInv, Claim, Held
  <2>2. Upserted(r)' = {} /\ dels'[r] = doomed[r] \cap Shared
    BY <1>1, <2>1 DEF Upserted, ShareInv, TypeOK
  <2> QED
    BY <2>2 DEF Held
<1>5. \A q \in Req \ {r} : Undisturbed(q)
  BY <1>1 DEF ShareInv, TypeOK, Undisturbed, GoTo
<1> QED
  BY <1>1, <1>2, <1>3, <1>4, <1>5, LockStep

LEMMA UpsertGoalShareStep ==
  ASSUME ShareInv, NEW r \in Req, UpsertGoalShare(r)
  PROVE  ShareInv'
<1> DEFINE t == list[r][idx[r]].team
           w == list[r][idx[r]].weight
           label == IF idx[r] = Len(list[r]) THEN "commit" ELSE "upsert"
<1>1. /\ pc[r] = "upsert" /\ GoTo(r, label)
      /\ Exists => t \notin Locked(r)
      /\ ups' = IF Exists THEN [ups EXCEPT ![r][t] = w] ELSE ups
      /\ idx' = [idx EXCEPT ![r] = idx[r] + 1]
      /\ UNCHANGED <<rows, status, req, seen, list, doomed, dels>>
  BY DEF UpsertGoalShare
<1>2. idx[r] \in DOMAIN list[r] /\ list[r] \in Seq(Target) /\ req[r] \in Requests
  BY <1>1 DEF ShareInv, TypeOK, Claim, Finished
<1>3. list[r][idx[r]] \in Target
  BY <1>2
<1>4. t \in Team /\ w \in Weight /\ w # NoShare
  BY <1>3, ConstantsAssumption DEF Target
<1>5. ups' = IF Exists THEN [ups EXCEPT ![r] = [ups[r] EXCEPT ![t] = w]] ELSE ups
  BY <1>1
<1>6. TypeOK'
  <2>1. ups' \in [Req -> [Team -> Weight \cup {NoShare}]]
    BY <1>4, <1>5 DEF ShareInv, TypeOK
  <2>2. idx' \in [Req -> Nat \ {0}]
    BY <1>1, <1>2 DEF ShareInv, TypeOK
  <2> QED
    BY <1>1, <2>1, <2>2 DEF ShareInv, TypeOK, rows, GoTo, Label
<1>7. Claim(r)'
  <2>1. pc'[r] = label /\ idx'[r] = idx[r] + 1 /\ list'[r] = list[r] /\ req'[r] = req[r]
    BY <1>1 DEF ShareInv, TypeOK, GoTo
  <2>2. label = "upsert" => idx[r] + 1 \in DOMAIN list[r]
    BY <1>2
  <2> QED
    BY <1>2, <2>1, <2>2 DEF Claim, Finished
<1>8. Upserted(r)' = IF Exists THEN Upserted(r) \cup {t} ELSE Upserted(r)
  BY <1>4, <1>5 DEF Upserted, ShareInv, TypeOK
<1>9. Held(r)' \cap Locked(r) = {}
  <2>1. Held(r) \cap Locked(r) = {}
    BY DEF ShareInv, Exclusive, Locked
  <2>2. Held(r)' = IF Exists THEN Held(r) \cup {t} ELSE Held(r)
    BY <1>1, <1>8 DEF Held
  <2> QED
    BY <1>1, <2>1, <2>2
<1>10. Upserted(r)' # {} => Exists
  BY <1>8 DEF ShareInv, GoalHeld
<1>11. \A q \in Req \ {r} : Undisturbed(q)
  BY <1>1, <1>5 DEF ShareInv, TypeOK, Undisturbed, GoTo
<1> QED
  BY <1>1, <1>6, <1>7, <1>9, <1>10, <1>11, LockStep

LEMMA CommitSharesStep ==
  ASSUME ShareInv, NEW r \in Req, CommitShares(r)
  PROVE  ShareInv'
<1>1. /\ Finish(r, "done") /\ UNCHANGED <<owner, weight, status>>
      /\ share' = [t \in Team |-> IF t \in Upserted(r) THEN ups[r][t]
                                  ELSE IF t \in dels[r] THEN NoShare ELSE share[t]]
  BY DEF CommitShares, goalRow
<1>2. share' \in [Team -> Weight \cup {NoShare}]
  BY <1>1 DEF ShareInv, TypeOK
<1>3. Shared' # {} => Shared # {} \/ Upserted(r) # {}
  BY <1>1 DEF Shared
<1>4. (Exists => Exists') /\ SharesHaveGoal'
  BY <1>1, <1>3 DEF ShareInv, SharesHaveGoal, GoalHeld, Exists
<1>5. owner' \in Team \cup {NoTeam} /\ weight' \in Weight
  BY <1>1 DEF ShareInv, TypeOK
<1> QED
  BY <1>1, <1>2, <1>4, <1>5, FinishStep DEF Finished

-----------------------------------------------------------------------------
LEMMA ShareInvInductive == ShareInv /\ [Next]_vars => ShareInv'
<1> SUFFICES ASSUME ShareInv, [Next]_vars PROVE ShareInv'
  OBVIOUS
<1>1. ASSUME NEW r \in Req, Statement(r) PROVE ShareInv'
  BY <1>1, GetGoalStep, ListGoalSharesStep, GetTeamPeriodStatusStep, UpdateGoalStep,
     UpdateOwnerWeightStep, UpdateShareWeightStep, HandOverStep, DeleteGoalShareStep,
     DeleteGoalStep, SelectTeamStep, UpdateGoalOwnerStep, ScanSharesStep, PurgeSharesStep,
     UpsertGoalShareStep, CommitSharesStep DEF Statement
<1>2. CASE UNCHANGED vars
  BY <1>2 DEF vars, ShareInv, TypeOK, Claim, Held, Upserted, Exclusive, GoalHeld, Exists,
              SharesHaveGoal, Shared
<1> QED
  BY <1>1, <1>2, StartStep, AbortStep, SetTeamPeriodStatusStep DEF Next

LEMMA InitShareInv == Init => ShareInv
<1> SUFFICES ASSUME Init PROVE ShareInv
  OBVIOUS
<1>1. TypeOK
  BY ConstantsAssumption DEF Init, TypeOK, NothingSeen, NoShares, Label, Finished
<1>2. \A r \in Req : Upserted(r) = {} /\ Held(r) = {}
  BY DEF Init, Upserted, Held, NoShares
<1>3. Exists
  BY ConstantsAssumption DEF Init, Exists
<1> QED
  BY <1>1, <1>2, <1>3 DEF Init, ShareInv, Claim, Exclusive, GoalHeld, SharesHaveGoal, Finished

LEMMA ShareInvHolds == Spec => []ShareInv
BY InitShareInv, ShareInvInductive, PTL DEF Spec

\* The variables keep to their types: every weight written is one that was
\* asked for, read, or 0, and the loops stay within their lists.
THEOREM TypeCorrect == Spec => []TypeOK
<1>1. ShareInv => TypeOK
  BY DEF ShareInv
<1> QED
  BY <1>1, ShareInvHolds, PTL

\* DeleteGoal never leaves shares behind, whatever share transactions are open
\* when it runs, and none of them adds any later.
THEOREM SharesAlwaysHaveGoal == Spec => []SharesHaveGoal
<1>1. ShareInv => SharesHaveGoal
  BY DEF ShareInv
<1> QED
  BY <1>1, ShareInvHolds, PTL

=============================================================================
