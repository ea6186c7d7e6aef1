----------------------------- MODULE GoalShares -----------------------------
(***************************************************************************)
(* One goal, the teams it is shared with and the weight each of them sees. *)
(*                                                                         *)
(* The rows are goals(team_id, weight) and goal_shares(team_id, weight) of *)
(* that goal, and team_period_status of the goal's period.  No statement   *)
(* of this component names two goals, so one goal stands for all of them.  *)
(*                                                                         *)
(* A handler runs as a sequence of autocommitted SQL statements at READ    *)
(* COMMITTED, and each statement is one action here; what a handler read   *)
(* stays in seen[r] and grows stale.  Only ReplaceGoalShares is a          *)
(* transaction: its DELETE and INSERTs lock goal_shares rows and show      *)
(* their effect at COMMIT.  Title, description and the other goal fields   *)
(* are abstracted away, and with them UpdateGoalFields, which writes       *)
(* nothing else.                                                           *)
(***************************************************************************)
EXTENDS Integers, Sequences, FiniteSets

CONSTANTS
  Team,         \* team ids
  NoTeam,       \* "no team_id in the form", and the owner of a deleted goal
  Weight,       \* the weights in use, a subset of 0..100
  NoShare,      \* share[t] = NoShare: no goal_shares row for team t
  Status,       \* the team period statuses in use
  Req,          \* request slots: the handlers that can be in flight together
  Requests,     \* the requests clients send, see Request
  Interruptible \* TRUE: a client may disconnect, or the server stop, mid-request

Target == [team : Team, weight : Weight]

Kind == {"apiShare", "apiWeight", "apiUpdate", "ssrUpdate", "ssrShare", "ssrDelete"}

Request == [kind : Kind, team : Team \cup {NoTeam}, weight : Weight, list : Seq(Target)]

\* A share request names at least one team: handleShareGoal refuses an empty
\* list, and HandleUpdateGoalShare an empty selection.
ASSUME ConstantsAssumption ==
  /\ NoTeam \notin Team
  /\ Weight \subseteq 0..100 /\ 0 \in Weight
  /\ NoShare \notin Weight
  /\ Requests \subseteq Request
  /\ \A q \in Requests :
        /\ q.kind \in {"apiShare", "ssrShare"} => q.list # << >>
        /\ q.kind = "apiWeight" => q.team # NoTeam
  /\ Interruptible \in BOOLEAN

VARIABLES
  owner,   \* goals.team_id, NoTeam once the goal is deleted
  weight,  \* goals.weight
  share,   \* share[t]: goal_shares.weight of team t, or NoShare
  status,  \* status[t]: team_period_statuses of team t in the goal's period
  pc,      \* pc[r]: the next statement of the request in slot r
  req,     \* req[r]: that request
  seen,    \* seen[r]: what GetGoal and ListGoalShares returned to it
  list,    \* list[r]: the share rows it is about to write
  idx,     \* idx[r]: its position in a loop over a list
  doomed,  \* doomed[r]: the rows its DELETE found in its snapshot
  dels,    \* dels[r]: the rows its open transaction deleted
  ups      \* ups[r]: the rows its open transaction inserted or updated, as it leaves them

goalRow == <<owner, weight>>
rows    == <<owner, weight, share>>
txn     == <<doomed, dels, ups>>
locals  == <<req, seen, list, idx, doomed, dels, ups>>
vars    == <<owner, weight, share, status, pc, req, seen, list, idx, doomed, dels, ups>>

Finished == {"done", "failed"}

Label == Finished \cup {"get", "list", "status", "update", "ownWeight", "shareWeight",
                        "unshare", "handOver", "delete", "select", "own",
                        "scan", "purge", "upsert", "commit"}

NoRequest == [kind |-> "none"]
NoShares == [t \in Team |-> NoShare]
NothingSeen == [owner |-> NoTeam, weight |-> 0, share |-> NoShares]

Exists == owner # NoTeam

Shared == {t \in Team : share[t] # NoShare}

TeamsOf(s) == {s[k].team : k \in DOMAIN s}

-----------------------------------------------------------------------------
\* The end of a request: the answer is sent, its locals and its row locks go.

Finish(r, outcome) ==
  /\ pc' = [pc EXCEPT ![r] = outcome]
  /\ req' = [req EXCEPT ![r] = NoRequest]
  /\ seen' = [seen EXCEPT ![r] = NothingSeen]
  /\ list' = [list EXCEPT ![r] = << >>]
  /\ idx' = [idx EXCEPT ![r] = 1]
  /\ doomed' = [doomed EXCEPT ![r] = {}]
  /\ dels' = [dels EXCEPT ![r] = {}]
  /\ ups' = [ups EXCEPT ![r] = NoShares]

GoTo(r, label) == pc' = [pc EXCEPT ![r] = label]

Upserted(r) == {t \in Team : ups[r][t] # NoShare}

\* The goal_shares rows that r's transaction has locked, and those that the
\* transactions of others have.
Held(r) == dels[r] \cup Upserted(r)

Locked(r) == UNION {Held(q) : q \in Req \ {r}}

FirstStatement(q) ==
  CASE q.kind = "apiShare"  -> "scan"
    [] q.kind = "apiWeight" -> "ownWeight"
    [] q.kind = "apiUpdate" /\ q.team = NoTeam -> "update"
    [] OTHER -> "get"

Start(r) ==
  /\ pc[r] \in Finished
  /\ \E q \in Requests :
       /\ req' = [req EXCEPT ![r] = q]
       /\ list' = [list EXCEPT ![r] = IF q.kind = "apiShare" THEN q.list ELSE << >>]
       /\ GoTo(r, FirstStatement(q))
  /\ UNCHANGED <<owner, weight, share, status, seen, idx, doomed, dels, ups>>

\* The team a weight request is about: the form's team_id, or the owner read.
TargetTeam(r) == IF req[r].team = NoTeam THEN seen[r].owner ELSE req[r].team

-----------------------------------------------------------------------------
\* Reads

AfterGet(r) ==
  CASE req[r].kind = "apiUpdate" -> "update"
    [] req[r].kind = "ssrUpdate" -> "status"
    [] req[r].kind = "ssrDelete" /\ req[r].team \notin {NoTeam, owner} -> "unshare"
    [] OTHER -> "list"

GetGoal(r) ==
  /\ pc[r] = "get"
  /\ IF Exists
     THEN /\ seen' = [seen EXCEPT ![r].owner = owner, ![r].weight = weight]
          /\ GoTo(r, AfterGet(r))
          /\ UNCHANGED <<req, list, idx, txn>>
     ELSE Finish(r, "failed")
  /\ UNCHANGED <<rows, status>>

\* Mutant: the owner's deletion does not look for shares.
ListGoalSharesIgnored(r) ==
  /\ pc[r] = "list"
  /\ seen' = [seen EXCEPT ![r].share = share]
  /\ GoTo(r, IF req[r].kind = "ssrShare" THEN "select" ELSE "status")
  /\ UNCHANGED <<rows, status, req, list, idx, txn>>

\* HandleUpdateGoalShare goes on to its loop; HandleDeleteGoal hands the goal
\* to the first row returned (the query has no ORDER BY: any row), if any.
ListGoalShares(r) ==
  /\ pc[r] = "list"
  /\ seen' = [seen EXCEPT ![r].share = share]
  /\ \/ /\ req[r].kind = "ssrShare"
        /\ GoTo(r, "select")
        /\ UNCHANGED list
     \/ /\ req[r].kind = "ssrDelete" /\ Shared = {}
        /\ GoTo(r, "status")
        /\ UNCHANGED list
     \/ /\ req[r].kind = "ssrDelete"
        /\ \E t \in Shared :
              list' = [list EXCEPT ![r] = <<[team |-> t, weight |-> share[t]]>>]
        /\ GoTo(r, "handOver")
  /\ UNCHANGED <<rows, status, req, idx, txn>>

\* HandleUpdateGoal and HandleDeleteGoal refuse a closed period.
GetTeamPeriodStatus(r) ==
  /\ pc[r] = "status"
  /\ LET t == IF req[r].kind = "ssrDelete" THEN seen[r].owner ELSE TargetTeam(r)
     IN IF status[t] = "closed"
        THEN Finish(r, "failed")
        ELSE /\ GoTo(r, IF req[r].kind = "ssrDelete" THEN "delete" ELSE "ownWeight")
             /\ UNCHANGED locals
  /\ UNCHANGED <<rows, status>>

-----------------------------------------------------------------------------
\* Writes to the goals row: autocommitted, and no row is updated once the goal
\* is deleted.  (MoveGoal also locks that row, for a moment and without
\* touching these columns: it only delays these statements.)

SetGoal(t, w) ==
  IF Exists THEN owner' = t /\ weight' = w ELSE UNCHANGED goalRow

\* Mutant: the new weight goes to the goals row even when it is meant for a team.
UpdateGoalNewWeight(r) ==
  /\ pc[r] = "update"
  /\ SetGoal(owner, req[r].weight)
  /\ IF req[r].team = NoTeam
     THEN Finish(r, "done")
     ELSE GoTo(r, "ownWeight") /\ UNCHANGED locals
  /\ UNCHANGED <<share, status>>

\* API handleUpdateGoal: with a team_id it writes back the weight it read.
UpdateGoal(r) ==
  /\ pc[r] = "update"
  /\ IF req[r].team = NoTeam
     THEN SetGoal(owner, req[r].weight) /\ Finish(r, "done")
     ELSE SetGoal(owner, seen[r].weight) /\ GoTo(r, "ownWeight") /\ UNCHANGED locals
  /\ UNCHANGED <<share, status>>

\* Mutant: the UPDATE lacks "AND team_id = ...".
UpdateOwnerWeightOfAny(r) ==
  /\ pc[r] = "ownWeight"
  /\ IF Exists
     THEN weight' = req[r].weight /\ Finish(r, "done")
     ELSE GoTo(r, "shareWeight") /\ UNCHANGED <<weight, locals>>
  /\ UNCHANGED <<owner, share, status>>

\* UpdateGoalTeamWeight, first statement: the owner's weight.
UpdateOwnerWeight(r) ==
  /\ pc[r] = "ownWeight"
  /\ IF owner = TargetTeam(r)
     THEN weight' = req[r].weight /\ Finish(r, "done")
     ELSE GoTo(r, "shareWeight") /\ UNCHANGED <<weight, locals>>
  /\ UNCHANGED <<owner, share, status>>

\* Its second statement, when the first updated no row: a share's weight.  It
\* waits for a transaction that holds the row.
UpdateShareWeight(r) ==
  /\ pc[r] = "shareWeight"
  /\ LET t == TargetTeam(r)
     IN IF t \in Shared
        THEN t \notin Locked(r) /\ share' = [share EXCEPT ![t] = req[r].weight]
        ELSE UNCHANGED share
  /\ Finish(r, "done")
  /\ UNCHANGED <<goalRow, status>>

\* Mutant: the taker's weight is added to the owner's.
HandOverBothWeights(r) ==
  /\ pc[r] = "handOver"
  /\ SetGoal(list[r][1].team, weight + list[r][1].weight)
  /\ GoTo(r, "unshare")
  /\ UNCHANGED <<share, status, locals>>

\* HandleDeleteGoal by the owner of a shared goal: a sharing team takes over.
HandOver(r) ==
  /\ pc[r] = "handOver"
  /\ SetGoal(list[r][1].team, list[r][1].weight)
  /\ GoTo(r, "unshare")
  /\ UNCHANGED <<share, status, locals>>

\* Mutant: the owner's row is deleted, not that of the team that drops the goal.
DeleteGoalShareOfOwner(r) ==
  /\ pc[r] = "unshare"
  /\ share' = [share EXCEPT ![seen[r].owner] = NoShare]
  /\ Finish(r, "done")
  /\ UNCHANGED <<goalRow, status>>

\* DeleteGoalShare, of the new owner or of the team that drops the goal.
DeleteGoalShare(r) ==
  /\ pc[r] = "unshare"
  /\ LET t == IF list[r] = << >> THEN req[r].team ELSE list[r][1].team
     IN /\ t \in Shared => t \notin Locked(r)
        /\ share' = [share EXCEPT ![t] = NoShare]
  /\ Finish(r, "done")
  /\ UNCHANGED <<goalRow, status>>

\* Mutant: no transaction is waited for.
DeleteGoalAtOnce(r) ==
  /\ pc[r] = "delete"
  /\ owner' = NoTeam
  /\ weight' = 0
  /\ share' = NoShares
  /\ Finish(r, "done")
  /\ UNCHANGED status

\* DeleteGoal cascades to goal_shares; it waits for every transaction that
\* holds one of those rows, or that inserted one (its foreign key check holds
\* the goals row).
DeleteGoal(r) ==
  /\ pc[r] = "delete"
  /\ Locked(r) = {}
  /\ owner' = NoTeam
  /\ weight' = 0
  /\ share' = NoShares
  /\ Finish(r, "done")
  /\ UNCHANGED status

-----------------------------------------------------------------------------
\* HandleUpdateGoalShare's loop over the selected teams.

Selected(r) == req[r].list

NewOwner(r) ==
  IF seen[r].owner \in TeamsOf(Selected(r)) THEN seen[r].owner ELSE Selected(r)[1].team

\* Mutant: the weight a team had is forgotten.
SeenShareWeightLost(r, t) == 0

SeenShareWeight(r, t) == IF seen[r].share[t] = NoShare THEN 0 ELSE seen[r].share[t]

OwnerWeight(r) ==
  IF NewOwner(r) = seen[r].owner THEN seen[r].weight ELSE SeenShareWeight(r, NewOwner(r))

\* The loop is over when every selected team has been looked at.
NextTeam(r) ==
  /\ idx' = [idx EXCEPT ![r] = IF @ = Len(Selected(r)) THEN 1 ELSE @ + 1]
  /\ GoTo(r, IF idx[r] = Len(Selected(r)) THEN "scan" ELSE "select")

\* The status of the next team: a locked one ends the request, whatever the
\* loop has already written; the owner-to-be is written next, another team is
\* put on the list with the weight it had.
SelectTeam(r) ==
  /\ pc[r] = "select"
  /\ LET t == Selected(r)[idx[r]].team
     IN \/ /\ status[t] \in {"validated", "closed"}
           /\ Finish(r, "failed")
        \/ /\ status[t] \notin {"validated", "closed"}
           /\ t = NewOwner(r)
           /\ GoTo(r, "own")
           /\ UNCHANGED locals
        \/ /\ status[t] \notin {"validated", "closed"}
           /\ t # NewOwner(r)
           /\ list' = [list EXCEPT ![r] =
                         Append(@, [team |-> t, weight |-> SeenShareWeight(r, t)])]
           /\ NextTeam(r)
           /\ UNCHANGED <<req, seen, txn>>
  /\ UNCHANGED <<rows, status>>

UpdateGoalOwner(r) ==
  /\ pc[r] = "own"
  /\ SetGoal(NewOwner(r), OwnerWeight(r))
  /\ NextTeam(r)
  /\ UNCHANGED <<share, status, req, seen, list, txn>>

-----------------------------------------------------------------------------
\* ReplaceGoalShares, one transaction: the DELETE fixes its snapshot, then
\* waits for the rows it found to be free (rows gone by then are skipped), the
\* upserts lock their rows one by one, and everything shows at COMMIT.

ScanShares(r) ==
  /\ pc[r] = "scan"
  /\ doomed' = [doomed EXCEPT ![r] = Shared \ TeamsOf(list[r])]
  /\ GoTo(r, "purge")
  /\ UNCHANGED <<rows, status, req, seen, list, idx, dels, ups>>

PurgeShares(r) ==
  /\ pc[r] = "purge"
  /\ doomed[r] \cap Shared \cap Locked(r) = {}
  /\ dels' = [dels EXCEPT ![r] = doomed[r] \cap Shared]
  /\ doomed' = [doomed EXCEPT ![r] = {}]
  /\ GoTo(r, IF list[r] = << >> THEN "commit" ELSE "upsert")
  /\ UNCHANGED <<rows, status, req, seen, list, idx, ups>>

\* Mutant: outside of the transaction, every row is committed by itself.
UpsertGoalShareAtOnce(r) ==
  /\ pc[r] = "upsert"
  /\ LET t == list[r][idx[r]].team
     IN /\ Exists => t \notin Locked(r)
        /\ share' = IF Exists THEN [share EXCEPT ![t] = list[r][idx[r]].weight] ELSE share
  /\ idx' = [idx EXCEPT ![r] = @ + 1]
  /\ GoTo(r, IF idx[r] = Len(list[r]) THEN "commit" ELSE "upsert")
  /\ UNCHANGED <<goalRow, status, req, seen, list, txn>>

\* INSERT ... SELECT FROM goals ON CONFLICT DO UPDATE: no row without the goal.
UpsertGoalShare(r) ==
  /\ pc[r] = "upsert"
  /\ LET t == list[r][idx[r]].team
     IN /\ Exists => t \notin Locked(r)
        /\ ups' = IF Exists THEN [ups EXCEPT ![r][t] = list[r][idx[r]].weight] ELSE ups
  /\ idx' = [idx EXCEPT ![r] = @ + 1]
  /\ GoTo(r, IF idx[r] = Len(list[r]) THEN "commit" ELSE "upsert")
  /\ UNCHANGED <<rows, status, req, seen, list, doomed, dels>>

CommitShares(r) ==
  /\ pc[r] = "commit"
  /\ share' = [t \in Team |-> IF t \in Upserted(r) THEN ups[r][t]
                              ELSE IF t \in dels[r] THEN NoShare ELSE share[t]]
  /\ Finish(r, "done")
  /\ UNCHANGED <<goalRow, status>>

-----------------------------------------------------------------------------
\* A request waits for the transactions that hold the row it wants.

Wanted(r) ==
  CASE pc[r] = "upsert" /\ Exists -> {list[r][idx[r]].team}
    [] pc[r] = "purge" -> doomed[r] \cap Shared
    [] OTHER -> {}

WaitsFor(r) == {q \in Req \ {r} : Wanted(r) \cap Held(q) # {}}

\* PostgreSQL aborts one transaction of a cycle of waiting ones.  (Only
\* transactions hold rows while they wait, so only they form a cycle.)
Deadlocked(r) ==
  \E S \in SUBSET Req : r \in S /\ \A q \in S : WaitsFor(q) \cap S # {}

\* Mutant: an error leaves the transaction open, with its locks.
AbortWithoutRollback(r) ==
  /\ pc[r] \notin Finished
  /\ Interruptible \/ Deadlocked(r)
  /\ pc' = [pc EXCEPT ![r] = "failed"]
  /\ list' = [list EXCEPT ![r] = << >>]
  /\ idx' = [idx EXCEPT ![r] = 1]
  /\ UNCHANGED <<rows, status, req, seen, txn>>

\* The handler ends without its remaining statements; an open transaction is
\* rolled back.
Abort(r) ==
  /\ pc[r] \notin Finished
  /\ Interruptible \/ Deadlocked(r)
  /\ Finish(r, "failed")
  /\ UNCHANGED <<rows, status>>

\* API handleUpdateTeamStatus: any status may follow any other.
SetTeamPeriodStatus(t) ==
  /\ \E s \in Status \ {status[t]} : status' = [status EXCEPT ![t] = s]
  /\ UNCHANGED <<rows, pc, locals>>

Statement(r) ==
  \/ GetGoal(r)
  \/ ListGoalShares(r)
  \/ GetTeamPeriodStatus(r)
  \/ UpdateGoal(r)
  \/ UpdateOwnerWeight(r)
  \/ UpdateShareWeight(r)
  \/ HandOver(r)
  \/ DeleteGoalShare(r)
  \/ DeleteGoal(r)
  \/ SelectTeam(r)
  \/ UpdateGoalOwner(r)
  \/ ScanShares(r)
  \/ PurgeShares(r)
  \/ UpsertGoalShare(r)
  \/ CommitShares(r)

\* Any goal with any shares, and any status, that the database may already hold
\* (a share list may name every team, the owner included); nothing is in flight.
Init ==
  /\ owner \in Team
  /\ weight \in Weight
  /\ share \in [Team -> Weight \cup {NoShare}]
  /\ status \in [Team -> Status]
  /\ pc = [r \in Req |-> "done"]
  /\ req = [r \in Req |-> NoRequest]
  /\ seen = [r \in Req |-> NothingSeen]
  /\ list = [r \in Req |-> << >>]
  /\ idx = [r \in Req |-> 1]
  /\ doomed = [r \in Req |-> {}]
  /\ dels = [r \in Req |-> {}]
  /\ ups = [r \in Req |-> NoShares]

Next ==
  \/ \E r \in Req : Start(r) \/ Statement(r) \/ Abort(r)
  \/ \E t \in Team : SetTeamPeriodStatus(t)

Spec == Init /\ [][Next]_vars

\* net/http runs each handler on its own goroutine; a statement that waits for a
\* row is queued by PostgreSQL, which also resolves deadlocks.  Nothing forces a
\* client to send a request or to change a status.
Fairness == \A r \in Req : SF_vars(Statement(r)) /\ WF_vars(Deadlocked(r) /\ Abort(r))

FairSpec == Spec /\ Fairness

-----------------------------------------------------------------------------
\* What the teams see: ListGoalsByTeamPeriod returns the goal to its owner and
\* to every team with a share row, with COALESCE(share weight, goal weight).

Visible(t) == Exists /\ (t = owner \/ t \in Shared)

SeenWeight(t) ==
  IF ~Visible(t) THEN NoShare ELSE IF t \in Shared THEN share[t] ELSE weight

-----------------------------------------------------------------------------
\* Properties

\* Every variable has its type; weights stay those that requests and rows may have.
TypeOK ==
  /\ owner \in Team \cup {NoTeam}
  /\ weight \in Weight
  /\ share \in [Team -> Weight \cup {NoShare}]
  /\ status \in [Team -> Status]
  /\ pc \in [Req -> Label]
  /\ req \in [Req -> Requests \cup {NoRequest}]
  /\ seen \in [Req -> [owner : Team \cup {NoTeam}, weight : Weight,
                      share : [Team -> Weight \cup {NoShare}]]]
  /\ list \in [Req -> Seq(Target)]
  /\ idx \in [Req -> Nat \ {0}]
  /\ doomed \in [Req -> SUBSET Team]
  /\ dels \in [Req -> SUBSET Team]
  /\ ups \in [Req -> [Team -> Weight \cup {NoShare}]]

\* No share outlives its goal, although a share transaction may be half done
\* when another request deletes the goal.
SharesHaveGoal == Shared # {} => Exists

\* The request in slot r executed a statement.
Stepped(r) == pc[r] \notin Finished /\ pc'[r] # pc[r]

OthersUnaffected(t) == \A u \in Team \ {t} : SeenWeight(u)' = SeenWeight(u)

\* An edit of the weight a team gives the goal changes it for no other team
\* (the page's form and the weight endpoint of the API).
WeightEditsIsolated ==
  [][\A r \in Req : Stepped(r) /\ req[r].kind \in {"apiWeight", "ssrUpdate"}
        => OthersUnaffected(TargetTeam(r))]_vars

\* An edit through the API that names a team with a share row changes the weight
\* of that team only, as the README says: "if the goal is shared, the weight is
\* updated for the given team only".
SharedEditIsolated ==
  [][\A r \in Req : Stepped(r) /\ req[r].kind = "apiUpdate" /\ req[r].team \in Shared
        => OthersUnaffected(req[r].team)]_vars

\* A share request refused because of a locked period has not moved the goal.
RefusedShareKeepsOwner ==
  [][\A r \in Req : pc[r] = "select" /\ pc'[r] = "failed" => owner = seen[r].owner]_vars

\* Every request ends: none waits for ever for the rows of another.
RequestsEnd == \A r \in Req : pc[r] \notin Finished ~> pc[r] \in Finished

=============================================================================
