# A TLA+ model of okrs

okrs keeps objectives (goals) and key results of a tree of teams, per period. It
is a Go server: `net/http` runs every request on its own goroutine, handlers call
`internal/store`, and the state is in PostgreSQL. There is no state in the
process that requests share. What makes the system hard is therefore the
database: a handler is a sequence of SQL statements, each its own transaction at
READ COMMITTED (only `ReplaceGoalShares`, `MoveGoal`, `MoveKeyResult` and
`MovePeriod` open one), and what it read may be stale when it writes.

This directory models that: one TLA+ module per component, checked by TLC on
small instances, and theorems about them, checked by TLAPS for every instance.

## Inventory

| component | state | operations | hard because | correct when |
|---|---|---|---|---|
| Goal sharing and team weights | `goals.team_id`, `goals.weight`, `goal_shares` | share (API, page), set a team's weight, edit the goal (API, page), drop or delete it | two tables hold the weights; reads before writes; one transaction with row locks among autocommits; partial failure | an edit changes what its team sees and nobody else's; a share request replaces the list; no share outlives its goal |
| Sort order of goals, key results, periods | `sort_order` in three tables | create, move up and down, delete; goals also change owner | row locks taken one after the other, snapshots older than the locks, deadlocks | orders distinct; a move is an exchange of two rows of one list |
| Team hierarchy | `teams.parent_id` | create, edit, delete; the listings walk it | check and write are two statements | it is a tree, every team is listed |
| Key results and metadata | `key_results`, `kr_*_meta`, `kr_project_stages`, `kr_percent_checkpoints` | create, edit, replace stages, add stage or checkpoint, set weights, progress updates | row, metadata and stages written by separate statements; the pages validate after the first write; the kind is read, then used | the metadata are those of the kind; a stage list is one request's |
| Progress calculation | none (pure) | `okr.go`: weighted means, interpolation, clamping | rounding, checkpoints, falling metrics | within 0..100, monotone in the current value |
| Stage form parsing | none (pure) | three copies of `parseProjectStages` | arrays aligned by position | a stage gets its own weight and mark |
| Team period statuses | `team_period_statuses` | set (any to any), read by the handlers that refuse a locked period; the first goal sets `forming` | read at the start, written at the end | a chosen status is only undone by a creation it overtook |
| Team page and table of teams | none (reads all of the above) | `GetTeamOKR`, `GetTeamsWithPeriodSummary`: goals with their places, the teams that share them, the status | five queries and more without a transaction, writes in between; the lists mix `goals.sort_order` and `goal_shares.sort_order` | what nobody wrote meanwhile is shown as it is; a list changes its order only by moves of its own |
| Periods | `periods` | create, edit, delete, move, find by date | overlapping dates; a deletion cascades to goals, shares and statuses, under requests that have just read them | as sort order; nothing in the period outlives it |
| Web client | the page last loaded | `app.js`: loads the pages, decides from them what a form sends | the page is stale when a form is saved; late responses | a goal's form writes the weight the page showed |
| Startup, migrations, demo data; routing, templates, response mapping; comments | - | run once, or stateless, or single INSERTs | - | - |

Components meet in the tables: statuses are read by the sharing and goal
handlers; deleting a team, goal or period cascades to the rows below it;
`UpdateGoalOwner`, called by sharing, moves a goal into another list of the sort
order, `upsertGoalShare` copies that order into another team's list, and the pages
read all of it. There are no callbacks and no messages.

## Modules

| module | models | abstracts away |
|---|---|---|
| `GoalShares` | one goal, its shares and the statuses of its teams, under every handler that writes them | titles and other fields, `goal_shares.sort_order`, cascades from teams and periods |
| `GoalSharesTogether` | `GoalShares` with a history of what others changed under a request | |
| `SortOrder` | the algorithm shared by the three `Move*` functions and their `Create*`, deletions, transfers | which table; all columns but order and scope |
| `SortOrderTogether` | `SortOrder` with a history of the rows changed under a move | |
| `Lists` | what `SortOrder` promises: lists that rows are appended to, change places in, move between and leave | numbers, locks, statements |
| `TeamTree` | `parent_id` and the team handlers | names, types, texts and their checks |
| `Forest` | what `TeamTree` promises: teams added to a hierarchy, moved with all below them, removed | requests, checks, parents |
| `TeamPeriod` | one period as its pages show it: goals and their places in every team's list, statuses, goals being created, a load of the page or the table, the form of a goal, the end of the period | key results, weights, the statements of other requests (each is one step), the filter by `org_id` |
| `KeyResults` | the rows of `key_results` with the metadata or stages of their kind, under creations, edits, progress reports, stage changes and deletions | titles, weights, start and target values, `updated_at`, checkpoints |
| `Progress` | `okr.go` as operators, the stage parsers with the forms they read, and a goal of three key results (a metric, a project, a boolean one) under every request that changes what its progress is computed from | overlapping requests (each is one step; `KeyResults` has their statements), float64 rounding |
| `MCGoalShares`, `MCGoalSharesTogether`, `MCSortOrder`, `MCTeamTree`, `MCTeamPeriod`, `MCKeyResults`, `MCProgress` | the requests and initial tables that TLC uses | |
| `GoalShares_proof`, `GoalSharesEffects_proof`, `SortOrder_proof`, `TeamTree_proof`, `TeamPeriod_proof`, `KeyResults_proof`, `KeyResultsEffects_proof`, `Progress_proof` | the theorems; the `Effects` ones are about what a whole request has done when it ends | |

**From code to model.** Each request slot `r` runs one handler at a time; `pc[r]`
is the statement it executes next, and one action is one statement with the Go
code up to the next (loops included). A handler's local variables are variables
indexed by `r` and are reset when it ends. `Start` picks any request of the
constant `Requests`. A request that fails its syntactic validation changes
nothing and is not modelled. `Abort` is an error of a statement: PostgreSQL
breaking a deadlock, and, if `Interruptible`, a cancelled request context or a
stopped server (the handlers pass the request's context to every statement).

*GoalShares.* Rows a transaction wrote are in `dels[r]` and `ups[r]` and become
part of `share` at its commit; until then other statements on those rows wait
(`Locked`). `ReplaceGoalShares`' DELETE is two actions, `ScanShares` for its
snapshot and `PurgeShares` for the rows it gets to delete, so that rows inserted
in between survive it, as they do at READ COMMITTED; it locks its rows at once
where PostgreSQL locks them one by one. `UpdateGoalFields` touches no column of
the model and has no action. The goals row is locked by nobody for more than a
statement, except that a share transaction's foreign key check keeps it from
being deleted. `Init` is a goal with any share rows, also one of its owner.

`GoalSharesTogether` adds one history variable, which no statement reads:
`stale[r]` is what other requests have changed since the request in slot `r` read it,
the goals row (`stale[r].goal`) and the share rows of which teams
(`stale[r].shares`). The properties of what a whole request does are stated there,
for any number of requests at once: each is about the state the request read, and
excepts only what is stale (`GoalFresh`, `AllFresh`, `stale[r].shares`).

*SortOrder.* `LockItem`, `ScanNeighbours`, `LockNeighbour` are the two
`SELECT ... FOR UPDATE`: the second takes its snapshot, then waits for rows in
that snapshot's order, and re-checks its WHERE clause on the row as it then is,
going on to the next row if it fails. `Swap` is both UPDATEs and the COMMIT: they
only touch locked rows, and are seen at once. The page's `handleMoveGoal` reads
the goal first to redirect a sharing team; a request so redirected is no step.
`mixed` is a history variable, the scopes into which a row was transferred. The
refinement mapping to `Lists` (`AsLists`) gives it `before`, the pairs of rows of one
scope with ascending orders, and `scope` and `mixed` as they are: every action but `Swap`, `InsertRow`, `DeleteRow` and
`TransferRow` is a stutter of it. `SortOrderTogether` adds the history variable
`changed[r]`, the rows that were moved, deleted, transferred or created since the
neighbour query of the move in slot `r` took its snapshot.

*TeamTree.* `SubmitEdit` and `SubmitNewTeam` are `ListTeams` and the checks on
its result, `UpdateTeam` and `InsertTeam` the statement that follows. `Walk` is
`collectDescendants` as written, depth first with one set of visited teams; the
checks use what it finds, `Descendants`, the least set closed under children, and
`WalkFindsDescendants` says that the two agree on every graph. The refinement mapping
to `Forest` (`AsForest`) gives it `above`, the pairs of a team and one of its
descendants, with the teams that live and those that are gone.

*TeamPeriod.* `StartCreate`, `ReadStatus`, `InsertGoal`, `SetForming` are
`HandleCreateGoal`; every other request that writes one of the tables is one action,
its statements being in `GoalShares`, `SortOrder` and `TeamTree`. `place[g][t]` is
`goal_shares.sort_order` (or `NoPlace`), so `Key` is the `team_sort_order` of
`ListGoalsByTeamPeriod`. `DeletePeriod` ends the period with its goals,
shares and statuses (`ended`), whatever is under way; as with a deleted team, the
foreign keys refuse the rows that would refer to it (`Refers`).
A load has one action per query, the period first: the page reads the team,
its goals, per goal the shares and then the names of the teams, and the status; the
table reads all teams once, which give it the names, and per team the goals, the
status and per goal the shares. Loads write nothing, so one stands for any number;
a query that fails ends the load without a page, which is a load that is never
finished. `OpenForm` is the dialog of `app.js` opened and sent from the loaded page,
`UpdateGoal`, `UpdateOwnerWeight` and `UpdateShareWeight` the statements it comes
to; `wrote` is the row whose weight was written. `chosen`, `overtaken`, `overruled`
and `touched` are history variables that no action reads: the status last chosen,
the creations and teams for which a choice came in between, and what was written
since the load began.

*KeyResults.* `row[k]` is the row of key result `k` (its kind, `deleted` once it is
gone) with its row in each of the three metadata tables; `stages` is
`kr_project_stages`. Every statement is an action, since none of these handlers
opens a transaction, and data of a former kind stay where they are, as in the
code. The pages write the row first and look at the rest of the form then
(`CreateRow`, `UpdateRow`: `valid`); the API validates first, so a form it refuses
is never sent. A progress report of the API reads the kind (`ReadKind`), the
forms of the pages do not and go straight to their UPDATE (`direct`). `torn` and
`disturbed` are history variables that no action reads: key results of which an
edit ended before its data were written, and requests whose key result another
request wrote to since they began.

*Progress.* Metrics are integers, and a percent is rounded from an exact quotient;
the code's float64 quotient may differ where the exact one lies half-way between
two percents. `PercentProgress` is a set of outcomes: `sort.Slice` and
`ORDER BY metric_value` leave the order of points with equal values open, and so
which of them a segment starts from or ends at. A stage is its weight and mark,
and a stage form is three lists, of titles (only whether they are empty), weights
and marks. `PageForm` is what the page submits, whose marks are `<select>`s;
`DialogForm` is what the dialog of `app.js` submits, whose marks are checkboxes,
of which a browser submits the checked ones. Sums are `SumFunction` of the community
modules; `InOrder`, the rows that a parser's loop keeps, is a recursive function.

## What is checked

A run is one `.cfg` with its module. "Violation" runs check a statement that a
document or comment of the repository makes, and TLC shows how the code breaks it.

| run | bounds | shows |
|---|---|---|
| `shares_together` | weights {0,1}, interruptions; any of 40-odd requests of 3 teams one at a time, on any goal with any shares, 2 statuses that change (238k states); 7 requests of 2 teams, of every kind that writes, 2 at a time (0.9M states); all up to symmetry of the slots | `ReplaceExact`, `GoalEditIsolated`, `DropAffectsOnlyDropper`, `DropTakesEffect`, `AcknowledgedWeightSeen`, `SelectionTakesEffect`: a request does what it was asked, and nothing to other teams, as far as nobody else has changed what it read |
| `shares_races` | 3 teams, 2 slots, 6 requests that hold rows, wait for them or write the goal, with lists in conflicting orders, statuses that do not change: 377k states | `TypeOK`, `SharesHaveGoal`, `WeightEditsIsolated`; `RequestsEnd` under fairness |
| `shares_lost_weight` (violation) | a goal that t1 shares with t2, 2 slots | `SharedEditIsolated` fails for two API edits at once: the edit for t2 restores the owner's weight that it read before the owner's edit |
| `shares_refused` (violation) | 1 slot | `RefusedShareKeepsOwner`: a share request refused for a locked period has already moved the goal |
| `order_moves` | 4 rows, 2 slots, interruptions: 2 lists with a row to be created and one transferred or deleted, or one list of 4 that stay: 204k states | `TypeOK`, `DistinctOrders`, `MovesExchange`, `MovesByOnePlace`; `RequestsEnd` under fairness; `ImplementsLists`: to their clients the scopes are lists |
| `order_stuck` (violation) | 4 rows in 2 lists, 1 slot | `NoChangeOnlyAtTheEdge`: a goal that changed owner ties with another and cannot be moved past it |
| `tree_one_editor` | 5 teams, 2 slots, 1 of which edits: 6.4k states up to symmetry | `ParentsLive`, `Acyclic`, `AllListed`, `ChecksStillHold`, `WalkFindsDescendants`; `ImplementsForest`: the hierarchy changes by whole subtrees |
| `tree_cycle` (violation) | 3 teams, 2 editors | two edits at once make a cycle |
| `kr_edits` | 4 requests of every kind, a page's refused forms included, 2 slots, interruptions: 918k states up to symmetry | `TypeOK`, `DataOfItsKind`, `EditTakesEffect`, `ProgressTakesEffect`, `OnlyItsKeyResult` |
| `progress` | metric values {0,1,2,4}, 2 checkpoints, 2 stages whose weights may exceed 100 together, weights of key results all 0 or some 0: 284k states | `TypeOK`, `ProgressBounded`, `CheckpointsMet`, `GoalInBetween`, `FormKeepsMarks`, `ProgressNeverLost`: progress is a percentage whatever data there are, shows reached checkpoints, and does not fall when work is done |
| `team_page` | 2 teams, one of which may be created during the run, 3 goals, 1 of which is created statement by statement, 2 other writes of any kind, any number of loads and forms: 617k states | `TypeOK`, `UntouchedShownExactly`, `EditsReachTheirTeam`, `ChoiceStands`, `CreationForms`, `OrderOnlyByMoves`: what a page shows, where its form writes, and what becomes of statuses and places |
| `kr_no_stages` (violation) | 2 requests, 1 slot | `ProjectHasStages` fails: a form refused for want of stages has already made the key result a project |

**Why the bounds are enough.** Three teams are an owner, a team that shares and
one that does not, and give lists of two that can be locked in both orders. Two
weights tell a changed weight from an unchanged one: no code compares weights
with each other. Two slots give every pairwise conflict; a third request would
only add waiters. With two requests
in flight `shares_together` has two teams: enough for them to name the same or
different teams and for an owner and a sharer to change places; loops over three teams
are in its other half and in `shares_races`. The premises are needed there: without
`GoalFresh`, `AllFresh` or `stale[r].shares` in any one of the six properties TLC finds
it violated by the other request. Four rows are a list of two or three that a
row is added to and one of another list; one row leaves its list in a run
(`OneLeaves`), since rows do not know each other but by their order, and none is
created while no id is left (`IdsLeft`). The run leaves out what changes nothing
(`Bounds`): moves of a row that stands alone, interruptions that only release a row
lock, the mirror image of two moves in the list of four, and a row created in the list of
one before another joins it; the theorems about `SortOrder` have none of these bounds. Four rows in one list are what it takes for
a move to exchange its row with a neighbour that another move took further, over a row
that nobody touched: without the premise on the neighbour, or without `changed`,
TLC finds `MovesByOnePlace` violated. Five teams
give chains of four below a root. Four requests on key results (`MaxSent`, which
is why these runs stop and are exempt from the deadlock check) are a creation, an
edit that switches the kind, and two that run at once; linear stands for percent
too, which the code treats alike but for the name of the table. In `team_page`, two
teams are the one whose row is read and another one, goals are created for one team,
once (`Bounded`), one chosen status lets a new goal set `forming` and one locks the
page, and two writes (`MaxWrites`) are what undoes or repeats the other: each load is
torn between the two. Metric values 0, 1,
2, 4 give segments of lengths 1, 2, 3 and 4, so quotients that are rounded; two
checkpoints can be in order, against it, tied, and outside of start and target. Two
stages have each mark on either side of a row that is skipped. Every property has a mutant of a modelled
definition (the operator before it, commented *Mutant*) under which TLC finds it
violated within these bounds.

**What holds only with a condition.** These are behaviours of the code that the
properties make explicit:

- An owner that has a share row of its own does not see `goals.weight`, which
  `COALESCE(gs.weight, g.weight)` hides (`store/goals.go:26`), so its edits are
  acknowledged without effect. The API makes such a row if a target list names the
  owner, and a hand-over or share that fails half-way leaves one.
  `AcknowledgedWeightSeen` and `DropTakesEffect` exclude it (`HidesOwnWeight`).
- Two concurrent share requests may leave the union of their lists (each DELETE
  misses the other's uncommitted rows). `ReplaceExact` says that a request's own list
  is there and that only rows written meanwhile survive it.
- A share request from the page writes back the share weights it read before its
  loop, so a weight set meanwhile may be lost; `SelectionTakesEffect` says that no
  other row is touched (`stale[r].shares`). An owner that stays owner and had a share
  row loses it, and sees `goals.weight` from then on.
- A team that asks for the goal's removal as its owner may have been replaced as
  owner, or have got a sharer, since the request read that. It may then take the goal
  from others: `DropAffectsOnlyDropper` is about an owner that acts on what is still
  so, and about every other team without a premise. In the same way an API edit with a
  `team_id` writes back the owner's weight that it read (`GoalEditIsolated`,
  `shares_lost_weight`).
- Two concurrent creations in one list may get the same `sort_order`, which no
  constraint of the database prevents: `DistinctOrders` and `ImplementsLists` are checked, and proved, for one creator. A
  transferred goal may tie with one of its new team, so `DistinctOrders` leaves out
  the lists that were given one (`mixed`), and `Lists` gives it no particular place.
- A move that waited for its neighbour may exchange with it after another move
  took it further away, over the rows between: hence the premise of
  `MovesByOnePlace` (`nbr[r] \notin changed[r]`).
- `README.md:178` of the repository says that goals and key results cannot be edited
  once the period is `validated` or `closed`. That is the browser script's doing:
  `specs/030-user-flows.md:95` and `specs/050-permissions-and-lifecycle.md:34` say
  that the server does not enforce it, and but for the handlers of the pages that look
  at the status (`GetTeamPeriodStatus`) it does not. So no property says it; in the
  models such an edit is an edit like any other, and `OpenForm` has the script's
  refusal (`Locked`).
- `Acyclic`, `AllListed`, `ChecksStillHold` and `ImplementsForest` need one edit at a
  time.
- A status chosen while a goal of the team is being created is overwritten by
  `forming` if the creation had read `no_goals`, even `closed`
  (`handlers/teams/handler.go:608`); `ChoiceStands` and `CreationForms` except those
  (`overruled`, `overtaken`). A creation cut off after its INSERT leaves a team with
  goals at `no_goals`.
- A page shows what its queries found, so a goal shared, handed over or deleted
  during the load may be shown with its old owner and its new shares, and in the table
  in two rows or in none. `UntouchedShownExactly` says that this never spreads to goals
  and teams nobody wrote.
- Whether a form names its team depends on the shares the page was loaded with
  (`app.js:983`). Saved from a stale page, the form of a goal that has been shared
  since writes the owner's weight, whichever team it was opened for;
  `EditsReachTheirTeam` is about pages that are not stale for that goal.
- The list of `share_teams` gives the owner the weight the *viewer* sees
  (`service.go:427`, where `goal.Weight` is already `COALESCE`d for the team of the
  page), so that on a sharing team's page the owner's weight reads like its own.
  Weights of loaded rows are not modelled.
- `POST /api/v1/goals/{id}/move-up` does not say for whom: sent from a sharing
  team's page it reorders the owner's list and leaves the list on that page as it is,
  since a share's place is fixed when it is made (`OrderOnlyByMoves`). The page handler
  `handleMoveGoal` redirects instead (`handlers/goals/handler.go:299`).
- A page's refused form, or an edit cut off half-way, leaves a key result without
  the data of its kind; `DataOfItsKind` says nothing of those (`torn`) until they
  are deleted. Progress reported on one is acknowledged without effect
  (`ProgressTakesEffect` leaves them out).
- Two stage replacements at once may leave the stages of both, and a report that
  has read the kind writes to that kind's table even if an edit has changed it
  since: `EditTakesEffect` and `ProgressTakesEffect` are about requests that nobody
  disturbed.

- Checkpoints are sorted by value, so for a percent key result that is to fall
  (start above target) and has checkpoints, the start shows as 100 and the target
  as 0 (`okr.go:80`). `CheckpointsMet` and `ProgressNeverLost` are about
  checkpoints that lead upwards from start to target (`Sensible`), and about
  metrics without checkpoints in both directions.
- An edit of start and target leaves the checkpoints, which may then lie outside
  of them; only `ProgressBounded` is checked of these.
- The dialog of `app.js` submits only the marks that are set (`app.js:1248`),
  while `parseProjectStages` takes the i-th mark for the i-th stage
  (`helpers.go:76`): saving it moves the marks to the first stages.
  `FormKeepsMarks` is therefore about the page's form; `SaveStages(DialogForm(...))`
  is one of the steps that the other properties hold under. (`README.md:156` of
  the repository calls the fields `stage_title[]` and `stage_weight[]`; the code
  reads `step_title[]` and `step_weight[]`.)

**Fairness.** `Fairness` has strong fairness of each slot's statements and weak
fairness of the abort of a deadlocked one. Handlers run without waiting for
anything but the database; PostgreSQL queues the waiters of a row, so one that
is granted again and again is granted to each of them in the end (strong), and
its deadlock detector runs whenever a wait lasts (weak). Nothing makes a client
send a request, and interruptions are never fair.

## What is proved

TLAPS checks, for all constants that satisfy `ConstantsAssumption`:

| theorem | statement |
|---|---|
| `GoalShares_proof!TypeCorrect` | `Spec => []TypeOK` |
| `GoalShares_proof!SharesAlwaysHaveGoal` | `Spec => []SharesHaveGoal` |
| `GoalSharesEffects_proof!WeightEditsAlwaysIsolated` | `Spec => WeightEditsIsolated`, for any number of requests at once |
| `GoalSharesEffects_proof!ReplaceIsExact`, `GoalEditAlwaysIsolated`, `AcknowledgedWeightIsSeen` | `SpecTogether => ReplaceExact`, `GoalEditIsolated`, `AcknowledgedWeightSeen`, for any number of requests at once |
| `GoalSharesEffects_proof!DropAffectsOnlyTheDropper`, `DropAlwaysTakesEffect`, `SelectionAlwaysTakesEffect` | `SpecTogether => DropAffectsOnlyDropper`, `DropTakesEffect`, `SelectionTakesEffect`, for any number of requests at once |
| `SortOrder_proof!TypeCorrect` | `Spec => []TypeOK` |
| `SortOrder_proof!MovesAlwaysExchange` | `Spec => MovesExchange`, transfers included |
| `SortOrder_proof!MovesAlwaysByOnePlace` | `SpecTogether => MovesByOnePlace`, transfers included |
| `SortOrder_proof!OrdersStayDistinct` | `Spec => []DistinctOrders`, assuming `OneCreator` |
| `SortOrder_proof!ListsImplemented` | `Spec => ImplementsLists`, assuming `OneCreator` |
| `TeamTree_proof!TypeCorrect` | `Spec => []TypeOK` |
| `TeamTree_proof!ParentsAreLive` | `Spec => []ParentsLive` |
| `TeamTree_proof!TreeStaysAcyclic`, `ChecksStayValid`, `EveryTeamListed` | `Spec => []Acyclic`, `[]ChecksStillHold`, `[]AllListed`, assuming `OneEditor` |
| `TeamTree_proof!ForestImplemented` | `Spec => ImplementsForest`, assuming `OneEditor` |
| `TeamTree_proof!WalkIsRight`, `WalkAlwaysFindsDescendants` | `Walk(tree, t) = Descendants(tree, t)` for every `tree`, and `Spec => []WalkFindsDescendants`, assuming finitely many teams |
| `TeamPeriod_proof!TypeCorrect` | `Spec => []TypeOK`, foreign keys included |
| `TeamPeriod_proof!LoadsShowTheUntouched` | `Spec => []UntouchedShownExactly` |
| `TeamPeriod_proof!FormsReachTheirTeam` | `Spec => []EditsReachTheirTeam` |
| `TeamPeriod_proof!ChoicesStand`, `CreationsForm` | `Spec => []ChoiceStands`, `Spec => CreationForms`, for any number of creations at once |
| `TeamPeriod_proof!PlacesAreKept` | `Spec => OrderOnlyByMoves` |
| `KeyResults_proof!TypeCorrect` | `Spec => []TypeOK` |
| `KeyResults_proof!DataOfItsKindCorrect` | `Spec => []DataOfItsKind` |
| `KeyResultsEffects_proof!EditTakesEffectCorrect`, `ProgressTakesEffectCorrect`, `OnlyItsKeyResultCorrect` | `Spec => EditTakesEffect`, `ProgressTakesEffect`, `OnlyItsKeyResult`, for any number of requests at once |
| `Progress_proof!LinearProgressBounded`, `LinearProgressEnds`, `LinearProgressNeverFalls` | `LinearProgress` of any integers is in 0..100, is 0 at the start and 100 at the target, and does not fall on the way |
| `Progress_proof!TypeCorrect` | `Spec => []TypeOK` |
| `Progress_proof!ProgressAlwaysBounded`, `GoalAlwaysInBetween` | `Spec => []ProgressBounded`, `[]GoalInBetween`, for any number of checkpoints and stages |
| `Progress_proof!FormAlwaysKeepsMarks` | `Spec => []FormKeepsMarks`, for any number of stages |
| `Progress_proof!ProgressIsNeverLost` | `Spec => ProgressNeverLost` |
| `Progress_proof!CheckpointsAlwaysMet` | `Spec => []CheckpointsMet`, for any number of checkpoints |
| `Progress_proof!PercentProgressBounded` | `Spec => [](every outcome of PercentProgress is in 0..100)` |

**Arguments.**

*GoalShares.* `SharesHaveGoal` alone is not inductive: a transaction may commit
upserts made before the goal was deleted. `ShareInv` adds, per request, what its
position implies about its locals (`Claims`: only a request between its DELETE
and its COMMIT holds rows), that no two transactions hold the same row
(`Exclusive`), and that the goal exists while a transaction has upserts
(`GoalHeld`, which `DeleteGoal` respects because it waits for them).

*GoalShares, effects.* A weight edit takes the statements of its kind and no other
request moves it along (`RouteInv`), so each statement can be looked at alone:
`WeightEditsIsolated` holds for any number of requests. The effects of a whole request
are about the state it began in, which another request may have changed meanwhile.
`KnownInv` says what a request may still rely on then: what it read is so as far as it
is not `stale` (`Fresh`); a page's loop has collected the teams before its index
(`Selecting`); a goal that is dropped has the owner and shares it was read with, if
they are fresh (`Dropping`); and of the rows that nobody else wrote, those the
transaction deletes and those it has upserted make up its list as far as its index
(`Replacing`). The request's own statements keep it because they make nothing stale
(`OwnStepKeeps`); every step of another request keeps it because whatever that step
changes is noted (`KnownFramed`). The theorems then look at a request's last statement
with `KnownInv` in hand.

*SortOrder.* `MoveInv` says of each request what it may rely on (`Claim`): a move
past its first statement holds its row and has read its current order and scope;
one about to swap also holds its neighbour and has read that row's. Rows held by
somebody are changed by nobody else, so other steps keep the claim, and the swap
exchanges current values. `OrderInv` adds that the order a creation is about to
insert is above all orders of its list (`InsertsLast`), which moves keep because
they permute the orders of a list. For `ListsImplemented`, step by step: the swap of
two current orders is `Exchange` of the two rows (`MoveInv`), an insertion is
`Append`, above all of its list by `InsertsLast` unless the list is `mixed`, and
every other statement leaves `before` alone. For `MovesByOnePlace`, `PlaceInv` says that
of the rows nobody has changed since the query, those left of the snapshot are exactly
those that still qualify, with their present orders: a row tried in vain is one that
somebody changed. So the first that can be locked has no such row before it, and this
stays so until the swap.

*TeamTree.* `TreeInv` adds to `Acyclic` that an edit about to write still has its
checks satisfied. It stays so because creations only add leaves without
descendants and deletions only cut edges, and neither makes a team a descendant
of another. `EveryTeamListed` needs that in a finite acyclic graph every team is
below a root; it is proved without induction, from the teams that are *not*
listed: their parents are not listed either, so by `Acyclic` there are none.
`ForestImplemented` rests on what one changed parent does to `Descendants`, again
without induction, as the least set closed under children: those of teams not above
the moved one stay, and those above its new parent gain the whole subtree. That
descendants form a forest order needs the finite, acyclic case too.

`WalkIsRight` is about every graph, the cyclic ones included. `Walk` is a function on
visits, the teams to do with those visited. The recursion is well-founded: each inner
visit has fewer unvisited teams, or as many and fewer to do (`Measure`). Hence the
function exists, by the library's theorem that a non-empty set of naturals has a least
element, applied to the first measure for which it might not. By the same induction a
visit returns the teams visited before, those to do and the children of whatever it
adds, and nothing beyond the least such set (`Right`).

*TeamPeriod.* A load's claims grow with it: `LoadInv` says which rows are begun,
which of their fields have been read, and that each of these is exact for what is not
in `touched`. A write puts all it changes into `touched`, for which it is enough that
every write leaves the rest of the tables alone (lemma `Leaves...`, one per action);
a query makes one more field exact. `EditInv` carries the exactness of the loaded
page into the form's statements, where `SendsTeam` is compared with the shares as
they are. For statuses, `SlotInv` says what a creation may rely on: unless it was
overtaken, a slot that has read `no_goals` finds the team at `no_goals` or
`forming`.

*KeyResults.* Two edits may overlap, so one's kind may be followed by the other's
data, and neither alone keeps `DataOfItsKind`. `KeyResultInv` says why they do
together: a key result that is alive and not torn has the data of its kind, or a
request with exactly that kind is still to write them (`HasData`). Whoever
writes the kind last is such a request and can only end by writing, by failing
because the key result is gone, or by tearing it; metadata are never removed
before that, and a DELETE of stages puts its own request in charge, whose form
has at least one (`Claim`).

*KeyResults, effects.* A request that is done has done what it was asked, or somebody
wrote to its key result since it began: `EffectInv` says after each of its statements
which part is achieved (`Achieved`), and that this lasts because whoever writes there
marks it as disturbed. A report on stages has read their ids one statement earlier; ids
are never used twice (`StagesNumbered`), so what it marks is its own key result's, and
those still to be marked are what is left of its list (`ToMark`).

*Progress.* Everything rests on `ClampPercent`: it returns 0..100 (`ClampBounds`), is
monotone (`ClampMonotone`) and returns whole percents exactly (`ClampOfWhole`),
from three facts about integer division. For `CheckpointsAlwaysMet`, at a point
of the curve the first segment that contains it ends there (the points have
distinct values), and `Interpolate` at its right end gives that point's percent.
For `ProgressIsNeverLost`, two values on the curve are in one segment, which is monotone
(`InterpolateMonotone`), or the second is in a later segment, which starts no lower than
the first one ends (`PercentNeverFalls`).

Sums over stages and key results are of any length, so what is said of them needs
induction. It is done on sets instead of predicates: the set of the subsets for which the
statement holds contains the empty one and is closed under adding an element, so it
contains all of them (`FiniteInduction`, from the library's theorem that a well-founded
order has minimal elements). With it a sum of larger terms is larger (`SumMonotone`) and a
multiple of every term a multiple of the sum (`SumScaled`). A weighted mean is between
the least and the greatest of what has weight, as the sums of those two, scaled by the
total weight, are (`GoalAlwaysInBetween`). `InOrder`, the rows a parser keeps, is a
recursive function over positions: that it exists is proved the same way, and that the
rows of the form come back with their marks follows from its equation.

**Only model-checked.** Liveness (`RequestsEnd` of `GoalShares` and of `SortOrder`) and
with it everything about fairness, which TLAPS does not prove: it has no rule for
`ENABLED`. Every other property of a passing run is stated by a theorem; those of the
violation runs are false. What a theorem assumes beyond `ConstantsAssumption` is in its
statement: `OneCreator` and `OneEditor`, without which TLC finds
counterexamples, and finitely many teams, without which the walk need not end.

## Not modelled yet, and the plan

In this order, each with its proofs in a module of its own:

1. An abstract `Sharing` (a map from teams to weights, one atomic change per
   request), which `GoalShares` with one slot implements under
   `SeenWeight` as the refinement mapping.
2. `RefusedShareKeepsOwner` for the requests that it does hold for, lists of one team,
   with its proof.
3. The dates of periods, and which one `FindPeriodForDate` picks where they overlap.
4. Weights in the rows of `TeamPeriod`, once it is settled whose weight
   `share_teams` is to show for the owner.
5. Falling metrics with checkpoints, and the marks of the dialog, as properties of
   their own, once it is settled what the program promises about them.
6. Key results: the form that sets the weights of all key results of a goal one
   by one and gives 0 to those it does not name, cut off in the middle or beside
   another request.

New properties of existing modules join the runs above where their bounds suit
(`shares_together` for the refinement); where they do not, two runs with the same
question are merged.

Not modelled, and not planned: startup, migrations as programs and the demo data (run
once, before any request); routes, templates, labels and the copying of fields into answers
(stateless); comments (single INSERTs that nothing reads
back but for display); of the browser script, rendering and the order in which late
answers arrive (each action reloads the page, nothing orders two reloads, and the next
one repairs it); `renderTeamOKRWithError`, which shows a refused form with the same
queries in another order, and `appendTeamRows`, which nothing calls; the filter by
`org_id`, which only leaves rows out.
