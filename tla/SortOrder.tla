------------------------------ MODULE SortOrder ------------------------------
(***************************************************************************)
(* sort_order of goals (within an owner team and a period), key results    *)
(* (within a goal) and periods (within the one list of periods): created   *)
(* at the end of their scope, moved up and down by swapping with a         *)
(* neighbour.  The three tables share one algorithm; "scope" stands for    *)
(* what the neighbour queries filter by.  Only goals change scope, when    *)
(* UpdateGoalOwner gives them to another team (sort_order is kept).        *)
(*                                                                         *)
(* A move is a READ COMMITTED transaction of MoveGoal, MoveKeyResult or    *)
(* MovePeriod, one action per statement.  Its two UPDATEs touch only rows  *)
(* it has locked and show at COMMIT, so they and the COMMIT are one        *)
(* action; the clients can see nothing in between.                         *)
(***************************************************************************)
EXTENDS Integers

CONSTANTS
  Item,         \* row ids
  Scope,        \* what rows are ordered within
  Unborn, Gone, \* "scope" of an id not used yet, and of a deleted row
  Req,          \* request slots
  NoReq,        \* holder of an unlocked row
  Creators,     \* the slots that also serve create requests
  Transferable, \* TRUE of goals: a row may change its scope
  Interruptible \* TRUE: a client may disconnect, or the server stop, mid-request

ASSUME ConstantsAssumption ==
  /\ Item \subseteq Nat
  /\ Unborn \notin Scope /\ Gone \notin Scope /\ Unborn # Gone
  /\ NoReq \notin Req
  /\ Creators \subseteq Req
  /\ Transferable \in BOOLEAN /\ Interruptible \in BOOLEAN

VARIABLES
  order,   \* order[i]: sort_order of row i
  scope,   \* scope[i]: its scope, Unborn or Gone
  holder,  \* holder[i]: the move that has row i FOR UPDATE
  mixed,   \* history: the scopes into which a row was transferred
  pc,      \* pc[r]: the next statement of the request in slot r
  item,    \* item[r]: the row to move
  dir,     \* dir[r]: -1 up, 1 down
  home,    \* home[r]: the scope read with that row, or to create in
  cur,     \* cur[r]: currentOrder; of a create, the sort_order to insert
  left,    \* left[r]: rows of the neighbour query not looked at yet ...
  snap,    \* snap[r]: ... and the orders in its snapshot
  nbr,     \* nbr[r]: neighborID
  nbrOrder \* nbrOrder[r]: neighborOrder

rows   == <<order, scope, holder, mixed>>
locals == <<item, dir, home, cur, left, snap, nbr, nbrOrder>>
vars   == <<order, scope, holder, mixed, pc, item, dir, home, cur, left, snap, nbr,
            nbrOrder>>

Finished == {"done", "failed"}

NoItem == -1
NoOrders == [i \in Item |-> 0]

Live(i) == scope[i] \in Scope

Free(i) == holder[i] = NoReq

Rows(s) == {i \in Item : scope[i] = s}

\* x lies beyond y in direction d: above it for -1, below it for 1.
Beyond(d, x, y) == IF d = 1 THEN x > y ELSE x < y

\* COMMIT or ROLLBACK: the row locks go with the transaction.
Release(r) == holder' = [i \in Item |-> IF holder[i] = r THEN NoReq ELSE holder[i]]

GoTo(r, label) == pc' = [pc EXCEPT ![r] = label]

\* A finished request leaves only its outcome behind.
Finish(r, outcome) ==
  /\ Release(r)
  /\ GoTo(r, outcome)
  /\ item' = [item EXCEPT ![r] = NoItem]
  /\ dir' = [dir EXCEPT ![r] = 1]
  /\ home' = [home EXCEPT ![r] = Unborn]
  /\ cur' = [cur EXCEPT ![r] = 0]
  /\ left' = [left EXCEPT ![r] = {}]
  /\ snap' = [snap EXCEPT ![r] = NoOrders]
  /\ nbr' = [nbr EXCEPT ![r] = NoItem]
  /\ nbrOrder' = [nbrOrder EXCEPT ![r] = 0]

-----------------------------------------------------------------------------
\* Move

StartMove(r) ==
  /\ pc[r] \in Finished
  /\ \E i \in Item, d \in {-1, 1} :
       /\ scope[i] # Unborn
       /\ item' = [item EXCEPT ![r] = i]
       /\ dir' = [dir EXCEPT ![r] = d]
  /\ GoTo(r, "lock")
  /\ UNCHANGED <<rows, home, cur, left, snap, nbr, nbrOrder>>

\* Mutants: the row is read without FOR UPDATE; a missing row is not noticed.
LockItemUnlocked(r) ==
  /\ pc[r] = "lock"
  /\ cur' = [cur EXCEPT ![r] = order[item[r]]]
  /\ home' = [home EXCEPT ![r] = scope[item[r]]]
  /\ GoTo(r, IF Live(item[r]) THEN "scan" ELSE "failed")
  /\ UNCHANGED <<rows, item, dir, left, snap, nbr, nbrOrder>>

LockItemUnchecked(r) ==
  /\ pc[r] = "lock"
  /\ Free(item[r])
  /\ holder' = [holder EXCEPT ![item[r]] = r]
  /\ cur' = [cur EXCEPT ![r] = order[item[r]]]
  /\ home' = [home EXCEPT ![r] = scope[item[r]]]
  /\ GoTo(r, "scan")
  /\ UNCHANGED <<order, scope, mixed, item, dir, left, snap, nbr, nbrOrder>>

\* SELECT ... WHERE id=$1 FOR UPDATE: waits for the row, fails if it is gone.
LockItem(r) ==
  /\ pc[r] = "lock"
  /\ LET i == item[r]
     IN \/ /\ ~Live(i)
           /\ Finish(r, "failed")
           /\ UNCHANGED <<order, scope, mixed>>
        \/ /\ Live(i) /\ Free(i)
           /\ holder' = [holder EXCEPT ![i] = r]
           /\ cur' = [cur EXCEPT ![r] = order[i]]
           /\ home' = [home EXCEPT ![r] = scope[i]]
           /\ GoTo(r, "scan")
           /\ UNCHANGED <<order, scope, mixed, item, dir, left, snap, nbr, nbrOrder>>

\* The neighbour query takes its snapshot.
ScanNeighbours(r) ==
  /\ pc[r] = "scan"
  /\ LET found == {i \in Rows(home[r]) : Beyond(dir[r], order[i], cur[r])}
     IN /\ left' = [left EXCEPT ![r] = found]
        /\ snap' = [snap EXCEPT ![r] = [i \in Item |-> IF i \in found THEN order[i] ELSE 0]]
  /\ GoTo(r, "neighbour")
  /\ UNCHANGED <<rows, item, dir, home, cur, nbr, nbrOrder>>

\* Mutant: ASC and DESC are swapped.
LastInLine(r, i) ==
  i \in left[r] /\ \A j \in left[r] : ~Beyond(dir[r], snap[r][j], snap[r][i])

\* i is the first of the rows left in the snapshot's order.
NextInLine(r, i) ==
  i \in left[r] /\ \A j \in left[r] : ~Beyond(dir[r], snap[r][i], snap[r][j])

\* The WHERE clause again, on the row as it is once it could be locked.
StillQualifies(r, i) ==
  scope[i] = home[r] /\ Beyond(dir[r], order[i], cur[r])

\* Mutant: the neighbour is read without FOR UPDATE.
ReadNeighbour(r) ==
  /\ pc[r] = "neighbour"
  /\ \E i \in Item :
       /\ NextInLine(r, i)
       /\ nbr' = [nbr EXCEPT ![r] = i]
       /\ nbrOrder' = [nbrOrder EXCEPT ![r] = snap[r][i]]
  /\ GoTo(r, "swap")
  /\ left' = [left EXCEPT ![r] = {}]
  /\ snap' = [snap EXCEPT ![r] = NoOrders]
  /\ UNCHANGED <<rows, item, dir, home, cur>>

\* ORDER BY ... LIMIT 1 FOR UPDATE: the first row that, once locked, still
\* qualifies; one that no longer does stays locked and the next is tried.
LockNeighbour(r) ==
  /\ pc[r] = "neighbour"
  /\ \E i \in Item :
       /\ NextInLine(r, i)
       /\ Free(i)
       /\ holder' = IF Live(i) THEN [holder EXCEPT ![i] = r] ELSE holder
       /\ IF StillQualifies(r, i)
          THEN /\ nbr' = [nbr EXCEPT ![r] = i]
               /\ nbrOrder' = [nbrOrder EXCEPT ![r] = order[i]]
               /\ GoTo(r, "swap")
               /\ left' = [left EXCEPT ![r] = {}]
               /\ snap' = [snap EXCEPT ![r] = NoOrders]
          ELSE /\ left' = [left EXCEPT ![r] = @ \ {i}]
               /\ snap' = [snap EXCEPT ![r][i] = 0]
               /\ UNCHANGED <<nbr, nbrOrder, pc>>
  /\ UNCHANGED <<order, scope, mixed, item, dir, home, cur>>

\* ErrNoRows: commit without a change.
NoNeighbour(r) ==
  /\ pc[r] = "neighbour"
  /\ left[r] = {}
  /\ Finish(r, "done")
  /\ UNCHANGED <<order, scope, mixed>>

Swap(r) ==
  /\ pc[r] = "swap"
  /\ order' = [order EXCEPT ![item[r]] = nbrOrder[r], ![nbr[r]] = cur[r]]
  /\ Finish(r, "done")
  /\ UNCHANGED <<scope, mixed>>

-----------------------------------------------------------------------------
\* Create: one INSERT whose subquery reads COALESCE(MAX(sort_order), 0) + 1 in
\* the statement's snapshot; the row appears when the statement commits.

\* Bound: an id for the new row.
IdsLeft == Rows(Unborn) # {}

\* Mutant: without the + 1.
ReadMaxItself(r) ==
  /\ r \in Creators
  /\ pc[r] \in Finished
  /\ IdsLeft
  /\ \E s \in Scope :
       /\ home' = [home EXCEPT ![r] = s]
       /\ \E m \in {order[i] : i \in Rows(s)} :
            /\ \A i \in Rows(s) : order[i] <= m
            /\ cur' = [cur EXCEPT ![r] = m]
  /\ GoTo(r, "insert")
  /\ UNCHANGED <<rows, item, dir, left, snap, nbr, nbrOrder>>

ReadMax(r) ==
  /\ r \in Creators
  /\ pc[r] \in Finished
  /\ IdsLeft
  /\ \E s \in Scope :
       /\ home' = [home EXCEPT ![r] = s]
       /\ \E m \in {0} \cup {order[i] : i \in Rows(s)} :
            /\ \A i \in Rows(s) : order[i] <= m
            /\ cur' = [cur EXCEPT ![r] = m + 1]
  /\ GoTo(r, "insert")
  /\ UNCHANGED <<rows, item, dir, left, snap, nbr, nbrOrder>>

InsertRow(r) ==
  /\ pc[r] = "insert"
  /\ \E i \in Rows(Unborn) :
       /\ scope' = [scope EXCEPT ![i] = home[r]]
       /\ order' = [order EXCEPT ![i] = cur[r]]
  /\ Finish(r, "done")
  /\ UNCHANGED mixed

-----------------------------------------------------------------------------
\* The other writers of these rows wait for the lock of a move.  A deletion may
\* be a cascade from the goal, team or period.

DeleteRow(i) ==
  /\ Live(i) /\ Free(i)
  /\ scope' = [scope EXCEPT ![i] = Gone]
  /\ order' = [order EXCEPT ![i] = 0]
  /\ UNCHANGED <<holder, mixed, pc, locals>>

\* UpdateGoalOwner: team_id changes, sort_order does not.
TransferRow(i) ==
  /\ Transferable
  /\ Live(i) /\ Free(i)
  /\ \E s \in Scope \ {scope[i]} :
       /\ scope' = [scope EXCEPT ![i] = s]
       /\ mixed' = mixed \cup {s}
  /\ UNCHANGED <<order, holder, pc, locals>>

\* The row a move waits for, and the moves that keep each other waiting.
Wanted(r) ==
  CASE pc[r] = "lock" -> {item[r]}
    [] pc[r] = "neighbour" -> {i \in left[r] : NextInLine(r, i)}
    [] OTHER -> {}

WaitsFor(r) == {holder[i] : i \in Wanted(r)} \ {NoReq}

Deadlocked(r) ==
  \E S \in SUBSET Req : r \in S /\ \A q \in S : WaitsFor(q) \cap S # {}

\* Mutant: the transaction is neither committed nor rolled back.
AbortWithoutRollback(r) ==
  /\ pc[r] \notin Finished
  /\ Interruptible \/ Deadlocked(r)
  /\ GoTo(r, "failed")
  /\ UNCHANGED <<rows, locals>>

\* An error, a cancelled request, or PostgreSQL breaking a deadlock: rollback.
\* (MovePeriod answers an error of the neighbour query with COMMIT, which
\* PostgreSQL turns into the same rollback.)
Abort(r) ==
  /\ pc[r] \notin Finished
  /\ Interruptible \/ Deadlocked(r)
  /\ Finish(r, "failed")
  /\ UNCHANGED <<order, scope, mixed>>

Statement(r) ==
  \/ LockItem(r)
  \/ ScanNeighbours(r)
  \/ LockNeighbour(r)
  \/ NoNeighbour(r)
  \/ Swap(r)
  \/ InsertRow(r)

\* What the migrations leave behind: distinct orders within each scope (1, 2, ...
\* of goals and periods, the ids of key results).
Init ==
  /\ scope \in [Item -> Scope \cup {Unborn}]
  /\ order \in [Item -> Nat]
  /\ \A i \in Item : Live(i) => order[i] > 0
  /\ \A i, j \in Item : i # j /\ Live(i) /\ scope[i] = scope[j] => order[i] # order[j]
  /\ holder = [i \in Item |-> NoReq]
  /\ mixed = {}
  /\ pc = [r \in Req |-> "done"]
  /\ item = [r \in Req |-> NoItem]
  /\ dir = [r \in Req |-> 1]
  /\ home = [r \in Req |-> Unborn]
  /\ cur = [r \in Req |-> 0]
  /\ left = [r \in Req |-> {}]
  /\ snap = [r \in Req |-> NoOrders]
  /\ nbr = [r \in Req |-> NoItem]
  /\ nbrOrder = [r \in Req |-> 0]

Next ==
  \/ \E r \in Req : StartMove(r) \/ ReadMax(r) \/ Statement(r) \/ Abort(r)
  \/ \E i \in Item : DeleteRow(i) \/ TransferRow(i)

Spec == Init /\ [][Next]_vars

\* Handlers run on; PostgreSQL queues the waiters of a row and resolves
\* deadlocks.
Fairness ==
  \A r \in Req : SF_vars(Statement(r)) /\ WF_vars(Deadlocked(r) /\ Abort(r))

FairSpec == Spec /\ Fairness

-----------------------------------------------------------------------------
\* Properties

\* Every variable has its type: no request goes on with the order or the scope of
\* a row that it did not find.
TypeOK ==
  /\ order \in [Item -> Nat]
  /\ scope \in [Item -> Scope \cup {Unborn, Gone}]
  /\ holder \in [Item -> Req \cup {NoReq}]
  /\ mixed \subseteq Scope
  /\ pc \in [Req -> Finished \cup {"lock", "scan", "neighbour", "swap", "insert"}]
  /\ item \in [Req -> Item \cup {NoItem}]
  /\ dir \in [Req -> {-1, 1}]
  /\ home \in [Req -> Scope \cup {Unborn}]
  /\ cur \in [Req -> Nat]
  /\ left \in [Req -> SUBSET Item]
  /\ snap \in [Req -> [Item -> Nat]]
  /\ nbr \in [Req -> Item \cup {NoItem}]
  /\ nbrOrder \in [Req -> Nat]

\* Two rows of a scope have different sort_orders, which is what lets a move tell
\* them apart, unless the scope was given a row of another one.
DistinctOrders ==
  \A i, j \in Item :
    i # j /\ scope[i] \in Scope \ mixed /\ scope[i] = scope[j] => order[i] # order[j]

\* A move that commits a change exchanges the orders that its two rows have at
\* that moment, rows of one scope, and takes its row in the direction asked for:
\* nothing it read has gone stale, whoever else ran meanwhile.
MovesExchange ==
  [][\A r \in Req : pc[r] = "swap" /\ pc'[r] = "done" =>
        /\ order' = [order EXCEPT ![item[r]] = order[nbr[r]], ![nbr[r]] = order[item[r]]]
        /\ Live(item[r]) /\ scope[nbr[r]] = scope[item[r]]
        /\ Beyond(dir[r], order'[item[r]], order[item[r]])]_vars

\* ListGoalsByTeamPeriod and its like list a scope by (sort_order, id).
ListedBefore(i, j) == order[i] < order[j] \/ (order[i] = order[j] /\ i < j)

\* A move that changes nothing was asked of the first or last row of its scope.
NoChangeOnlyAtTheEdge ==
  [][\A r \in Req : pc[r] = "neighbour" /\ pc'[r] = "done" =>
        \A j \in Rows(home[r]) \ {item[r]} :
           IF dir[r] = 1 THEN ListedBefore(j, item[r]) ELSE ListedBefore(item[r], j)]_vars

\* Every request ends, also when moves wait for each other's rows.
RequestsEnd == \A r \in Req : pc[r] \notin Finished ~> pc[r] \in Finished

\* The lists that the orders stand for.
before ==
  {p \in Item \X Item : Live(p[1]) /\ scope[p[2]] = scope[p[1]] /\ order[p[1]] < order[p[2]]}

AsLists == INSTANCE Lists WITH scope <- scope, before <- before, mixed <- mixed

\* To its clients each scope is a list: rows are appended to it, change places
\* in pairs and leave, however the statements of the requests interleave.
ImplementsLists == AsLists!Spec

=============================================================================
