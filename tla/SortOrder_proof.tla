-------------------------- MODULE SortOrder_proof --------------------------
(***************************************************************************)
(* Moves exchange the orders of two rows, whatever runs beside them, for   *)
(* any set of rows, scopes and requests, and pass over no row that nobody  *)
(* touched meanwhile (SortOrderTogether).  If one request at a time        *)
(* creates rows, no two rows of a scope tie unless it was given another    *)
(* scope's, and SortOrder implements Lists.                                *)
(*                                                                         *)
(* The argument: what a move has read of a row it holds stays true of that *)
(* row, because every other writer waits for the row lock.                 *)
(***************************************************************************)
EXTENDS SortOrderTogether, TLAPS

\* What the request in slot r has read and holds.
Claim(r) ==
  /\ pc[r] = "lock" => item[r] \in Item
  /\ pc[r] \in {"scan", "neighbour", "swap"} =>
       /\ item[r] \in Item /\ holder[item[r]] = r
       /\ home[r] \in Scope /\ scope[item[r]] = home[r]
       /\ order[item[r]] = cur[r]
  /\ pc[r] = "swap" =>
       /\ nbr[r] \in Item /\ holder[nbr[r]] = r
       /\ scope[nbr[r]] = home[r]
       /\ order[nbr[r]] = nbrOrder[r]
       /\ Beyond(dir[r], nbrOrder[r], cur[r])

MoveInv == TypeOK /\ \A r \in Req : Claim(r)

\* A step leaves the request in slot r, and the rows it holds, alone.
Undisturbed(r) ==
  /\ pc'[r] = pc[r] /\ item'[r] = item[r] /\ dir'[r] = dir[r] /\ home'[r] = home[r]
  /\ cur'[r] = cur[r] /\ nbr'[r] = nbr[r] /\ nbrOrder'[r] = nbrOrder[r]
  /\ \A i \in Item : holder[i] = r =>
       holder'[i] = r /\ order'[i] = order[i] /\ scope'[i] = scope[i]

LEMMA UndisturbedKeepsClaim ==
  ASSUME NEW r \in Req, Claim(r), Undisturbed(r)
  PROVE  Claim(r)'
BY DEF Claim, Undisturbed, Beyond

\* An ended request claims nothing.
LEMMA FinishedClaimsNothing ==
  ASSUME NEW r \in Req, pc'[r] \in Finished \cup {"insert"}
  PROVE  Claim(r)'
BY DEF Claim, Finished

\* A request that ends releases its own rows only.
LEMMA FinishIsLocal ==
  ASSUME MoveInv, NEW r \in Req, NEW outcome \in Finished, Finish(r, outcome), NEW q \in Req, q # r,
         \A i \in Item : holder[i] = q => order'[i] = order[i] /\ scope'[i] = scope[i]
  PROVE  Undisturbed(q)
BY DEF MoveInv, TypeOK, Finish, Release, GoTo, Undisturbed

-----------------------------------------------------------------------------
\* One lemma per kind of step.

LEMMA FinishTypes ==
  ASSUME MoveInv, NEW r \in Req, NEW outcome \in Finished, Finish(r, outcome),
         order' \in [Item -> Nat], scope' \in [Item -> Scope \cup {Unborn, Gone}],
         mixed' \subseteq Scope
  PROVE  TypeOK'
BY ConstantsAssumption
DEF MoveInv, TypeOK, Finish, Release, GoTo, NoOrders, NoItem

LEMMA FinishStep ==
  ASSUME MoveInv, NEW r \in Req, NEW outcome \in Finished, Finish(r, outcome),
         order' \in [Item -> Nat], scope' \in [Item -> Scope \cup {Unborn, Gone}],
         mixed' = mixed,
         \A q \in Req \ {r}, i \in Item :
            holder[i] = q => order'[i] = order[i] /\ scope'[i] = scope[i]
  PROVE  MoveInv'
<1>1. TypeOK'
  BY FinishTypes DEF MoveInv, TypeOK
<1>2. Claim(r)'
  BY FinishedClaimsNothing DEF MoveInv, TypeOK, Finish, GoTo
<1>3. ASSUME NEW q \in Req, q # r PROVE Claim(q)'
  BY <1>3, FinishIsLocal, UndisturbedKeepsClaim DEF MoveInv
<1> QED
  BY <1>1, <1>2, <1>3 DEF MoveInv

LEMMA StartMoveStep ==
  ASSUME MoveInv, NEW r \in Req, StartMove(r)
  PROVE  MoveInv'
<1> USE DEF MoveInv, StartMove, TypeOK, GoTo, rows
<1>1. TypeOK'
  OBVIOUS
<1>2. Claim(r)'
  BY DEF Claim
<1>3. ASSUME NEW q \in Req, q # r PROVE Claim(q)'
  BY <1>3, UndisturbedKeepsClaim DEF Undisturbed
<1> QED
  BY <1>1, <1>2, <1>3

LEMMA LockItemStep ==
  ASSUME MoveInv, NEW r \in Req, LockItem(r)
  PROVE  MoveInv'
<1> USE DEF MoveInv
<1>1. item[r] \in Item
  BY DEF LockItem, Claim
<1>2. CASE Finish(r, "failed") /\ UNCHANGED <<order, scope, mixed>>
  BY <1>2, FinishStep DEF TypeOK, Finished
<1>3. CASE /\ Live(item[r]) /\ Free(item[r])
           /\ holder' = [holder EXCEPT ![item[r]] = r]
           /\ cur' = [cur EXCEPT ![r] = order[item[r]]]
           /\ home' = [home EXCEPT ![r] = scope[item[r]]]
           /\ GoTo(r, "scan")
           /\ UNCHANGED <<order, scope, mixed, item, dir, left, snap, nbr, nbrOrder>>
  <2> USE <1>1, <1>3 DEF TypeOK, GoTo, Live, Free
  <2>1. TypeOK'
    OBVIOUS
  <2>2. Claim(r)'
    BY DEF Claim
  <2>3. ASSUME NEW q \in Req, q # r PROVE Claim(q)'
    BY <2>3, UndisturbedKeepsClaim, ConstantsAssumption DEF Undisturbed
  <2> QED
    BY <2>1, <2>2, <2>3
<1> QED
  BY <1>2, <1>3 DEF LockItem

LEMMA ScanStep ==
  ASSUME MoveInv, NEW r \in Req, ScanNeighbours(r)
  PROVE  MoveInv'
<1> USE DEF MoveInv, ScanNeighbours, TypeOK, GoTo, rows
<1>1. TypeOK'
  BY DEF Rows
<1>2. Claim(r)'
  BY DEF Claim
<1>3. ASSUME NEW q \in Req, q # r PROVE Claim(q)'
  BY <1>3, UndisturbedKeepsClaim DEF Undisturbed
<1> QED
  BY <1>1, <1>2, <1>3

LEMMA LockNeighbourStep ==
  ASSUME MoveInv, NEW r \in Req, LockNeighbour(r)
  PROVE  MoveInv'
<1> USE DEF MoveInv, TypeOK, GoTo
<1>0. PICK i \in Item :
         /\ Free(i)
         /\ holder' = IF Live(i) THEN [holder EXCEPT ![i] = r] ELSE holder
         /\ IF StillQualifies(r, i)
            THEN /\ nbr' = [nbr EXCEPT ![r] = i]
                 /\ nbrOrder' = [nbrOrder EXCEPT ![r] = order[i]]
                 /\ GoTo(r, "swap")
                 /\ left' = [left EXCEPT ![r] = {}]
                 /\ snap' = [snap EXCEPT ![r] = NoOrders]
            ELSE /\ left' = [left EXCEPT ![r] = @ \ {i}]
                 /\ snap' = [snap EXCEPT ![r][i] = 0]
                 /\ UNCHANGED <<nbr, nbrOrder, pc>>
  BY DEF LockNeighbour
<1>1. pc[r] = "neighbour" /\ UNCHANGED <<order, scope, mixed, item, dir, home, cur>>
  BY DEF LockNeighbour
<1>2. holder' \in [Item -> Req \cup {NoReq}]
      /\ \A j \in Item : holder[j] # NoReq => holder'[j] = holder[j]
  BY <1>0 DEF Free
<1>3. TypeOK'
  <2>1. CASE StillQualifies(r, i)
    <3>1. pc' = [pc EXCEPT ![r] = "swap"] /\ nbr' = [nbr EXCEPT ![r] = i]
          /\ nbrOrder' = [nbrOrder EXCEPT ![r] = order[i]]
          /\ left' = [left EXCEPT ![r] = {}] /\ snap' = [snap EXCEPT ![r] = NoOrders]
      BY <1>0, <2>1
    <3>2. NoOrders \in [Item -> Nat]
      BY DEF NoOrders
    <3> QED
      BY <1>1, <1>2, <3>1, <3>2
  <2>2. CASE ~StillQualifies(r, i)
    <3>1. snap' = [snap EXCEPT ![r] = [snap[r] EXCEPT ![i] = 0]]
          /\ left' = [left EXCEPT ![r] = left[r] \ {i}] /\ UNCHANGED <<nbr, nbrOrder, pc>>
      BY <1>0, <2>2
    <3>2. snap' \in [Req -> [Item -> Nat]]
      BY <3>1
    <3> QED
      BY <1>1, <1>2, <3>1, <3>2
  <2> QED
    BY <2>1, <2>2
<1>4. Claim(r)'
  <2>1. CASE StillQualifies(r, i)
    <3>1. Live(i) /\ holder'[i] = r
      BY <1>0, <1>1, <2>1 DEF StillQualifies, Live, Claim
    <3> QED
      BY <1>0, <1>1, <1>2, <2>1, <3>1, ConstantsAssumption DEF StillQualifies, Claim, Beyond
  <2>2. CASE ~StillQualifies(r, i)
    BY <1>0, <1>1, <1>2, <2>2, ConstantsAssumption DEF Claim
  <2> QED
    BY <2>1, <2>2
<1>5. ASSUME NEW q \in Req, q # r PROVE Claim(q)'
  BY <1>0, <1>1, <1>2, <1>5, UndisturbedKeepsClaim, ConstantsAssumption DEF Undisturbed
<1> QED
  BY <1>3, <1>4, <1>5

LEMMA SwapStep ==
  ASSUME MoveInv, NEW r \in Req, Swap(r)
  PROVE  MoveInv'
<1>1. order' \in [Item -> Nat]
  BY DEF MoveInv, TypeOK, Swap
<1>2. \A q \in Req \ {r}, i \in Item : holder[i] = q => order'[i] = order[i]
  BY DEF MoveInv, TypeOK, Claim, Swap
<1> QED
  BY <1>1, <1>2, FinishStep DEF MoveInv, TypeOK, Swap, Finished

LEMMA ReadMaxStep ==
  ASSUME MoveInv, NEW r \in Req, ReadMax(r)
  PROVE  MoveInv'
<1> USE DEF MoveInv, ReadMax, TypeOK, GoTo, rows
<1>1. TypeOK'
  BY DEF Rows
<1>2. Claim(r)'
  BY FinishedClaimsNothing
<1>3. ASSUME NEW q \in Req, q # r PROVE Claim(q)'
  BY <1>3, UndisturbedKeepsClaim DEF Undisturbed
<1> QED
  BY <1>1, <1>2, <1>3

LEMMA InsertRowStep ==
  ASSUME MoveInv, NEW r \in Req, InsertRow(r)
  PROVE  MoveInv'
<1>1. PICK i \in Rows(Unborn) :
         /\ scope' = [scope EXCEPT ![i] = home[r]]
         /\ order' = [order EXCEPT ![i] = cur[r]]
  BY DEF InsertRow
\* Nobody holds an id not used yet.
<1>2. i \in Item /\ scope[i] = Unborn
  BY DEF Rows
<1>3. order' \in [Item -> Nat] /\ scope' \in [Item -> Scope \cup {Unborn, Gone}]
  BY <1>1, <1>2 DEF MoveInv, TypeOK
<1>4. TypeOK'
  BY <1>3, FinishTypes DEF InsertRow, Finished, MoveInv, TypeOK
<1>5. Claim(r)'
  BY FinishedClaimsNothing DEF InsertRow, Finish, GoTo, MoveInv, TypeOK, Finished
<1>6. ASSUME NEW q \in Req, q # r PROVE Claim(q)'
  <2>1. /\ pc'[q] = pc[q] /\ item'[q] = item[q] /\ dir'[q] = dir[q] /\ home'[q] = home[q]
        /\ cur'[q] = cur[q] /\ nbr'[q] = nbr[q] /\ nbrOrder'[q] = nbrOrder[q]
    BY <1>6 DEF InsertRow, Finish, GoTo, MoveInv, TypeOK
  <2>2. \A j \in Item : holder[j] = q => holder'[j] = q
    BY <1>6 DEF InsertRow, Finish, Release, MoveInv, TypeOK
  <2>3. \A j \in Item \ {i} : order'[j] = order[j] /\ scope'[j] = scope[j]
    BY <1>1, <1>2 DEF MoveInv, TypeOK
  <2>4. Claim(q)
    BY DEF MoveInv
  <2>5. pc[q] \in {"scan", "neighbour", "swap"} => item[q] # i
    BY <1>2, <2>4, ConstantsAssumption DEF Claim
  <2>6. pc[q] = "swap" => nbr[q] # i
    BY <1>2, <2>4, ConstantsAssumption DEF Claim
  <2> QED
    BY <2>1, <2>2, <2>3, <2>4, <2>5, <2>6 DEF Claim, Beyond
<1> QED
  BY <1>4, <1>5, <1>6 DEF MoveInv

LEMMA AbortStep ==
  ASSUME MoveInv, NEW r \in Req, Abort(r)
  PROVE  MoveInv'
BY FinishStep DEF MoveInv, TypeOK, Abort, Finished

LEMMA NoNeighbourStep ==
  ASSUME MoveInv, NEW r \in Req, NoNeighbour(r)
  PROVE  MoveInv'
BY FinishStep DEF MoveInv, TypeOK, NoNeighbour, Finished

\* The other writers of the rows touch none that a move holds.
LEMMA UnheldRowStep ==
  ASSUME MoveInv, NEW i \in Item, DeleteRow(i) \/ TransferRow(i)
  PROVE  MoveInv'
<1>1. Free(i) /\ UNCHANGED <<holder, pc, locals>>
  BY DEF DeleteRow, TransferRow
<1>2. \A j \in Item \ {i} : order'[j] = order[j] /\ scope'[j] = scope[j]
  BY DEF DeleteRow, TransferRow, MoveInv, TypeOK
<1>3. TypeOK'
  <2>1. /\ order' \in [Item -> Nat] /\ scope' \in [Item -> Scope \cup {Unborn, Gone}]
        /\ mixed' \subseteq Scope
    <3>1. CASE DeleteRow(i)
      BY <3>1 DEF DeleteRow, MoveInv, TypeOK
    <3>2. CASE TransferRow(i)
      BY <3>2 DEF TransferRow, MoveInv, TypeOK
    <3> QED
      BY <3>1, <3>2
  <2> QED
    BY <1>1, <2>1 DEF MoveInv, TypeOK, locals
<1>4. ASSUME NEW q \in Req PROVE Claim(q)'
  <2>1. Undisturbed(q)
    BY <1>1, <1>2, ConstantsAssumption DEF Undisturbed, Free, locals
  <2> QED
    BY <2>1, UndisturbedKeepsClaim DEF MoveInv
<1> QED
  BY <1>3, <1>4 DEF MoveInv

\* A request moves no other request on, nor touches its local variables.
LEMMA OnlyOwnLocals ==
  ASSUME MoveInv, NEW q \in Req, StartMove(q) \/ ReadMax(q) \/ Statement(q) \/ Abort(q),
         NEW r \in Req, r # q
  PROVE  /\ pc'[r] = pc[r] /\ dir'[r] = dir[r] /\ home'[r] = home[r] /\ cur'[r] = cur[r]
         /\ left'[r] = left[r] /\ snap'[r] = snap[r] /\ nbr'[r] = nbr[r]
<1> USE DEF MoveInv, TypeOK, GoTo
<1>1. CASE StartMove(q)
  BY <1>1 DEF StartMove
<1>2. CASE ReadMax(q)
  BY <1>2 DEF ReadMax
<1>3. CASE LockItem(q)
  BY <1>3 DEF LockItem, Finish
<1>4. CASE ScanNeighbours(q)
  BY <1>4 DEF ScanNeighbours
<1>5. CASE LockNeighbour(q)
  BY <1>5 DEF LockNeighbour
<1>6. CASE NoNeighbour(q) \/ Swap(q) \/ InsertRow(q) \/ Abort(q)
  BY <1>6 DEF NoNeighbour, Swap, InsertRow, Abort, Finish
<1> QED
  BY <1>1, <1>2, <1>3, <1>4, <1>5, <1>6 DEF Statement

\* A move that commits without a change has gone through its snapshot.
LEMMA StaysOnlyAtTheEnd ==
  ASSUME MoveInv, [Next]_vars, NEW r \in Req, pc[r] = "neighbour", pc'[r] = "done"
  PROVE  left[r] = {}
<1>1. ASSUME NEW q \in Req, StartMove(q) \/ ReadMax(q) \/ Statement(q) \/ Abort(q), q # r
      PROVE  pc'[r] = pc[r]
  BY <1>1, OnlyOwnLocals
<1>2. CASE StartMove(r) \/ ReadMax(r) \/ Statement(r) \/ Abort(r)
  BY <1>2 DEF StartMove, ReadMax, Statement, Abort, LockItem, ScanNeighbours, LockNeighbour, Swap,
              NoNeighbour, InsertRow, Finish, GoTo, Finished, MoveInv, TypeOK
<1>3. ASSUME NEW i \in Item, DeleteRow(i) \/ TransferRow(i) PROVE pc' = pc
  BY <1>3 DEF DeleteRow, TransferRow
<1> QED
  BY <1>1, <1>2, <1>3 DEF Next, vars

-----------------------------------------------------------------------------
LEMMA MoveInvInductive == MoveInv /\ [Next]_vars => MoveInv'
<1> SUFFICES ASSUME MoveInv, [Next]_vars PROVE MoveInv'
  OBVIOUS
<1>1. ASSUME NEW r \in Req, StartMove(r) \/ ReadMax(r) \/ Statement(r) \/ Abort(r)
      PROVE  MoveInv'
  BY <1>1, StartMoveStep, ReadMaxStep, LockItemStep, ScanStep, LockNeighbourStep,
     NoNeighbourStep, SwapStep, InsertRowStep, AbortStep DEF Statement
<1>2. ASSUME NEW i \in Item, DeleteRow(i) \/ TransferRow(i) PROVE MoveInv'
  BY <1>2, UnheldRowStep
<1>3. CASE UNCHANGED vars
  BY <1>3 DEF vars, MoveInv, TypeOK, Claim, Beyond
<1> QED
  BY <1>1, <1>2, <1>3 DEF Next

LEMMA InitClaims == Init => MoveInv
BY DEF Init, MoveInv, TypeOK, Claim, Finished, NoOrders

LEMMA MoveInvHolds == Spec => []MoveInv
BY InitClaims, MoveInvInductive, PTL DEF Spec

\* The variables keep to their types; in particular a request only locks rows
\* that exist.
THEOREM TypeCorrect == Spec => []TypeOK
<1>1. MoveInv => TypeOK
  BY DEF MoveInv
<1> QED
  BY <1>1, MoveInvHolds, PTL

\* A move that commits a change exchanges the current orders of two rows of one
\* scope, in the direction asked for, also while rows are created, deleted,
\* moved by others and given to other teams.
THEOREM MovesAlwaysExchange == Spec => MovesExchange
<1> DEFINE Exchange(r) ==
      /\ order' = [order EXCEPT ![item[r]] = order[nbr[r]], ![nbr[r]] = order[item[r]]]
      /\ Live(item[r]) /\ scope[nbr[r]] = scope[item[r]]
      /\ Beyond(dir[r], order'[item[r]], order[item[r]])
<1>1. ASSUME MoveInv, [Next]_vars, NEW r \in Req, pc[r] = "swap", pc'[r] = "done"
      PROVE  Exchange(r)
  <2>1. Swap(r)
    <3>1. ASSUME NEW q \in Req, StartMove(q) \/ ReadMax(q) \/ Statement(q) \/ Abort(q), q # r
          PROVE  pc'[r] = pc[r]
      BY <1>1, <3>1, OnlyOwnLocals
    <3>2. CASE StartMove(r) \/ ReadMax(r) \/ Statement(r) \/ Abort(r)
      BY <1>1, <3>2 DEF StartMove, ReadMax, Statement, Abort, LockItem, ScanNeighbours,
                        LockNeighbour, NoNeighbour, InsertRow, Finish, GoTo, Finished,
                        MoveInv, TypeOK
    <3>3. ASSUME NEW i \in Item, DeleteRow(i) \/ TransferRow(i) PROVE pc' = pc
      BY <3>3 DEF DeleteRow, TransferRow
    <3> QED
      BY <1>1, <3>1, <3>2, <3>3 DEF Next, vars
  <2>2. Claim(r)
    BY <1>1 DEF MoveInv
  <2>3. Live(item[r]) /\ scope[nbr[r]] = scope[item[r]]
    BY <1>1, <2>2 DEF Claim, Live
  <2>4. order' = [order EXCEPT ![item[r]] = order[nbr[r]], ![nbr[r]] = order[item[r]]]
    BY <1>1, <2>1, <2>2 DEF Swap, Claim
  <2>5. nbr[r] # item[r]
    BY <1>1, <2>2 DEF Claim, Beyond, MoveInv, TypeOK
  <2>6. order'[item[r]] = nbrOrder[r]
    BY <1>1, <2>2, <2>4, <2>5 DEF Claim, MoveInv, TypeOK
  <2>7. Beyond(dir[r], order'[item[r]], order[item[r]])
    BY <1>1, <2>2, <2>6 DEF Claim
  <2> QED
    BY <2>3, <2>4, <2>7
<1>2. MoveInv /\ [Next]_vars
        => [\A r \in Req : pc[r] = "swap" /\ pc'[r] = "done" => Exchange(r)]_vars
  BY <1>1
<1> QED
  BY <1>2, MoveInvHolds, PTL DEF Spec, MovesExchange

-----------------------------------------------------------------------------
\* How far does a move go, while others change the list?

\* Of the rows that nobody else has changed, those left of the snapshot are those
\* ahead, in their present order; once a neighbour is found, none is nearer.
Place(r) ==
  /\ pc[r] = "neighbour" =>
       \A k \in Item \ changed[r] : /\ k \in left[r] <=> StillQualifies(r, k)
                                    /\ k \in left[r] => snap[r][k] = order[k]
  /\ pc[r] = "swap" /\ nbr[r] \notin changed[r] =>
       \A k \in Item \ changed[r] :
          StillQualifies(r, k) => ~Beyond(dir[r], order[nbr[r]], order[k])

PlaceInv == changed \in [Req -> SUBSET Item] /\ \A r \in Req : Place(r)

\* A step that is not the move's own may change rows, all of which are noted.
LEMMA OthersKeepPlace ==
  ASSUME MoveInv, changed \in [Req -> SUBSET Item], NoteChanged, NEW r \in Req, Place(r),
         pc'[r] = pc[r], dir'[r] = dir[r], home'[r] = home[r], cur'[r] = cur[r],
         left'[r] = left[r], snap'[r] = snap[r], nbr'[r] = nbr[r]
  PROVE  Place(r)'
<1> SUFFICES ASSUME pc[r] \in {"neighbour", "swap"} PROVE Place(r)'
  BY DEF Place
<1>1. changed'[r] = changed[r] \cup Changed
  BY DEF NoteChanged
<1>2. ASSUME NEW k \in Item \ changed'[r]
      PROVE  k \in Item \ changed[r] /\ order'[k] = order[k] /\ scope'[k] = scope[k]
  BY <1>1 DEF Changed
<1>3. ASSUME NEW k \in Item \ changed'[r] PROVE StillQualifies(r, k)' <=> StillQualifies(r, k)
  BY <1>2 DEF StillQualifies, Beyond
<1>4. CASE pc[r] = "neighbour"
  BY <1>2, <1>3, <1>4 DEF Place
<1>5. CASE pc[r] = "swap"
  <2> SUFFICES ASSUME nbr[r] \notin changed'[r], NEW k \in Item \ changed'[r], StillQualifies(r, k)'
               PROVE  ~Beyond(dir'[r], order'[nbr'[r]], order'[k])
    BY <1>5 DEF Place
  <2>1. nbr[r] \in Item
    BY <1>5 DEF MoveInv, Claim
  <2>2. order'[nbr[r]] = order[nbr[r]] /\ nbr[r] \notin changed[r] /\ order'[k] = order[k]
    BY <1>2, <2>1
  <2>3. ~Beyond(dir[r], order[nbr[r]], order[k])
    BY <1>2, <1>3, <1>5, <2>2 DEF Place
  <2> QED
    BY <2>2, <2>3 DEF Beyond
<1> QED
  BY <1>4, <1>5

LEMMA ScanFindsPlace ==
  ASSUME MoveInv, changed \in [Req -> SUBSET Item], NEW r \in Req, ScanNeighbours(r), NoteChanged
  PROVE  Place(r)'
<1> DEFINE found == {i \in Rows(home[r]) : Beyond(dir[r], order[i], cur[r])}
<1>1. /\ pc'[r] = "neighbour" /\ left'[r] = found
      /\ snap'[r] = [i \in Item |-> IF i \in found THEN order[i] ELSE 0]
      /\ UNCHANGED <<order, scope, dir, home, cur>>
  BY DEF ScanNeighbours, GoTo, MoveInv, TypeOK, rows
<1>2. ASSUME NEW k \in Item PROVE k \in found <=> StillQualifies(r, k)'
  BY <1>1 DEF Rows, StillQualifies, Beyond
<1> QED
  BY <1>1, <1>2 DEF Place

\* A row that was tried in vain is one that somebody changed.
LEMMA LockNeighbourKeepsPlace ==
  ASSUME MoveInv, changed \in [Req -> SUBSET Item], NEW r \in Req, Place(r), LockNeighbour(r),
         NoteChanged
  PROVE  Place(r)'
<1>0. PICK i \in Item :
         /\ NextInLine(r, i)
         /\ IF StillQualifies(r, i)
            THEN nbr' = [nbr EXCEPT ![r] = i] /\ GoTo(r, "swap")
            ELSE /\ left' = [left EXCEPT ![r] = @ \ {i}]
                 /\ snap' = [snap EXCEPT ![r][i] = 0]
                 /\ UNCHANGED pc
  BY DEF LockNeighbour
<1>1. pc[r] = "neighbour" /\ UNCHANGED <<order, scope, dir, home, cur>>
  BY DEF LockNeighbour
<1>2. pc'[r] \in {"neighbour", "swap"}
  BY <1>0, <1>1 DEF GoTo, MoveInv, TypeOK
<1>3. changed'[r] = changed[r]
  BY <1>1, <1>2 DEF NoteChanged, Changed
<1>4. \A k \in Item \ changed[r] : /\ k \in left[r] <=> StillQualifies(r, k)
                                   /\ k \in left[r] => snap[r][k] = order[k]
  BY <1>1 DEF Place
<1>5. \A k \in Item : StillQualifies(r, k)' <=> StillQualifies(r, k)
  BY <1>1 DEF StillQualifies, Beyond
<1>6. CASE StillQualifies(r, i)
  <2>1. pc'[r] = "swap" /\ nbr'[r] = i
    BY <1>0, <1>6 DEF GoTo, MoveInv, TypeOK
  <2>2. ASSUME i \notin changed[r], NEW k \in Item \ changed[r], StillQualifies(r, k)
        PROVE  ~Beyond(dir[r], order[i], order[k])
    <3>1. ~Beyond(dir[r], snap[r][i], snap[r][k])
      BY <1>0, <1>4, <2>2 DEF NextInLine
    <3>2. snap[r][i] = order[i] /\ snap[r][k] = order[k]
      BY <1>4, <1>6, <2>2
    <3> QED
      BY <3>1, <3>2
  <2>3. ASSUME i \notin changed[r], NEW k \in Item \ changed[r], StillQualifies(r, k)
        PROVE  ~Beyond(dir'[r], order'[i], order'[k])
    BY <1>1, <2>2, <2>3 DEF Beyond
  <2> QED
    BY <1>3, <1>5, <2>1, <2>3 DEF Place
<1>7. CASE ~StillQualifies(r, i)
  <2>1. pc'[r] = "neighbour" /\ i \in left[r] /\ i \in changed[r]
    BY <1>0, <1>1, <1>4, <1>7 DEF NextInLine
  <2>2. \A k \in Item \ {i} : (k \in left'[r] <=> k \in left[r]) /\ snap'[r][k] = snap[r][k]
    BY <1>0, <1>7 DEF MoveInv, TypeOK
  <2> QED
    BY <1>1, <1>3, <1>4, <1>5, <2>1, <2>2 DEF Place
<1> QED
  BY <1>6, <1>7

LEMMA PlaceInvInductive ==
  ASSUME MoveInv, PlaceInv, [NextTogether]_<<vars, changed>>
  PROVE  PlaceInv'
<1>1. CASE UNCHANGED <<vars, changed>>
  BY <1>1 DEF PlaceInv, Place, StillQualifies, Beyond, vars
<1>2. CASE NextTogether
  <2> USE <1>2 DEF NextTogether
  <2>1. changed' \in [Req -> SUBSET Item]
    BY DEF NoteChanged, Changed, PlaceInv
  <2>2. ASSUME NEW r \in Req PROVE Place(r)'
    <3>1. Place(r) /\ changed \in [Req -> SUBSET Item]
      BY DEF PlaceInv
    <3>2. ASSUME NEW q \in Req, StartMove(q) \/ ReadMax(q) \/ Statement(q) \/ Abort(q), q # r
          PROVE  Place(r)'
      BY <3>1, <3>2, OnlyOwnLocals, OthersKeepPlace
    <3>3. CASE StartMove(r) \/ ReadMax(r) \/ LockItem(r) \/ NoNeighbour(r) \/ Swap(r)
                 \/ InsertRow(r) \/ Abort(r)
      <4>1. pc'[r] \notin {"neighbour", "swap"}
        BY <3>3 DEF StartMove, ReadMax, LockItem, NoNeighbour, Swap, InsertRow, Abort, Finish, GoTo,
                    MoveInv, TypeOK
      <4> QED
        BY <4>1 DEF Place
    <3>4. CASE ScanNeighbours(r)
      BY <3>1, <3>4, ScanFindsPlace
    <3>5. CASE LockNeighbour(r)
      BY <3>1, <3>5, LockNeighbourKeepsPlace
    <3>6. ASSUME NEW i \in Item, DeleteRow(i) \/ TransferRow(i) PROVE Place(r)'
      <4>1. UNCHANGED <<pc, locals>>
        BY <3>6 DEF DeleteRow, TransferRow
      <4> QED
        BY <3>1, <4>1, OthersKeepPlace DEF locals
    <3> QED
      BY <3>2, <3>3, <3>4, <3>5, <3>6 DEF Next, Statement
  <2> QED
    BY <2>1, <2>2 DEF PlaceInv
<1> QED
  BY <1>1, <1>2

LEMMA StepIsOfSortOrder == [NextTogether]_<<vars, changed>> => [Next]_vars
BY DEF NextTogether

\* A move ends one place further, or at the end of its list, as far as the rows go
\* that nobody has touched since its query: for any number of rows and of clients
\* that move, create, delete and transfer them meanwhile.
THEOREM MovesAlwaysByOnePlace == SpecTogether => MovesByOnePlace
<1> DEFINE OnePlace(r) ==
      pc'[r] = "done" =>
        \A k \in Rows(home[r]) \ changed[r] :
           /\ pc[r] = "neighbour" => ~Beyond(dir[r], order[k], order[item[r]])
           /\ pc[r] = "swap" /\ nbr[r] \notin changed[r] => ~PassedOver(r, k)
<1>1. InitTogether => MoveInv /\ PlaceInv
  BY InitClaims DEF InitTogether, Init, PlaceInv, Place
<1>2. MoveInv /\ PlaceInv /\ [NextTogether]_<<vars, changed>> => MoveInv' /\ PlaceInv'
  BY StepIsOfSortOrder, MoveInvInductive, PlaceInvInductive
<1>3. ASSUME MoveInv, PlaceInv, [NextTogether]_<<vars, changed>>, NEW r \in Req, pc'[r] = "done",
             NEW k \in Rows(home[r]) \ changed[r]
      PROVE  /\ pc[r] = "neighbour" => ~Beyond(dir[r], order[k], order[item[r]])
             /\ pc[r] = "swap" /\ nbr[r] \notin changed[r] => ~PassedOver(r, k)
  <2>1. Place(r) /\ Claim(r) /\ k \in Item \ changed[r] /\ scope[k] = home[r]
    BY <1>3 DEF PlaceInv, MoveInv, Rows
  <2>2. CASE pc[r] = "neighbour"
    <3>1. left[r] = {}
      BY <1>3, <2>2, StepIsOfSortOrder, StaysOnlyAtTheEnd
    <3> QED
      BY <2>1, <2>2, <3>1 DEF Place, Claim, StillQualifies
  <2>3. CASE pc[r] = "swap"
    BY <2>1, <2>3 DEF Place, Claim, StillQualifies, PassedOver
  <2> QED
    BY <2>2, <2>3
<1>4. MoveInv /\ PlaceInv /\ [NextTogether]_<<vars, changed>>
        => [\A r \in Req : OnePlace(r)]_<<vars, changed>>
  BY <1>3
<1> QED
  BY <1>1, <1>2, <1>4, PTL DEF SpecTogether, MovesByOnePlace

-----------------------------------------------------------------------------
\* When do rows of a scope never tie?

\* Create requests are handled one at a time.
OneCreator == \A r, q \in Creators : r = q

\* The order a create request is about to insert is still beyond all others.
InsertsLast ==
  \A r \in Req : pc[r] = "insert" =>
    /\ r \in Creators /\ home[r] \in Scope
    /\ home[r] \notin mixed => \A i \in Rows(home[r]) : order[i] < cur[r]

OrderInv == DistinctOrders /\ InsertsLast

\* A step that changes no row's order or scope and starts no create.
LEMMA QuietStep ==
  ASSUME OrderInv, UNCHANGED <<order, scope, mixed>>,
         \A q \in Req : pc'[q] = "insert" => /\ pc[q] = "insert"
                                             /\ cur'[q] = cur[q] /\ home'[q] = home[q]
  PROVE  OrderInv'
BY DEF OrderInv, DistinctOrders, InsertsLast, Rows

\* A step of a move leaves every create in flight as it is.
LEMMA CreatesUndisturbed ==
  ASSUME MoveInv, NEW r \in Req, StartMove(r) \/ (Statement(r) /\ ~InsertRow(r)) \/ Abort(r),
         NEW q \in Req, pc'[q] = "insert"
  PROVE  pc[q] = "insert" /\ cur'[q] = cur[q] /\ home'[q] = home[q]
<1> USE DEF MoveInv, TypeOK, GoTo, Finished
<1>1. CASE StartMove(r)
  BY <1>1 DEF StartMove
<1>2. CASE LockItem(r)
  BY <1>2 DEF LockItem, Finish
<1>3. CASE ScanNeighbours(r)
  BY <1>3 DEF ScanNeighbours
<1>4. CASE LockNeighbour(r)
  BY <1>4 DEF LockNeighbour
<1>5. CASE NoNeighbour(r) \/ Swap(r) \/ Abort(r)
  BY <1>5 DEF NoNeighbour, Swap, Abort, Finish
<1> QED
  BY <1>1, <1>2, <1>3, <1>4, <1>5 DEF Statement

LEMMA SwapKeepsOrderInv ==
  ASSUME MoveInv, OrderInv, NEW r \in Req, Swap(r)
  PROVE  OrderInv'
<1> DEFINE a == item[r]
           b == nbr[r]
<1>1. /\ a \in Item /\ b \in Item /\ a # b
      /\ scope[a] = home[r] /\ scope[b] = home[r]
      /\ order[a] = cur[r] /\ order[b] = nbrOrder[r]
  BY DEF MoveInv, TypeOK, Claim, Swap, Beyond
<1>2. /\ scope' = scope /\ mixed' = mixed /\ order' \in [Item -> Nat]
      /\ order'[a] = order[b] /\ order'[b] = order[a]
      /\ \A i \in Item \ {a, b} : order'[i] = order[i]
  BY <1>1 DEF Swap, MoveInv, TypeOK
<1>3. DistinctOrders'
  BY <1>1, <1>2 DEF OrderInv, DistinctOrders
<1>4. InsertsLast'
  <2> SUFFICES ASSUME NEW q \in Req, pc'[q] = "insert"
               PROVE  /\ q \in Creators /\ home'[q] \in Scope
                      /\ home'[q] \notin mixed' =>
                           \A i \in Item : scope'[i] = home'[q] => order'[i] < cur'[q]
    BY DEF InsertsLast, Rows
  <2>1. pc[q] = "insert" /\ cur'[q] = cur[q] /\ home'[q] = home[q]
    BY CreatesUndisturbed DEF Statement, Swap, InsertRow
  <2>2. /\ q \in Creators /\ home[q] \in Scope
        /\ home[q] \notin mixed => \A j \in Item : scope[j] = home[q] => order[j] < cur[q]
    BY <2>1 DEF OrderInv, InsertsLast, Rows
  <2> QED
    BY <1>1, <1>2, <2>1, <2>2
<1> QED
  BY <1>3, <1>4 DEF OrderInv

LEMMA ReadMaxKeepsOrderInv ==
  ASSUME MoveInv, OrderInv, NEW r \in Req, ReadMax(r)
  PROVE  OrderInv'
<1> USE DEF MoveInv, TypeOK, ReadMax, GoTo, rows
<1>1. DistinctOrders'
  BY DEF OrderInv, DistinctOrders
<1>2. PICK s \in Scope :
         /\ home' = [home EXCEPT ![r] = s]
         /\ \E m \in {0} \cup {order[i] : i \in Rows(s)} :
              /\ \A i \in Rows(s) : order[i] <= m
              /\ cur' = [cur EXCEPT ![r] = m + 1]
  OBVIOUS
<1>3. PICK m \in {0} \cup {order[i] : i \in Rows(s)} :
         /\ \A i \in Rows(s) : order[i] <= m
         /\ cur' = [cur EXCEPT ![r] = m + 1]
  BY <1>2
<1>4. ASSUME NEW i \in Rows(s) PROVE order'[i] < m + 1
  BY <1>3, <1>4 DEF Rows
<1>5. InsertsLast'
  <2> SUFFICES ASSUME NEW q \in Req, pc'[q] = "insert"
               PROVE  /\ q \in Creators /\ home'[q] \in Scope
                      /\ home'[q] \notin mixed' =>
                           \A i \in Item : scope'[i] = home'[q] => order'[i] < cur'[q]
    BY DEF InsertsLast, Rows
  <2>1. CASE q = r
    BY <1>2, <1>3, <1>4, <2>1 DEF Rows
  <2>2. CASE q # r
    BY <1>2, <1>3, <2>2 DEF OrderInv, InsertsLast, Rows
  <2> QED
    BY <2>1, <2>2
<1> QED
  BY <1>1, <1>5 DEF OrderInv

LEMMA InsertRowKeepsOrderInv ==
  ASSUME OneCreator, MoveInv, OrderInv, NEW r \in Req, InsertRow(r)
  PROVE  OrderInv'
<1>1. PICK i \in Item :
         /\ scope[i] = Unborn
         /\ scope' = [scope EXCEPT ![i] = home[r]]
         /\ order' = [order EXCEPT ![i] = cur[r]]
  BY DEF InsertRow, Rows
<1>2. /\ home[r] \in Scope /\ mixed' = mixed
      /\ home[r] \notin mixed => \A j \in Item : scope[j] = home[r] => order[j] < cur[r]
  BY DEF OrderInv, InsertsLast, InsertRow, Rows
<1>3. DistinctOrders'
  BY <1>1, <1>2 DEF OrderInv, DistinctOrders, MoveInv, TypeOK
\* There is no other creator to be overtaken.
<1>4. ASSUME NEW q \in Req PROVE pc'[q] # "insert"
  <2>1. CASE q = r
    BY <2>1 DEF InsertRow, Finish, GoTo, MoveInv, TypeOK
  <2>2. CASE q # r
    BY <2>2 DEF InsertRow, Finish, GoTo, MoveInv, TypeOK, OrderInv, InsertsLast, OneCreator
  <2> QED
    BY <2>1, <2>2
<1> QED
  BY <1>3, <1>4 DEF OrderInv, InsertsLast

LEMMA DeleteRowKeepsOrderInv ==
  ASSUME MoveInv, OrderInv, NEW i \in Item, DeleteRow(i)
  PROVE  OrderInv'
<1>1. UNCHANGED <<pc, home, cur, mixed>> /\ scope'[i] = Gone
      /\ \A j \in Item \ {i} : scope'[j] = scope[j] /\ order'[j] = order[j]
  BY DEF DeleteRow, locals, MoveInv, TypeOK
<1>2. DistinctOrders'
  BY <1>1, ConstantsAssumption DEF OrderInv, DistinctOrders
<1>3. InsertsLast'
  BY <1>1, ConstantsAssumption DEF OrderInv, InsertsLast, Rows, MoveInv, TypeOK
<1> QED
  BY <1>2, <1>3 DEF OrderInv

LEMMA TransferRowKeepsOrderInv ==
  ASSUME MoveInv, OrderInv, NEW i \in Item, TransferRow(i)
  PROVE  OrderInv'
<1>1. PICK s \in Scope : scope' = [scope EXCEPT ![i] = s] /\ mixed' = mixed \cup {s}
  BY DEF TransferRow
<1>2. UNCHANGED <<order, pc, home, cur>>
  BY DEF TransferRow, locals
<1>3. DistinctOrders'
  BY <1>1, <1>2 DEF OrderInv, DistinctOrders, MoveInv, TypeOK
<1>4. InsertsLast'
  BY <1>1, <1>2 DEF OrderInv, InsertsLast, Rows, MoveInv, TypeOK
<1> QED
  BY <1>3, <1>4 DEF OrderInv

LEMMA OrderInvInductive ==
  ASSUME OneCreator, MoveInv, OrderInv, [Next]_vars
  PROVE  OrderInv'
<1>1. ASSUME NEW r \in Req, StartMove(r) \/ Abort(r) \/ LockItem(r) \/ ScanNeighbours(r)
                              \/ LockNeighbour(r) \/ NoNeighbour(r)
      PROVE  OrderInv'
  <2>1. UNCHANGED <<order, scope, mixed>>
    BY <1>1 DEF StartMove, Abort, LockItem, ScanNeighbours, LockNeighbour, NoNeighbour, rows
  <2>2. ~InsertRow(r)
    BY <1>1 DEF StartMove, Abort, LockItem, ScanNeighbours, LockNeighbour, NoNeighbour,
                InsertRow, Finished, Finish, GoTo, MoveInv, TypeOK
  <2> QED
    BY <1>1, <2>1, <2>2, CreatesUndisturbed, QuietStep DEF Statement
<1>2. CASE UNCHANGED vars
  BY <1>2, QuietStep DEF vars
<1> QED
  BY <1>1, <1>2, SwapKeepsOrderInv, ReadMaxKeepsOrderInv, InsertRowKeepsOrderInv,
     DeleteRowKeepsOrderInv, TransferRowKeepsOrderInv DEF Next, Statement

\* Without racing creates, no two rows of a scope that was given no other scope's
\* row ever have the same order: moves and deletions of any number of clients, and
\* transfers elsewhere, never make one.
THEOREM OrdersStayDistinct == ASSUME OneCreator PROVE Spec => []DistinctOrders
<1>1. Init => OrderInv
  BY DEF Init, OrderInv, DistinctOrders, InsertsLast, Live
<1>2. MoveInv /\ OrderInv /\ [Next]_vars => OrderInv'
  BY OrderInvInductive
<1>3. OrderInv => DistinctOrders
  BY DEF OrderInv
<1> QED
  BY <1>1, <1>2, <1>3, MoveInvHolds, PTL DEF Spec

-----------------------------------------------------------------------------
\* SortOrder implements Lists.  A step of a move or a create is a step of a list
\* only when it commits a change; all others stutter.

\* Which pairs are in a list, now and after a step.
LEMMA BeforeIs ==
  ASSUME TypeOK, NEW i \in Item, NEW j \in Item
  PROVE  <<i, j>> \in before <=> Live(i) /\ scope[j] = scope[i] /\ order[i] < order[j]
BY DEF before

LEMMA BeforePrimeIs ==
  ASSUME TypeOK', NEW i \in Item, NEW j \in Item
  PROVE  <<i, j>> \in before' <=> scope'[i] \in Scope /\ scope'[j] = scope'[i] /\ order'[i] < order'[j]
BY DEF before, Live

LEMMA BeforeIsPairs == before \subseteq Item \X Item /\ before' \subseteq Item \X Item
BY DEF before

LEMMA InitImplements == Init => AsLists!Init
<1> SUFFICES ASSUME Init PROVE AsLists!Init
  OBVIOUS
<1>1. TypeOK
  BY DEF Init, TypeOK, Finished, NoOrders
<1>2. before \subseteq UNION {AsLists!Rows(s) \X AsLists!Rows(s) : s \in Scope}
  <2> SUFFICES ASSUME NEW p \in before
               PROVE  \E s \in Scope : p \in AsLists!Rows(s) \X AsLists!Rows(s)
    OBVIOUS
  <2>1. PICK i \in Item, j \in Item : p = <<i, j>>
    BY BeforeIsPairs
  <2>2. scope[i] \in Scope /\ scope[j] = scope[i]
    BY <1>1, <2>1, BeforeIs DEF Live
  <2> QED
    BY <2>1, <2>2 DEF AsLists!Rows
<1>3. ASSUME NEW s \in Scope PROVE AsLists!TotalOn(AsLists!Rows(s))
  <2>1. \A i \in AsLists!Rows(s) : i \in Item /\ scope[i] = s /\ Live(i) /\ order[i] \in Nat
    BY <1>1 DEF AsLists!Rows, Live, TypeOK
  <2>2. \A i, j \in AsLists!Rows(s) : <<i, j>> \in before <=> order[i] < order[j]
    BY <1>1, <2>1, BeforeIs
  <2>3. \A i, j \in AsLists!Rows(s) : i # j => order[i] # order[j]
    BY <2>1 DEF Init
  <2> QED
    BY <2>1, <2>2, <2>3 DEF AsLists!TotalOn
<1> QED
  BY <1>2, <1>3 DEF Init, AsLists!Init

LEMMA SwapImplements ==
  ASSUME MoveInv, MoveInv', NEW r \in Req, Swap(r)
  PROVE  \E p \in before \ before' : AsLists!Exchange(p[1], p[2])
<1> DEFINE a == item[r]
           b == nbr[r]
<1>1. /\ a \in Item /\ b \in Item /\ a # b
      /\ scope[a] \in Scope /\ scope[b] = scope[a]
      /\ order[a] = cur[r] /\ order[b] = nbrOrder[r] /\ order[a] # order[b]
  <2>1. Claim(r) /\ pc[r] = "swap"
    BY DEF MoveInv, Swap
  <2>2. /\ a \in Item /\ b \in Item /\ scope[a] = home[r] /\ scope[b] = home[r]
        /\ home[r] \in Scope /\ order[a] = cur[r] /\ order[b] = nbrOrder[r]
        /\ Beyond(dir[r], nbrOrder[r], cur[r])
    BY <2>1 DEF Claim
  <2>3. nbrOrder[r] \in Nat /\ cur[r] \in Nat
    BY DEF MoveInv, TypeOK
  <2> QED
    BY <2>2, <2>3 DEF Beyond
<1>2. /\ scope' = scope /\ mixed' = mixed /\ order' \in [Item -> Nat] /\ order \in [Item -> Nat]
      /\ order'[a] = order[b] /\ order'[b] = order[a]
      /\ \A i \in Item \ {a, b} : order'[i] = order[i]
  BY <1>1 DEF Swap, MoveInv, TypeOK
<1>3. TypeOK /\ TypeOK'
  BY DEF MoveInv
<1>4. ASSUME NEW i \in {a, b}, NEW j \in {a, b}, order[i] < order[j]
      PROVE  AsLists!Exchange(i, j) /\ <<i, j>> \in before \ before'
  <2> DEFINE Other(k) == IF k = i THEN j ELSE IF k = j THEN i ELSE k
  <2> HIDE DEF a, b
  <2>1. /\ i \in Item /\ j \in Item /\ i # j /\ {i, j} = {a, b}
        /\ scope[i] \in Scope /\ scope[j] = scope[i]
        /\ order'[i] = order[j] /\ order'[j] = order[i]
    BY <1>1, <1>2, <1>4
  <2>2. <<i, j>> \in before /\ <<j, i>> \in before'
    BY <1>2, <1>3, <1>4, <2>1, BeforeIs, BeforePrimeIs DEF Live
  <2>3. \A k \in Item : /\ Other(k) \in Item /\ order'[k] = order[Other(k)]
                        /\ scope'[k] = scope[Other(k)]
    BY <1>2, <2>1
  <2>4. ASSUME NEW x \in Item, NEW y \in Item
        PROVE  <<x, y>> \in before' <=> <<Other(x), Other(y)>> \in before
    <3>1. Other(x) \in Item /\ Other(y) \in Item
      BY <2>3
    <3> HIDE DEF Other
    <3>2. <<Other(x), Other(y)>> \in before
            <=> /\ scope[Other(x)] \in Scope /\ scope[Other(y)] = scope[Other(x)]
                /\ order[Other(x)] < order[Other(y)]
      BY <1>3, <3>1, BeforeIs DEF Live
    <3> QED
      BY <1>3, <2>3, <3>2, BeforePrimeIs
  <2>5. before' = {p \in Item \X Item : <<Other(p[1]), Other(p[2])>> \in before}
    <3> HIDE DEF Other
    <3> QED
      BY <2>4, BeforeIsPairs
  <2>6. <<i, j>> \notin before'
    BY <1>2, <1>3, <1>4, <2>1, BeforePrimeIs
  <2> QED
    BY <1>2, <2>2, <2>5, <2>6 DEF AsLists!Exchange
<1>5. order[a] < order[b] \/ order[b] < order[a]
  BY <1>1, <1>2
<1>6. PICK i \in {a, b}, j \in {a, b} :
         AsLists!Exchange(i, j) /\ <<i, j>> \in before \ before'
  BY <1>4, <1>5
<1> DEFINE p == <<i, j>>
<1>7. p \in before \ before' /\ AsLists!Exchange(p[1], p[2])
  BY <1>6
<1> QED
  BY <1>7

LEMMA InsertImplements ==
  ASSUME MoveInv, MoveInv', OrderInv, NEW r \in Req, InsertRow(r)
  PROVE  \E i \in Item, s \in Scope : AsLists!Append(i, s)
<1> DEFINE s == home[r]
<1>1. PICK i \in Item :
         /\ scope[i] = Unborn
         /\ scope' = [scope EXCEPT ![i] = s]
         /\ order' = [order EXCEPT ![i] = cur[r]]
  BY DEF InsertRow, Rows
<1>2. /\ s \in Scope /\ mixed' = mixed
      /\ s \notin mixed => \A j \in Item : scope[j] = s => order[j] < cur[r]
  BY DEF OrderInv, InsertsLast, InsertRow, Rows
<1>3. TypeOK /\ TypeOK' /\ cur[r] \in Nat /\ order \in [Item -> Nat] /\ scope[i] # s
  BY <1>1, <1>2, ConstantsAssumption DEF MoveInv, TypeOK
<1> HIDE DEF s
<1>4. \A x \in Item \ {i} : order'[x] = order[x] /\ scope'[x] = scope[x]
  BY <1>1, <1>3
<1>5. order'[i] = cur[r] /\ scope'[i] = s
  BY <1>1, <1>3 DEF TypeOK
<1>6. ASSUME NEW x \in Item, NEW y \in Item, x # i, y # i
      PROVE  <<x, y>> \in before' <=> <<x, y>> \in before
  BY <1>3, <1>4, <1>6, BeforeIs, BeforePrimeIs DEF Live
<1>7. ASSUME NEW x \in Item PROVE <<x, i>> \notin before /\ <<i, x>> \notin before
  BY <1>1, <1>3, <1>7, BeforeIs, ConstantsAssumption DEF Live
<1>8. ASSUME NEW x \in Item
      PROVE  /\ <<x, i>> \in before' => x \in AsLists!Rows(s)
             /\ <<i, x>> \in before' => x \in AsLists!Rows(s)
             /\ <<x, i>> \in before' <=> x # i /\ scope[x] = s /\ order[x] < cur[r]
             /\ <<i, x>> \in before' <=> x # i /\ scope[x] = s /\ cur[r] < order[x]
  BY <1>2, <1>3, <1>4, <1>5, <1>8, BeforePrimeIs DEF AsLists!Rows
<1>9. s \notin mixed => before' = before \cup (AsLists!Rows(s) \X {i})
  <2> SUFFICES ASSUME s \notin mixed, NEW x \in Item, NEW y \in Item
               PROVE  <<x, y>> \in before'
                        <=> <<x, y>> \in before \/ (x \in AsLists!Rows(s) /\ y = i)
    BY BeforeIsPairs DEF AsLists!Rows
  <2>1. x \in AsLists!Rows(s) <=> scope[x] = s
    BY DEF AsLists!Rows
  <2>2. \A z \in Item : scope[z] = s => order[z] < cur[r] /\ ~(cur[r] < order[z])
    BY <1>2, <1>3
  <2> QED
    BY <1>3, <1>6, <1>7, <1>8, <2>1, <2>2
<1>10. \E P \in SUBSET AsLists!Around(i, AsLists!Rows(s)) : before' = before \cup P
  <2> DEFINE P == {p \in AsLists!Around(i, AsLists!Rows(s)) : p \in before'}
  <2>1. before' = before \cup P
    <3> SUFFICES ASSUME NEW x \in Item, NEW y \in Item
                 PROVE  <<x, y>> \in before' <=> <<x, y>> \in before \/ <<x, y>> \in P
      BY BeforeIsPairs DEF AsLists!Around, AsLists!Rows
    <3> QED
      BY <1>6, <1>7, <1>8 DEF AsLists!Around
  <2> QED
    BY <2>1
<1> QED
  BY <1>1, <1>2, <1>9, <1>10 DEF AsLists!Append

LEMMA DeleteImplements ==
  ASSUME MoveInv, MoveInv', NEW i \in Item, DeleteRow(i)
  PROVE  AsLists!Remove(i)
<1>1. /\ TypeOK /\ TypeOK' /\ scope[i] \in Scope /\ mixed' = mixed
      /\ scope' = [scope EXCEPT ![i] = Gone] /\ scope'[i] = Gone
      /\ \A j \in Item \ {i} : scope'[j] = scope[j] /\ order'[j] = order[j]
  BY DEF DeleteRow, Live, MoveInv, TypeOK
<1>2. before' = before \ AsLists!Of(i)
  <2> SUFFICES ASSUME NEW x \in Item, NEW y \in Item
               PROVE  <<x, y>> \in before' <=> <<x, y>> \in before /\ x # i /\ y # i
    BY BeforeIsPairs DEF AsLists!Of
  <2>1. CASE x # i /\ y # i
    BY <1>1, <2>1, BeforeIs, BeforePrimeIs DEF Live
  <2>2. CASE x = i \/ y = i
    BY <1>1, <2>2, BeforePrimeIs, ConstantsAssumption
  <2> QED
    BY <2>1, <2>2
<1> QED
  BY <1>1, <1>2 DEF AsLists!Remove

LEMMA TransferImplements ==
  ASSUME MoveInv, MoveInv', NEW i \in Item, TransferRow(i)
  PROVE  \E s \in Scope : AsLists!Transfer(i, s)
<1>1. PICK s \in Scope \ {scope[i]} : scope' = [scope EXCEPT ![i] = s] /\ mixed' = mixed \cup {s}
  BY DEF TransferRow
<1>2. /\ TypeOK /\ TypeOK' /\ scope[i] \in Scope /\ order' = order /\ scope'[i] = s
      /\ \A j \in Item \ {i} : scope'[j] = scope[j]
  BY <1>1 DEF TransferRow, Live, MoveInv, TypeOK
<1> DEFINE P == {p \in AsLists!Around(i, AsLists!Rows(s)) : p \in before'}
<1>3. before' = (before \ AsLists!Of(i)) \cup P
  <2> SUFFICES ASSUME NEW x \in Item, NEW y \in Item
               PROVE  <<x, y>> \in before'
                        <=> (<<x, y>> \in before /\ x # i /\ y # i) \/ <<x, y>> \in P
    BY BeforeIsPairs DEF AsLists!Of, AsLists!Around, AsLists!Rows
  <2>1. CASE x # i /\ y # i
    <3>1. <<x, y>> \in before' <=> <<x, y>> \in before
      BY <1>2, <2>1, BeforeIs, BeforePrimeIs DEF Live
    <3>2. <<x, y>> \in P => <<x, y>> \in before'
      OBVIOUS
    <3> QED
      BY <2>1, <3>1, <3>2
  <2>2. CASE x = i \/ y = i
    <3>1. <<x, y>> \in before' => <<x, y>> \in AsLists!Around(i, AsLists!Rows(s))
      <4>1. order'[i] \in Nat
        BY <1>2 DEF TypeOK
      <4> QED
        BY <1>2, <2>2, <4>1, BeforePrimeIs DEF AsLists!Around, AsLists!Rows
    <3> QED
      BY <2>2, <3>1
  <2> QED
    BY <2>1, <2>2
<1> QED
  BY <1>1, <1>2, <1>3 DEF AsLists!Transfer

LEMMA StepImplements ==
  ASSUME MoveInv, MoveInv', OrderInv, [Next]_vars
  PROVE  [AsLists!Next]_(AsLists!vars)
<1>1. ASSUME NEW r \in Req, StartMove(r) \/ ReadMax(r) \/ Abort(r) \/ LockItem(r)
                              \/ ScanNeighbours(r) \/ LockNeighbour(r) \/ NoNeighbour(r)
      PROVE  UNCHANGED <<order, scope, mixed>>
  BY <1>1 DEF StartMove, ReadMax, Abort, LockItem, ScanNeighbours, LockNeighbour, NoNeighbour, rows
<1>2. UNCHANGED <<order, scope, mixed>> => UNCHANGED AsLists!vars
  BY DEF AsLists!vars, before, Live
<1>3. ASSUME NEW r \in Req, Swap(r) PROVE AsLists!Next
  BY <1>3, SwapImplements DEF AsLists!Next
<1>4. ASSUME NEW r \in Req, InsertRow(r) PROVE AsLists!Next
  BY <1>4, InsertImplements DEF AsLists!Next
<1>5. ASSUME NEW i \in Item, DeleteRow(i) PROVE AsLists!Next
  BY <1>5, DeleteImplements DEF AsLists!Next
<1>6. ASSUME NEW i \in Item, TransferRow(i) PROVE AsLists!Next
  BY <1>6, TransferImplements DEF AsLists!Next
<1>7. CASE UNCHANGED vars
  BY <1>2, <1>7 DEF vars
<1> QED
  BY <1>1, <1>2, <1>3, <1>4, <1>5, <1>6, <1>7 DEF Next, Statement

\* Moves, creates, deletions and transfers, statement by statement and with any
\* number of clients moving rows, are operations on the lists of Lists, if one
\* client at a time creates rows.
THEOREM ListsImplemented == ASSUME OneCreator PROVE Spec => ImplementsLists
<1>1. Init => OrderInv
  BY DEF Init, OrderInv, DistinctOrders, InsertsLast, Live
<1>2. MoveInv /\ OrderInv /\ [Next]_vars => OrderInv'
  BY OrderInvInductive
<1>3. MoveInv /\ MoveInv' /\ OrderInv /\ [Next]_vars => [AsLists!Next]_(AsLists!vars)
  BY StepImplements
<1> QED
  BY <1>1, <1>2, <1>3, InitImplements, MoveInvHolds, PTL DEF Spec, ImplementsLists, AsLists!Spec

=============================================================================
