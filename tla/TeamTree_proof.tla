--------------------------- MODULE TeamTree_proof ---------------------------
(***************************************************************************)
(* The tree of teams stays a tree as long as edits are handled one at a    *)
(* time, whatever creations and deletions run beside them, for any set of  *)
(* teams; and TeamTree then implements Forest.                             *)
(***************************************************************************)
EXTENDS TeamTree, Integers, TLAPS, WellFoundedInduction, FiniteSetTheorems

\* Edits are handled one at a time.
OneEditor == \A r, q \in Editors : r = q

\* Every variable of TeamTree keeps its type, whoever runs concurrently.
THEOREM TypeCorrect == Spec => []TypeOK
<1>1. Init => TypeOK
  BY ConstantsAssumption DEF Init, TypeOK
<1>2. TypeOK /\ [Next]_vars => TypeOK'
  <2> SUFFICES ASSUME TypeOK, [Next]_vars PROVE TypeOK'
    OBVIOUS
  <2> USE DEF TypeOK
  <2>1. ASSUME NEW r \in Req, NEW p \in Team \cup {Root}, SubmitNewTeam(r, p) PROVE TypeOK'
    BY <2>1 DEF SubmitNewTeam
  <2>2. ASSUME NEW r \in Req, NEW t \in Team, NEW p \in Team \cup {Root}, SubmitEdit(r, t, p)
        PROVE  TypeOK'
    BY <2>2 DEF SubmitEdit
  <2>3. ASSUME NEW r \in Req, InsertTeam(r) PROVE TypeOK'
    BY <2>3 DEF InsertTeam, End
  <2>4. ASSUME NEW r \in Req, UpdateTeam(r) PROVE TypeOK'
    BY <2>4 DEF UpdateTeam, End
  <2>5. ASSUME NEW r \in Req, Abandon(r) PROVE TypeOK'
    BY <2>5 DEF Abandon, End
  <2>6. ASSUME NEW t \in Team, DeleteTeam(t) PROVE TypeOK'
    BY <2>6 DEF DeleteTeam
  <2>7. CASE UNCHANGED vars
    BY <2>7 DEF vars
  <2> QED
    BY <2>1, <2>2, <2>3, <2>4, <2>5, <2>6, <2>7 DEF Next
<1> QED
  BY <1>1, <1>2, PTL DEF Spec

-----------------------------------------------------------------------------
\* Facts about trees.

\* What is no descendant of t lies outside some set closed under children.
LEMMA OutsideDescendants ==
  ASSUME NEW tree, NEW t, NEW p \in Team, p \notin Descendants(tree, t)
  PROVE  \E D \in SUBSET Team : ClosedUnderChildren(tree, t, D) /\ p \notin D
BY DEF Descendants

\* A team that is neither t nor a descendant of t may become its parent: the
\* tree stays acyclic.
LEMMA MoveKeepsAcyclic ==
  ASSUME TypeOK, Acyclic, NEW t \in Team, NEW p \in Team,
         p # t, p \notin Descendants(parent, t),
         parent' = [parent EXCEPT ![t] = p]
  PROVE  Acyclic'
<1> SUFFICES ASSUME NEW S \in SUBSET Team, \A u \in S : parent'[u] \in S, S # {}
             PROVE  FALSE
  BY DEF Acyclic
<1>1. PICK D \in SUBSET Team : ClosedUnderChildren(parent, t, D) /\ p \notin D
  BY OutsideDescendants
<1>2. t \in S
  BY DEF Acyclic, TypeOK
<1>3. p \in S \ (D \cup {t})
  BY <1>1, <1>2 DEF TypeOK
<1>4. ASSUME NEW u \in S \ (D \cup {t}) PROVE parent[u] \in S \ (D \cup {t})
  BY <1>1, <1>4 DEF ClosedUnderChildren, TypeOK
<1> QED
  BY <1>3, <1>4 DEF Acyclic

\* Taking parents away, or giving one to a team nobody has as its parent, makes
\* no cycle.
LEMMA PruningKeepsAcyclic ==
  ASSUME Acyclic, NEW tree, tree = parent', \A t \in Team : tree[t] \in Team => tree[t] = parent[t]
  PROVE  Acyclic'
BY DEF Acyclic

\* A new leaf x closes no cycle.
LEMMA NewLeafKeepsAcyclic ==
  ASSUME Acyclic, NEW x \in Team, \A u \in Team : parent[u] # x, parent'[x] # x,
         \A u \in Team \ {x} : parent'[u] = parent[u]
  PROVE  Acyclic'
<1> SUFFICES ASSUME NEW S \in SUBSET Team, \A u \in S : parent'[u] \in S, S # {}
             PROVE  FALSE
  BY DEF Acyclic
<1>1. S \ {x} # {}
  OBVIOUS
<1>2. \A u \in S \ {x} : parent[u] \in S \ {x}
  OBVIOUS
<1> QED
  BY <1>1, <1>2 DEF Acyclic

\* If every set closed in the old tree is closed in the new one, descendants
\* only get fewer.
LEMMA PruningKeepsOutside ==
  ASSUME NEW tree, NEW new, NEW t \in Team, NEW p \in Team, p \notin Descendants(tree, t),
         \A u \in Team : new[u] \in Team => new[u] = tree[u]
  PROVE  p \notin Descendants(new, t)
<1>1. PICK D \in SUBSET Team : ClosedUnderChildren(tree, t, D) /\ p \notin D
  BY OutsideDescendants
<1>2. ClosedUnderChildren(new, t, D)
  BY <1>1 DEF ClosedUnderChildren
<1> QED
  BY <1>1, <1>2 DEF Descendants

\* A new leaf x is the descendant of some teams, but makes none of the others
\* one, and has no descendants itself.
LEMMA NewLeafKeepsOutside ==
  ASSUME NEW tree, NEW new, NEW t \in Team, NEW p \in Team, NEW x \in Team,
         p \notin Descendants(tree, t), p # x, new[x] # x,
         \A u \in Team : tree[u] # x,
         \A u \in Team \ {x} : new[u] = tree[u]
  PROVE  p \notin Descendants(new, t)
<1>1. CASE t = x
  <2>1. ClosedUnderChildren(new, t, {})
    BY <1>1 DEF ClosedUnderChildren
  <2> QED
    BY <2>1 DEF Descendants
<1>2. CASE t # x
  <2>1. PICK D \in SUBSET Team : ClosedUnderChildren(tree, t, D) /\ p \notin D
    BY OutsideDescendants
  <2>2. ClosedUnderChildren(new, t, D \cup {x})
    BY <1>2, <2>1 DEF ClosedUnderChildren
  <2> QED
    BY <2>1, <2>2 DEF Descendants
<1> QED
  BY <1>1, <1>2

\* In a tree every team is listed: the live teams not listed would have all
\* their parents among themselves.
LEMMA TreesAreListed ==
  ASSUME TypeOK, ParentsLive, Acyclic
  PROVE  AllListed
<1> DEFINE Hidden == {t \in Team : Live(t) /\ t \notin Listed(parent)}
<1>1. ASSUME NEW t \in Hidden PROVE parent[t] \in Hidden
  <2>1. parent[t] \in Team /\ Live(parent[t])
    BY DEF TypeOK, ParentsLive, Live, Listed
  <2>2. ASSUME parent[t] \in Listed(parent) PROVE FALSE
    <3>1. CASE parent[parent[t]] = Root
      <4>1. t \in Descendants(parent, parent[t])
        BY DEF Descendants, ClosedUnderChildren
      <4> QED
        BY <2>1, <3>1, <4>1 DEF Listed
    <3>2. CASE parent[parent[t]] # Root
      <4>1. PICK top \in Team : parent[top] = Root /\ parent[t] \in Descendants(parent, top)
        BY <2>1, <2>2, <3>2 DEF Listed
      <4>2. t \in Descendants(parent, top)
        BY <4>1 DEF Descendants, ClosedUnderChildren
      <4> QED
        BY <4>1, <4>2 DEF Listed
    <3> QED
      BY <3>1, <3>2
  <2> QED
    BY <2>1, <2>2
<1>2. Hidden = {}
  BY <1>1 DEF Acyclic
<1> QED
  BY <1>2 DEF AllListed

-----------------------------------------------------------------------------
\* The inductive invariant.

\* An edit in flight is served by an editor; the parent it found existed, so
\* its id is used and no later creation can take it.
EditsInFlight ==
  \A r \in Req : pc[r] = "update" =>
    /\ r \in Editors
    /\ team[r] \in Team
    /\ wish[r] \in Team => parent[wish[r]] # Unborn

TreeInv == TypeOK /\ ParentsLive /\ Acyclic /\ EditsInFlight /\ ChecksStillHold

\* A parent is a team that exists.  This needs no assumption on who edits: the
\* foreign key and ON DELETE SET NULL see to it.
THEOREM ParentsAreLive == Spec => []ParentsLive
<1>1. Init => ParentsLive
  BY DEF Init
<1>2. TypeOK /\ ParentsLive /\ [Next]_vars => ParentsLive'
  <2> SUFFICES ASSUME TypeOK, ParentsLive, [Next]_vars PROVE ParentsLive'
    OBVIOUS
  <2> USE ConstantsAssumption DEF TypeOK, ParentsLive, Live
  <2>1. ASSUME NEW r \in Req, NEW p \in Team \cup {Root}, SubmitNewTeam(r, p) PROVE ParentsLive'
    BY <2>1 DEF SubmitNewTeam
  <2>2. ASSUME NEW r \in Req, NEW t \in Team, NEW p \in Team \cup {Root}, SubmitEdit(r, t, p)
        PROVE  ParentsLive'
    BY <2>2 DEF SubmitEdit
  <2>3. ASSUME NEW r \in Req, InsertTeam(r) PROVE ParentsLive'
    BY <2>3 DEF InsertTeam, KnownParent
  <2>4. ASSUME NEW r \in Req, UpdateTeam(r) PROVE ParentsLive'
    BY <2>4 DEF UpdateTeam, KnownParent
  <2>5. ASSUME NEW r \in Req, Abandon(r) PROVE ParentsLive'
    BY <2>5 DEF Abandon
  <2>6. ASSUME NEW t \in Team, DeleteTeam(t) PROVE ParentsLive'
    BY <2>6 DEF DeleteTeam
  <2>7. CASE UNCHANGED vars
    BY <2>7 DEF vars
  <2> QED
    BY <2>1, <2>2, <2>3, <2>4, <2>5, <2>6, <2>7 DEF Next
<1> QED
  BY <1>1, <1>2, TypeCorrect, PTL DEF Spec

LEMMA TreeInvInductive ==
  ASSUME OneEditor, TypeOK, TypeOK', ParentsLive, ParentsLive', TreeInv, [Next]_vars
  PROVE  TreeInv'
<1> USE DEF TreeInv
<1>1. ASSUME NEW r \in Req, NEW p \in Team \cup {Root}, SubmitNewTeam(r, p) PROVE TreeInv'
  BY <1>1 DEF SubmitNewTeam, TypeOK, Acyclic, EditsInFlight, ChecksStillHold
<1>2. ASSUME NEW r \in Req, NEW t \in Team, NEW p \in Team \cup {Root}, SubmitEdit(r, t, p)
      PROVE  TreeInv'
  <2> USE <1>2 DEF SubmitEdit, TypeOK
  <2>1. Acyclic'
    BY DEF Acyclic
  <2>2. EditsInFlight'
    BY ConstantsAssumption DEF EditsInFlight, KnownParent, Live
  <2>3. ChecksStillHold'
    BY DEF ChecksStillHold
  <2> QED
    BY <2>1, <2>2, <2>3
<1>3. ASSUME NEW r \in Req, InsertTeam(r) PROVE TreeInv'
  <2>1. CASE UNCHANGED parent
    BY <1>3, <2>1 DEF InsertTeam, End, TypeOK, Acyclic, EditsInFlight, ChecksStillHold
  <2>2. ASSUME NEW x \in Team, KnownParent(wish[r]), parent[x] = Unborn,
               parent' = [parent EXCEPT ![x] = wish[r]]
        PROVE  TreeInv'
    <3>1. \A u \in Team : parent[u] # x
      BY <2>2 DEF ParentsLive, Live
    <3>2. parent'[x] # x /\ \A u \in Team \ {x} : parent'[u] = parent[u]
      BY <2>2, ConstantsAssumption DEF TypeOK, KnownParent, Live
    <3>3. Acyclic'
      BY <3>1, <3>2, NewLeafKeepsAcyclic
    <3>4. EditsInFlight'
      BY <1>3, <2>2, ConstantsAssumption DEF InsertTeam, End, TypeOK, EditsInFlight, KnownParent, Live
    <3>5. ChecksStillHold'
      <4> SUFFICES ASSUME NEW q \in Req, pc'[q] = "update", wish'[q] \in Team
                   PROVE  wish'[q] # team'[q] /\ wish'[q] \notin Descendants(parent', team'[q])
        BY DEF ChecksStillHold
      <4>1. pc[q] = "update" /\ wish'[q] = wish[q] /\ team'[q] = team[q]
        BY <1>3 DEF InsertTeam, End, TypeOK
      <4>2. wish[q] # x /\ team[q] \in Team
        BY <2>2, <4>1 DEF EditsInFlight
      <4>3. wish[q] # team[q] /\ wish[q] \notin Descendants(parent, team[q])
        BY <4>1 DEF ChecksStillHold
      <4>4. wish[q] \notin Descendants(parent', team[q])
        BY <3>1, <3>2, <4>1, <4>2, <4>3, NewLeafKeepsOutside
      <4> QED
        BY <4>1, <4>3, <4>4
    <3> QED
      BY <3>3, <3>4, <3>5
  <2> QED
    BY <1>3, <2>1, <2>2 DEF InsertTeam
<1>4. ASSUME NEW r \in Req, UpdateTeam(r) PROVE TreeInv'
  \* The one edit in flight has ended.
  <2>1. \A q \in Req : pc'[q] # "update"
    BY <1>4 DEF UpdateTeam, End, TypeOK, EditsInFlight, OneEditor
  <2>2. EditsInFlight' /\ ChecksStillHold'
    BY <2>1 DEF EditsInFlight, ChecksStillHold
  <2>3. Acyclic'
    <3>1. CASE UNCHANGED parent
      BY <3>1 DEF Acyclic
    <3>2. CASE /\ KnownParent(wish[r]) /\ Live(team[r])
               /\ parent' = [parent EXCEPT ![team[r]] = wish[r]]
      <4>1. pc[r] = "update" /\ team[r] \in Team
        BY <1>4 DEF UpdateTeam, EditsInFlight
      <4>2. CASE wish[r] = Root
        <5>1. \A u \in Team : parent'[u] \in Team => parent'[u] = parent[u]
          BY <3>2, <4>1, <4>2, ConstantsAssumption DEF TypeOK
        <5> QED
          BY <5>1, PruningKeepsAcyclic
      <4>3. CASE wish[r] \in Team
        <5>1. wish[r] # team[r] /\ wish[r] \notin Descendants(parent, team[r])
          BY <4>1, <4>3 DEF ChecksStillHold
        <5> QED
          BY <3>2, <4>1, <4>3, <5>1, MoveKeepsAcyclic
      <4> QED
        BY <4>2, <4>3 DEF TypeOK
    <3> QED
      BY <1>4, <3>1, <3>2 DEF UpdateTeam
  <2> QED
    BY <2>2, <2>3
<1>5. ASSUME NEW r \in Req, Abandon(r) PROVE TreeInv'
  BY <1>5 DEF Abandon, End, TypeOK, Acyclic, EditsInFlight, ChecksStillHold
<1>6. ASSUME NEW t \in Team, DeleteTeam(t) PROVE TreeInv'
  <2>1. \A u \in Team : parent'[u] \in Team => parent'[u] = parent[u]
    BY <1>6, ConstantsAssumption DEF DeleteTeam, TypeOK
  <2>2. Acyclic'
    BY <2>1, PruningKeepsAcyclic
  <2>3. EditsInFlight'
    BY <1>6, ConstantsAssumption DEF DeleteTeam, TypeOK, EditsInFlight, Live
  <2>4. ChecksStillHold'
    <3> SUFFICES ASSUME NEW q \in Req, pc[q] = "update", wish[q] \in Team
                 PROVE  wish[q] # team[q] /\ wish[q] \notin Descendants(parent', team[q])
      BY <1>6 DEF DeleteTeam, ChecksStillHold
    <3>1. team[q] \in Team /\ wish[q] # team[q] /\ wish[q] \notin Descendants(parent, team[q])
      BY DEF EditsInFlight, ChecksStillHold
    <3> QED
      BY <2>1, <3>1, PruningKeepsOutside
  <2> QED
    BY <2>2, <2>3, <2>4
<1>7. CASE UNCHANGED vars
  BY <1>7 DEF vars, TypeOK, Acyclic, EditsInFlight, ChecksStillHold
<1> QED
  BY <1>1, <1>2, <1>3, <1>4, <1>5, <1>6, <1>7 DEF Next

LEMMA TreeInvHolds == ASSUME OneEditor PROVE Spec => []TreeInv
<1>1. Init /\ TypeOK => TreeInv
  BY DEF Init, TreeInv, EditsInFlight, ChecksStillHold
<1>2. TypeOK /\ TypeOK' /\ ParentsLive /\ ParentsLive' /\ TreeInv /\ [Next]_vars => TreeInv'
  BY TreeInvInductive
<1> QED
  BY <1>1, <1>2, TypeCorrect, ParentsAreLive, PTL DEF Spec

\* With one editor at a time the teams always form a tree.
THEOREM TreeStaysAcyclic == ASSUME OneEditor PROVE Spec => []Acyclic
<1>1. TreeInv => Acyclic
  BY DEF TreeInv
<1> QED
  BY <1>1, TreeInvHolds, PTL

\* ... no edit writes on checks that creations and deletions have made stale
\* since it read the teams ...
THEOREM ChecksStayValid == ASSUME OneEditor PROVE Spec => []ChecksStillHold
<1>1. TreeInv => ChecksStillHold
  BY DEF TreeInv
<1> QED
  BY <1>1, TreeInvHolds, PTL

\* ... and the hierarchies the pages build from the roots show every team.
THEOREM EveryTeamListed == ASSUME OneEditor PROVE Spec => []AllListed
<1>1. TreeInv => AllListed
  BY TreesAreListed DEF TreeInv
<1> QED
  BY <1>1, TreeInvHolds, PTL

-----------------------------------------------------------------------------
\* TeamTree implements Forest.

\* No nonempty set of teams holds the parents of all its members.
IsTree(tree) == \A S \in SUBSET Team : (\A t \in S : tree[t] \in S) => S = {}

\* The children of t, and of its descendants, are descendants.
LEMMA DescendantsClosed ==
  ASSUME NEW tree, NEW t
  PROVE  ClosedUnderChildren(tree, t, Descendants(tree, t)) /\ Descendants(tree, t) \subseteq Team
BY DEF Descendants, ClosedUnderChildren

LEMMA DescendantsLeast ==
  ASSUME NEW tree, NEW t, NEW S, S \subseteq Team, ClosedUnderChildren(tree, t, S)
  PROVE  Descendants(tree, t) \subseteq S
BY DEF Descendants

\* The parent of a descendant of t is t or another descendant.
LEMMA DescendantsParent ==
  ASSUME NEW tree, NEW t, NEW u \in Descendants(tree, t)
  PROVE  tree[u] \in Descendants(tree, t) \cup {t}
<1> SUFFICES ASSUME tree[u] \notin Descendants(tree, t) \cup {t} PROVE FALSE
  OBVIOUS
<1>1. ClosedUnderChildren(tree, t, Descendants(tree, t) \ {u})
  BY DescendantsClosed DEF ClosedUnderChildren
<1> QED
  BY <1>1, DescendantsLeast, DescendantsClosed

LEMMA DescendantsTransitive ==
  ASSUME NEW tree, NEW t, NEW u \in Descendants(tree, t)
  PROVE  Descendants(tree, u) \subseteq Descendants(tree, t)
<1>1. ClosedUnderChildren(tree, u, Descendants(tree, t))
  BY DescendantsClosed DEF ClosedUnderChildren
<1> QED
  BY <1>1, DescendantsLeast, DescendantsClosed

LEMMA NotItsOwnDescendant ==
  ASSUME NEW tree, IsTree(tree), NEW t \in Team
  PROVE  t \notin Descendants(tree, t)
<1> SUFFICES ASSUME t \in Descendants(tree, t) PROVE FALSE
  OBVIOUS
<1>1. \A u \in Descendants(tree, t) : tree[u] \in Descendants(tree, t)
  BY DescendantsParent
<1> QED
  BY <1>1, DescendantsClosed DEF IsTree

\* Teams with a common descendant stand in one line.
LEMMA AncestorsFormAChain ==
  ASSUME NEW tree, NEW x \in Team, NEW y \in Team,
         x # y, x \notin Descendants(tree, y), y \notin Descendants(tree, x)
  PROVE  Descendants(tree, x) \cap Descendants(tree, y) = {}
<1> DEFINE S == Descendants(tree, x) \ Descendants(tree, y)
<1>1. ASSUME NEW u \in Team, tree[u] \in S \cup {x} PROVE u \in S
  <2>1. u \in Descendants(tree, x)
    BY <1>1, DescendantsClosed DEF ClosedUnderChildren
  <2>2. u \notin Descendants(tree, y)
    BY <1>1, DescendantsParent
  <2> QED
    BY <2>1, <2>2
<1>2. S \subseteq Team
  BY DescendantsClosed
<1> HIDE DEF S
<1>3. Descendants(tree, x) \subseteq S
  BY <1>1, <1>2, DescendantsLeast DEF ClosedUnderChildren
<1> QED
  BY <1>3 DEF S

\* t, and everybody below it.
Whole(tree, t) == {t} \cup Descendants(tree, t)

\* q and everybody above it; nobody if q is no team.
Place(tree, q) == {x \in Team : x = q \/ q \in Descendants(tree, x)}

\* When t is given the parent q from outside, it takes everybody below it from
\* below those it stood below, to below q and those above q.
LEMMA ReparentFewer ==
  ASSUME NEW tree, NEW new, IsTree(tree), NEW t \in Team, NEW q, q \notin Whole(tree, t),
         new[t] = q, \A u \in Team \ {t} : new[u] = tree[u], NEW x \in Team
  PROVE  Descendants(new, x)
           \subseteq (Descendants(tree, x) \ IF x \in Whole(tree, t) THEN {} ELSE Whole(tree, t))
                       \cup IF x \in Place(tree, q) THEN Whole(tree, t) ELSE {}
<1> DEFINE B == Whole(tree, t)
           R == (Descendants(tree, x) \ IF x \in B THEN {} ELSE B)
                  \cup IF x \in Place(tree, q) THEN B ELSE {}
<1>1. /\ B \subseteq Team /\ t \in B
      /\ \A u \in Team : tree[u] \in B => u \in B
      /\ \A u \in B \ {t} : tree[u] \in B
  BY DescendantsClosed, DescendantsParent DEF Whole, ClosedUnderChildren
<1>2. /\ Descendants(tree, x) \subseteq Team
      /\ \A u \in Team : tree[u] \in Descendants(tree, x) \cup {x} => u \in Descendants(tree, x)
  BY DescendantsClosed DEF ClosedUnderChildren
<1>3. x \in B => Descendants(tree, x) \subseteq B /\ x \notin Place(tree, q)
  BY DescendantsTransitive DEF Whole, Place
<1>4. x \in Place(tree, q) <=> x = q \/ q \in Descendants(tree, x)
  BY DEF Place
<1>5. q \notin B
  OBVIOUS
<1> HIDE DEF B
<1>6. ASSUME NEW u \in Team, new[u] \in R \cup {x} PROVE u \in R
  <2>1. CASE u = t
    BY <1>1, <1>2, <1>3, <1>4, <1>5, <1>6, <2>1
  <2>2. CASE u # t /\ x \in B
    BY <1>2, <1>3, <1>6, <2>2
  <2>3. CASE u # t /\ x \notin B
    <3>1. CASE tree[u] \in B
      BY <1>1, <1>6, <2>3, <3>1
    <3>2. CASE tree[u] \notin B
      <4>1. tree[u] \in Descendants(tree, x) \cup {x}
        BY <1>6, <2>3, <3>2
      <4> QED
        BY <1>1, <1>2, <2>3, <3>2, <4>1
    <3> QED
      BY <3>1, <3>2
  <2> QED
    BY <2>1, <2>2, <2>3
<1>7. R \subseteq Team
  BY <1>1, <1>2
<1> HIDE DEF R
<1>8. Descendants(new, x) \subseteq R
  BY <1>6, <1>7, DescendantsLeast DEF ClosedUnderChildren
<1> QED
  BY <1>8 DEF R, B

LEMMA Reparent ==
  ASSUME NEW tree, NEW new, IsTree(tree), NEW t \in Team, NEW q, q \notin Whole(tree, t),
         new[t] = q, \A u \in Team \ {t} : new[u] = tree[u], NEW x \in Team
  PROVE  Descendants(new, x)
           = (Descendants(tree, x) \ IF x \in Whole(tree, t) THEN {} ELSE Whole(tree, t))
                \cup IF x \in Place(tree, q) THEN Whole(tree, t) ELSE {}
<1> DEFINE B == Whole(tree, t)
<1>1. /\ B \subseteq Team /\ t \in B
      /\ \A u \in Team : tree[u] \in B => u \in B
      /\ \A u \in B \ {t} : tree[u] \in B
  BY DescendantsClosed, DescendantsParent DEF Whole, ClosedUnderChildren
<1>2. ASSUME NEW y \in B PROVE Descendants(tree, y) \subseteq Descendants(new, y)
  <2>1. y \in Team /\ Descendants(tree, y) \subseteq B /\ y \notin Place(tree, q)
    BY <1>1, DescendantsTransitive DEF Whole, Place
  <2>2. Descendants(new, y) \subseteq Descendants(tree, y)
    BY <2>1, ReparentFewer
  \* t hangs below nobody of its own.
  <2>3. tree[t] \notin B
    BY NotItsOwnDescendant, DescendantsClosed DEF Whole, ClosedUnderChildren
  <2>4. ClosedUnderChildren(tree, y, Descendants(new, y))
    BY <2>1, <2>2, <2>3, DescendantsClosed DEF ClosedUnderChildren
  <2> QED
    BY <2>4, DescendantsLeast, DescendantsClosed
<1>3. ASSUME x \notin B PROVE Descendants(tree, x) \ B \subseteq Descendants(new, x)
  <2>1. ClosedUnderChildren(tree, x, Descendants(new, x) \cup B)
    BY <1>1, <1>3, DescendantsClosed DEF ClosedUnderChildren
  <2> QED
    BY <1>1, <2>1, DescendantsLeast, DescendantsClosed
<1>4. ASSUME x \in Place(tree, q) PROVE B \subseteq Descendants(new, x)
  <2>1. x \notin B
    BY <1>4, DescendantsTransitive DEF Whole, Place
  <2>2. q \in Descendants(new, x) \cup {x}
    BY <1>3, <1>4, <2>1 DEF Place
  <2>3. t \in Descendants(new, x)
    BY <2>2, DescendantsClosed DEF ClosedUnderChildren
  <2>4. Descendants(tree, t) \subseteq Descendants(new, x)
    BY <1>1, <1>2, <2>3, DescendantsTransitive
  <2> QED
    BY <2>3, <2>4 DEF Whole
<1>5. Descendants(new, x)
        \subseteq (Descendants(tree, x) \ IF x \in B THEN {} ELSE B)
                    \cup IF x \in Place(tree, q) THEN B ELSE {}
  BY ReparentFewer
<1> HIDE DEF B
<1>6. Descendants(new, x) = (Descendants(tree, x) \ IF x \in B THEN {} ELSE B)
                               \cup IF x \in Place(tree, q) THEN B ELSE {}
  BY <1>2, <1>3, <1>4, <1>5
<1> QED
  BY <1>6 DEF B

\* When t goes and its children become roots, those above it lose t and all
\* below it, and the others keep theirs.
LEMMA Uproot ==
  ASSUME NEW tree, NEW new, IsTree(tree), NEW t \in Team,
         new[t] \notin Team,
         \A u \in Team \ {t} : IF tree[u] = t THEN new[u] \notin Team ELSE new[u] = tree[u],
         NEW x \in Team
  PROVE  Descendants(new, x) = IF x = t THEN {}
                               ELSE Descendants(tree, x) \ IF t \in Descendants(tree, x)
                                                           THEN Whole(tree, t) ELSE {}
<1> DEFINE B == Whole(tree, t)
<1>1. /\ B \subseteq Team /\ t \in B
      /\ \A u \in Team : tree[u] \in B => u \in B
      /\ \A u \in B \ {t} : tree[u] \in B
  BY DescendantsClosed, DescendantsParent DEF Whole, ClosedUnderChildren
<1>2. x \in B \ {t} => t \notin Descendants(tree, x)
  BY NotItsOwnDescendant, DescendantsTransitive DEF Whole
<1>3. CASE x = t
  <2>1. ClosedUnderChildren(new, t, {})
    BY DEF ClosedUnderChildren
  <2> QED
    BY <1>3, <2>1, DescendantsLeast
<1>4. CASE x # t /\ t \in Descendants(tree, x)
  <2>1. x \notin B
    BY <1>2, <1>4
  <2>2. ClosedUnderChildren(new, x, Descendants(tree, x) \ B)
    BY <1>1, <1>4, <2>1, DescendantsClosed DEF ClosedUnderChildren
  <2>3. ClosedUnderChildren(tree, x, Descendants(new, x) \cup B)
    BY <1>1, <1>4, <2>1, DescendantsClosed DEF ClosedUnderChildren
  <2>4. Descendants(new, x) \subseteq Descendants(tree, x) \ B
    BY <2>2, DescendantsLeast, DescendantsClosed
  <2>5. Descendants(tree, x) \subseteq Descendants(new, x) \cup B
    BY <1>1, <2>3, DescendantsLeast, DescendantsClosed
  <2> QED
    BY <1>4, <2>4, <2>5
<1>5. CASE x # t /\ t \notin Descendants(tree, x)
  <2>1. ClosedUnderChildren(new, x, Descendants(tree, x))
    BY <1>5, DescendantsClosed DEF ClosedUnderChildren
  <2>2. Descendants(new, x) \subseteq Descendants(tree, x)
    BY <2>1, DescendantsLeast, DescendantsClosed
  <2>3. ClosedUnderChildren(tree, x, Descendants(new, x))
    BY <1>5, <2>2, DescendantsClosed DEF ClosedUnderChildren
  <2>4. Descendants(tree, x) \subseteq Descendants(new, x)
    BY <2>3, DescendantsLeast, DescendantsClosed
  <2> QED
    BY <1>5, <2>2, <2>4
<1> QED
  BY <1>3, <1>4, <1>5

LEMMA AboveIs ==
  ASSUME NEW u, NEW t
  PROVE  /\ <<u, t>> \in above <=> u \in Team /\ t \in Descendants(parent, u)
         /\ <<u, t>> \in above' <=> u \in Team /\ t \in Descendants(parent', u)
BY DEF above

LEMMA AboveIsPairs == above \subseteq Team \X Team /\ above' \subseteq Team \X Team
BY DescendantsClosed DEF above

LEMMA BelowIs ==
  ASSUME NEW t \in Team
  PROVE  AsForest!Below(t) = Descendants(parent, t)
BY AboveIs, DescendantsClosed DEF AsForest!Below

LEMMA InitImplements == Init /\ TypeOK => AsForest!Init
<1> SUFFICES ASSUME Init, TypeOK PROVE AsForest!Init
  OBVIOUS
<1>1. IsTree(parent)
  BY DEF Init, Acyclic, IsTree
<1>2. gone = {}
  BY ConstantsAssumption DEF Init, gone
<1>3. above \subseteq teams \X teams
  <2> SUFFICES ASSUME NEW u \in Team, NEW t \in Descendants(parent, u)
               PROVE  u \in teams /\ t \in teams
    BY DEF above
  \* Only live teams have parents or are parents.
  <2>1. ClosedUnderChildren(parent, u, {x \in Team : Live(x) /\ Live(u)})
    BY ConstantsAssumption DEF ClosedUnderChildren, Init, ParentsLive, Live
  <2> QED
    BY <2>1, DescendantsLeast DEF teams
<1>4. AsForest!IsForest
  <2>1. \A t \in Team : <<t, t>> \notin above
    BY <1>1, AboveIs, NotItsOwnDescendant
  <2>2. \A t, u, v \in Team : <<t, u>> \in above /\ <<u, v>> \in above => <<t, v>> \in above
    BY AboveIs, DescendantsTransitive
  <2>3. \A t \in Team : \A u, v \in AsForest!Above(t) :
           u = v \/ <<u, v>> \in above \/ <<v, u>> \in above
    BY AboveIs, AncestorsFormAChain DEF AsForest!Above
  <2> QED
    BY <2>1, <2>2, <2>3 DEF AsForest!IsForest
<1> QED
  BY <1>2, <1>3, <1>4 DEF Init, AsForest!Init, teams

\* The places that Forest knows are those below a parent that exists.
LEMMA PlaceIs ==
  ASSUME TypeOK, NEW q, KnownParent(q)
  PROVE  Place(parent, q) \in AsForest!Places
<1>1. CASE q = Root
  <2>1. Place(parent, q) = {}
    BY <1>1, ConstantsAssumption, DescendantsClosed DEF Place
  <2> QED
    BY <2>1 DEF AsForest!Places
<1>2. CASE q \in Team /\ Live(q)
  <2>1. Place(parent, q) = {q} \cup AsForest!Above(q)
    BY <1>2, AboveIs DEF Place, AsForest!Above
  <2> QED
    BY <1>2, <2>1 DEF AsForest!Places, teams
<1> QED
  BY <1>1, <1>2 DEF KnownParent

\* What Reparent says, of all pairs at once.
LEMMA ReparentAbove ==
  ASSUME TypeOK, Acyclic, NEW t \in Team, NEW q, q \notin Whole(parent, t),
         parent' = [parent EXCEPT ![t] = q]
  PROVE  /\ Place(parent, q) \cap ({t} \cup AsForest!Below(t)) = {}
         /\ above' = (above \ (AsForest!Above(t) \X ({t} \cup AsForest!Below(t))))
                       \cup (Place(parent, q) \X ({t} \cup AsForest!Below(t)))
<1> DEFINE B == Whole(parent, t)
<1>1. B = {t} \cup AsForest!Below(t) /\ B \subseteq Team
  BY BelowIs, DescendantsClosed DEF Whole
<1>2. IsTree(parent)
  BY DEF IsTree, Acyclic
<1>3. Place(parent, q) \cap B = {}
  BY DescendantsTransitive DEF Place, Whole
<1>4. ASSUME NEW x \in Team
      PROVE  Descendants(parent', x) = (Descendants(parent, x) \ IF x \in B THEN {} ELSE B)
                                         \cup IF x \in Place(parent, q) THEN B ELSE {}
  <2>1. parent'[t] = q /\ \A u \in Team \ {t} : parent'[u] = parent[u]
    BY DEF TypeOK
  <2> DEFINE new == parent'
  <2>2. new[t] = q /\ \A u \in Team \ {t} : new[u] = parent[u]
    BY <2>1
  <2> HIDE DEF new, B
  <2>3. Descendants(new, x)
          = (Descendants(parent, x) \ IF x \in Whole(parent, t) THEN {} ELSE Whole(parent, t))
              \cup IF x \in Place(parent, q) THEN Whole(parent, t) ELSE {}
    BY <1>2, <2>2, Reparent
  <2> QED
    BY <2>3 DEF new, B
<1>5. ASSUME NEW x \in Team, NEW y \in Descendants(parent, x), y \in B
      PROVE  x \in B \/ t \in Descendants(parent, x)
  <2> SUFFICES ASSUME x \notin B, t \notin Descendants(parent, x) PROVE FALSE
    OBVIOUS
  <2>1. y \in Descendants(parent, t) /\ x # t
    BY <1>5 DEF Whole
  <2> QED
    BY <1>5, <2>1, AncestorsFormAChain DEF Whole
<1>6. ASSUME NEW x \in B PROVE t \notin Descendants(parent, x)
  BY <1>1, <1>2, NotItsOwnDescendant, DescendantsTransitive DEF Whole
<1> HIDE DEF B
<1>7. ASSUME NEW x \in Team, NEW y \in Team
      PROVE  <<x, y>> \in above'
               <=> \/ <<x, y>> \in above /\ ~(x \in AsForest!Above(t) /\ y \in B)
                   \/ x \in Place(parent, q) /\ y \in B
  <2>1. x \in AsForest!Above(t) <=> t \in Descendants(parent, x)
    BY AboveIs DEF AsForest!Above
  <2>2. <<x, y>> \in above <=> y \in Descendants(parent, x)
    BY AboveIs
  <2>3. <<x, y>> \in above' <=> y \in Descendants(parent', x)
    BY AboveIs
  <2> QED
    BY <1>4, <1>5, <1>6, <2>1, <2>2, <2>3
<1>8. above' = (above \ (AsForest!Above(t) \X B)) \cup (Place(parent, q) \X B)
  BY <1>1, <1>7, AboveIsPairs DEF Place
<1> QED
  BY <1>1, <1>3, <1>8

LEMMA InsertImplements ==
  ASSUME TreeInv, NEW t \in Team, NEW q, KnownParent(q), parent[t] = Unborn,
         parent' = [parent EXCEPT ![t] = q]
  PROVE  AsForest!Add(t)
<1>1. TypeOK /\ Acyclic /\ ParentsLive
  BY DEF TreeInv
\* Nobody hangs below an id not used yet, nor is it below anybody.
<1>2. Descendants(parent, t) = {}
  <2>1. ClosedUnderChildren(parent, t, {})
    BY <1>1 DEF ClosedUnderChildren, ParentsLive, Live
  <2> QED
    BY <2>1, DescendantsLeast
<1>3. AsForest!Above(t) = {}
  BY ConstantsAssumption, AboveIs, DescendantsParent, DescendantsClosed DEF AsForest!Above
<1>4. q \notin Whole(parent, t)
  BY <1>2, ConstantsAssumption DEF Whole, KnownParent, Live
<1>5. AsForest!Below(t) = {}
  BY <1>2, BelowIs
<1>6. above' = above \cup (Place(parent, q) \X {t})
  <2>1. above' = (above \ (AsForest!Above(t) \X ({t} \cup AsForest!Below(t))))
                   \cup (Place(parent, q) \X ({t} \cup AsForest!Below(t)))
    BY <1>1, <1>4, ReparentAbove
  <2> QED
    BY <1>3, <1>5, <2>1
<1>7. Place(parent, q) \in AsForest!Places
  BY <1>1, PlaceIs
<1>8. t \notin teams \cup gone /\ teams' = teams \cup {t} /\ gone' = gone
  BY <1>1, ConstantsAssumption DEF teams, gone, Live, KnownParent, TypeOK
<1> QED
  BY <1>6, <1>7, <1>8 DEF AsForest!Add

LEMMA UpdateImplements ==
  ASSUME TreeInv, NEW r \in Req, pc[r] = "update", KnownParent(wish[r]), Live(team[r]),
         parent' = [parent EXCEPT ![team[r]] = wish[r]]
  PROVE  AsForest!Move(team[r])
<1> DEFINE t == team[r]
           q == wish[r]
<1>1. TypeOK /\ Acyclic /\ t \in Team
  BY DEF TreeInv, EditsInFlight
<1>2. q \notin Whole(parent, t)
  BY ConstantsAssumption, DescendantsClosed DEF TreeInv, ChecksStillHold, Whole, KnownParent, EditsInFlight
<1>3. Place(parent, q) \in AsForest!Places
  BY <1>1, PlaceIs
<1>4. t \in teams /\ teams' = teams /\ gone' = gone
  BY <1>1, ConstantsAssumption DEF teams, gone, Live, KnownParent, TypeOK
<1> HIDE DEF t, q
<1>5. KnownParent(q) /\ parent' = [parent EXCEPT ![t] = q]
  BY DEF t, q
<1>6. /\ Place(parent, q) \cap ({t} \cup AsForest!Below(t)) = {}
      /\ above' = (above \ (AsForest!Above(t) \X ({t} \cup AsForest!Below(t))))
                    \cup (Place(parent, q) \X ({t} \cup AsForest!Below(t)))
  BY <1>1, <1>2, <1>5, ReparentAbove
<1>7. AsForest!Move(t)
  BY <1>3, <1>4, <1>6 DEF AsForest!Move
<1> QED
  BY <1>7 DEF t

LEMMA DeleteImplements ==
  ASSUME TreeInv, NEW t \in Team, DeleteTeam(t)
  PROVE  AsForest!Remove(t)
<1>1. TypeOK /\ Acyclic /\ ParentsLive /\ IsTree(parent)
  BY DEF TreeInv, Acyclic, IsTree
<1>2. t \in teams /\ teams' = teams \ {t} /\ gone' = gone \cup {t}
  BY <1>1, ConstantsAssumption DEF DeleteTeam, TypeOK, Live, teams, gone
<1>3. ASSUME NEW x \in Team
      PROVE  Descendants(parent', x) = IF x = t THEN {}
               ELSE Descendants(parent, x) \ IF t \in Descendants(parent, x)
                                             THEN Whole(parent, t) ELSE {}
  <2>1. /\ parent'[t] \notin Team
        /\ \A u \in Team \ {t} : IF parent[u] = t THEN parent'[u] \notin Team
                                 ELSE parent'[u] = parent[u]
    BY ConstantsAssumption DEF DeleteTeam
  <2> QED
    BY <1>1, <2>1, Uproot
<1>4. ASSUME NEW x \in Team, NEW y \in Team
      PROVE  <<x, y>> \in above'
               <=> /\ <<x, y>> \in above /\ x # t /\ y # t
                   /\ ~(x \in AsForest!Above(t) /\ y \in AsForest!Below(t))
  <2>1. x \in AsForest!Above(t) <=> t \in Descendants(parent, x)
    BY AboveIs DEF AsForest!Above
  <2>2. /\ <<x, y>> \in above <=> y \in Descendants(parent, x)
        /\ <<x, y>> \in above' <=> y \in Descendants(parent', x)
    BY AboveIs
  <2> QED
    BY <1>3, <2>1, <2>2, BelowIs DEF Whole
<1>5. above' = ((above \ (AsForest!Above(t) \X AsForest!Below(t))) \ ({t} \X Team)) \ (Team \X {t})
  BY <1>4, AboveIsPairs DEF AsForest!Above, AsForest!Below
<1> QED
  BY <1>2, <1>5 DEF AsForest!Remove

LEMMA StepImplements ==
  ASSUME TreeInv, [Next]_vars
  PROVE  [AsForest!Next]_(AsForest!vars)
<1>1. UNCHANGED parent => UNCHANGED AsForest!vars
  BY DEF AsForest!vars, teams, gone, above, Live, Descendants, ClosedUnderChildren
<1>2. ASSUME NEW r \in Req, InsertTeam(r) PROVE [AsForest!Next]_(AsForest!vars)
  BY <1>1, <1>2, InsertImplements DEF InsertTeam, AsForest!Next
<1>3. ASSUME NEW r \in Req, UpdateTeam(r) PROVE [AsForest!Next]_(AsForest!vars)
  <2>1. team[r] \in Team
    BY <1>3 DEF UpdateTeam, TreeInv, EditsInFlight
  <2> QED
    BY <1>1, <1>3, <2>1, UpdateImplements DEF UpdateTeam, AsForest!Next
<1>4. ASSUME NEW t \in Team, DeleteTeam(t) PROVE AsForest!Next
  BY <1>4, DeleteImplements DEF AsForest!Next
<1>5. ASSUME NEW r \in Req, Abandon(r) PROVE UNCHANGED parent
  BY <1>5 DEF Abandon
<1>6. ASSUME NEW r \in Req, NEW p \in Team \cup {Root},
             SubmitNewTeam(r, p) \/ \E t \in Team : SubmitEdit(r, t, p)
      PROVE  UNCHANGED parent
  BY <1>6 DEF SubmitNewTeam, SubmitEdit
<1> QED
  BY <1>1, <1>2, <1>3, <1>4, <1>5, <1>6 DEF Next, vars

\* With one editor at a time, the handlers' separate reads and writes are
\* operations on the hierarchy of Forest.
THEOREM ForestImplemented == ASSUME OneEditor PROVE Spec => ImplementsForest
<1>1. TreeInv /\ [Next]_vars => [AsForest!Next]_(AsForest!vars)
  BY StepImplements
<1> QED
  BY <1>1, InitImplements, TypeCorrect, TreeInvHolds, PTL
  DEF Spec, ImplementsForest, AsForest!Spec

-----------------------------------------------------------------------------
\* The walk of collectDescendants

Visits == (SUBSET Team) \X (SUBSET Team)

\* What a visit returns, if after gives what the visits that it makes return.
Visit(tree, after, visit) ==
  LET todo == visit[1]
      visited == visit[2]
      child == CHOOSE u \in todo : TRUE
      below == after[<<ChildrenOf(tree, child), visited \cup {child}>>]
  IN IF todo = {} THEN visited
     ELSE IF child \in visited THEN after[<<todo \ {child}, visited>>]
     ELSE after[<<todo \ {child}, below>>]

Walks(tree, after) == after = [visit \in Visits |-> Visit(tree, after, visit)]

LEMMA WalkIs ==
  ASSUME NEW tree, NEW t
  PROVE  Walk(tree, t) = (CHOOSE after : Walks(tree, after))[<<ChildrenOf(tree, t), {}>>]
BY DEF Walk, Walks, Visits, Visit

\* The child that a visit takes first, and those that it leaves to a later one.
Child(todo) == CHOOSE u \in todo : TRUE

Rest(todo) == todo \ {Child(todo)}

LEMMA VisitNone ==
  ASSUME NEW tree, NEW after, NEW visited
  PROVE  Visit(tree, after, <<{}, visited>>) = visited
BY DEF Visit

\* That child was visited before, or is new.
Again(todo, visited) == todo # {} /\ Child(todo) \in visited

Anew(todo, visited) == todo # {} /\ Child(todo) \notin visited

LEMMA VisitAgain ==
  ASSUME NEW tree, NEW after, NEW todo, NEW visited, Again(todo, visited)
  PROVE  Visit(tree, after, <<todo, visited>>) = after[<<Rest(todo), visited>>]
BY DEF Visit, Child, Rest, Again

LEMMA VisitNew ==
  ASSUME NEW tree, NEW after, NEW todo, NEW visited, Anew(todo, visited)
  PROVE  Visit(tree, after, <<todo, visited>>)
           = after[<<Rest(todo),
                     after[<<ChildrenOf(tree, Child(todo)), visited \cup {Child(todo)}>>]>>]
BY DEF Visit, Child, Rest, Anew

LEMMA Induction ==
  ASSUME NEW T, 0 \in T, \A n \in Nat : n \in T => n + 1 \in T
  PROVE  \A n \in Nat : n \in T
<1> DEFINE Bad == Nat \ T
<1> SUFFICES ASSUME Bad # {} PROVE FALSE
  OBVIOUS
<1>1. PICK x \in Bad : \A y \in Bad : ~(<<y, x>> \in OpToRel(<, Nat))
  BY WFMin, NatLessThanWellFounded
<1>2. \A y \in Bad : ~(y < x)
  BY <1>1 DEF OpToRel
<1>3. x # 0 /\ x - 1 \in Nat
  OBVIOUS
<1>4. x - 1 \in T
  BY <1>2, <1>3
<1> QED
  BY <1>3, <1>4

\* Every visit makes smaller ones: fewer teams are not visited yet, or as many
\* and fewer are still to do.
Measure(visit) ==
  Cardinality(Team \ visit[2]) * (Cardinality(Team) + 1) + Cardinality(visit[1])

LEMMA MeasureTyped ==
  ASSUME IsFiniteSet(Team), NEW todo \in SUBSET Team, NEW visited \in SUBSET Team
  PROVE  /\ Cardinality(Team) \in Nat
         /\ Cardinality(Team \ visited) \in Nat /\ Cardinality(Team \ visited) <= Cardinality(Team)
         /\ Cardinality(todo) \in Nat /\ Cardinality(todo) <= Cardinality(Team)
         /\ Measure(<<todo, visited>>)
              = Cardinality(Team \ visited) * (Cardinality(Team) + 1) + Cardinality(todo)
         /\ Measure(<<todo, visited>>) \in Nat
<1>1. /\ Cardinality(Team) \in Nat
      /\ Cardinality(Team \ visited) \in Nat /\ Cardinality(Team \ visited) <= Cardinality(Team)
      /\ Cardinality(todo) \in Nat /\ Cardinality(todo) <= Cardinality(Team)
  <2>1. Team \ visited \in SUBSET Team
    OBVIOUS
  <2>2. IsFiniteSet(Team \ visited) /\ IsFiniteSet(todo)
    BY <2>1, FS_Subset
  <2> QED
    BY <2>1, <2>2, FS_Subset, FS_CardinalityType
<1>2. Measure(<<todo, visited>>)
        = Cardinality(Team \ visited) * (Cardinality(Team) + 1) + Cardinality(todo)
  BY DEF Measure
<1>3. Cardinality(Team \ visited) * (Cardinality(Team) + 1) \in Nat
  BY <1>1
<1> QED
  BY <1>1, <1>2, <1>3

LEMMA VisitsShrink ==
  ASSUME IsFiniteSet(Team), NEW todo \in SUBSET Team, NEW visited \in SUBSET Team, todo # {}
  PROVE  /\ Child(todo) \in todo /\ Rest(todo) \in SUBSET Team /\ Rest(todo) = todo \ {Child(todo)}
         /\ Measure(<<Rest(todo), visited>>) < Measure(<<todo, visited>>)
         /\ Child(todo) \notin visited =>
              \A S, R \in SUBSET Team : visited \cup {Child(todo)} \subseteq R =>
                 Measure(<<S, R>>) < Measure(<<todo, visited>>)
<1> DEFINE u == Child(todo)
<1>1. u \in todo
  BY DEF Child
<1> HIDE DEF u
<1>2. Cardinality(todo \ {u}) = Cardinality(todo) - 1
  BY <1>1, FS_Subset, FS_RemoveElement
<1>3. Measure(<<todo \ {u}, visited>>) < Measure(<<todo, visited>>)
  <2>1. todo \ {u} \in SUBSET Team
    OBVIOUS
  <2> DEFINE a == Cardinality(Team \ visited) * (Cardinality(Team) + 1)
             c == Cardinality(todo)
             d == Cardinality(todo \ {u})
  <2>2. a \in Nat
    <3>1. Cardinality(Team \ visited) \in Nat /\ Cardinality(Team) \in Nat
      BY MeasureTyped
    <3> QED
      BY <3>1
  <2>3. c \in Nat /\ d = c - 1
    BY <1>2, MeasureTyped
  <2>4. Measure(<<todo \ {u}, visited>>) = a + d /\ Measure(<<todo, visited>>) = a + c
    BY <2>1, MeasureTyped
  <2> HIDE DEF a, c, d
  <2> QED
    BY <2>2, <2>3, <2>4
<1>4. ASSUME u \notin visited, NEW S \in SUBSET Team, NEW R \in SUBSET Team,
             visited \cup {u} \subseteq R
      PROVE  Measure(<<S, R>>) < Measure(<<todo, visited>>)
  <2>1. /\ IsFiniteSet(Team \ visited) /\ u \in Team \ visited
        /\ Team \ R \in SUBSET ((Team \ visited) \ {u})
    BY <1>1, <1>4, FS_Subset
  <2>2. IsFiniteSet((Team \ visited) \ {u})
        /\ Cardinality((Team \ visited) \ {u}) = Cardinality(Team \ visited) - 1
    BY <2>1, FS_RemoveElement
  <2>3. Cardinality(Team \ R) <= Cardinality(Team \ visited) - 1
    BY <2>1, <2>2, FS_Subset
  <2>4. Cardinality(todo) # 0
    BY <1>2, <1>1, FS_Subset, FS_EmptySet
  <2> DEFINE n == Cardinality(Team)
             a == Cardinality(Team \ visited)
             b == Cardinality(Team \ R)
             c == Cardinality(todo)
             d == Cardinality(S)
  <2>5. /\ n \in Nat /\ a \in Nat /\ b \in Nat /\ c \in Nat /\ d \in Nat /\ d <= n
        /\ Measure(<<S, R>>) = b * (n + 1) + d
        /\ Measure(<<todo, visited>>) = a * (n + 1) + c
    BY MeasureTyped
  <2> HIDE DEF n, a, b, c, d
  <2>6. a - 1 - b \in Nat
    BY <2>3, <2>5 DEF a, b
  <2>7. (a - 1 - b) * (n + 1) \in Nat
    BY <2>5, <2>6
  <2>8. a * (n + 1) = b * (n + 1) + (a - 1 - b) * (n + 1) + n + 1 /\ b * (n + 1) \in Nat
    BY <2>5
  <2> QED
    BY <2>5, <2>7, <2>8
<1> QED
  BY <1>1, <1>3, <1>4 DEF u, Rest

\* The visits below a measure.
Upto(n) == {visit \in Visits : Measure(visit) < n}

\* A visit returns teams, the visited ones among them.
Grows(after, V) == \A visit \in V : after[visit] \in SUBSET Team /\ visit[2] \subseteq after[visit]

LEMMA VisitAgrees ==
  ASSUME IsFiniteSet(Team), NEW tree, NEW n \in Nat, NEW f, Grows(f, Upto(n)),
         NEW g, \A visit \in Upto(n) : g[visit] = f[visit],
         NEW visit \in Upto(n + 1)
  PROVE  /\ Visit(tree, g, visit) = Visit(tree, f, visit)
         /\ Visit(tree, f, visit) \in SUBSET Team /\ visit[2] \subseteq Visit(tree, f, visit)
<1>1. PICK todo \in SUBSET Team, visited \in SUBSET Team : visit = <<todo, visited>>
  BY DEF Upto, Visits
<1>2. Measure(visit) \in Nat /\ Measure(visit) < n + 1
  BY <1>1, MeasureTyped DEF Upto
<1>3. CASE todo = {}
  <2>1. ASSUME NEW h PROVE Visit(tree, h, visit) = visited
    BY <1>1, <1>3, VisitNone
  <2>2. visit[2] = visited
    BY <1>1
  <2> QED
    BY <2>1, <2>2
<1>4. CASE todo # {}
  <2> DEFINE u == Child(todo)
             rest == Rest(todo)
             first == <<ChildrenOf(tree, u), visited \cup {u}>>
  <2>1. ASSUME NEW S \in SUBSET Team, NEW R \in SUBSET Team,
               Measure(<<S, R>>) < Measure(visit)
        PROVE  <<S, R>> \in Upto(n)
    <3>1. Measure(<<S, R>>) \in Nat
      BY MeasureTyped
    <3>2. Measure(<<S, R>>) < n
      BY <1>2, <2>1, <3>1
    <3> QED
      BY <3>2 DEF Upto, Visits
  <2>2. u \in todo /\ rest \in SUBSET Team /\ visited \cup {u} \in SUBSET Team
    <3>1. u \in todo /\ rest \in SUBSET Team
      BY <1>4, VisitsShrink
    <3> HIDE DEF u, rest
    <3> QED
      BY <3>1
  <2>3. <<rest, visited>> \in Upto(n)
    BY <1>1, <1>4, <2>1, <2>2, VisitsShrink
  <2>4. CASE Again(todo, visited)
    <3>1. ASSUME NEW h PROVE Visit(tree, h, visit) = h[<<rest, visited>>]
      BY <1>1, <2>4, VisitAgain
    <3>2. /\ f[<<rest, visited>>] \in SUBSET Team /\ visited \subseteq f[<<rest, visited>>]
          /\ g[<<rest, visited>>] = f[<<rest, visited>>]
      BY <2>3 DEF Grows
    <3> QED
      BY <1>1, <3>1, <3>2
  <2>5. CASE Anew(todo, visited)
    <3>0. todo # {} /\ u \notin visited
      BY <2>5 DEF Anew
    <3>1. ChildrenOf(tree, u) \in SUBSET Team
      BY DEF ChildrenOf
    <3>2. first \in Upto(n)
      BY <1>1, <2>1, <2>2, <3>0, <3>1, VisitsShrink
    <3>3. f[first] \in SUBSET Team /\ visited \cup {u} \subseteq f[first] /\ g[first] = f[first]
      BY <3>2 DEF Grows
    <3>4. <<rest, f[first]>> \in Upto(n)
      BY <1>1, <2>1, <2>2, <3>0, <3>3, VisitsShrink
    <3>5. /\ f[<<rest, f[first]>>] \in SUBSET Team /\ f[first] \subseteq f[<<rest, f[first]>>]
          /\ g[<<rest, f[first]>>] = f[<<rest, f[first]>>]
      BY <3>4 DEF Grows
    <3>6. ASSUME NEW h PROVE Visit(tree, h, visit) = h[<<rest, h[first]>>]
      BY <1>1, <2>5, VisitNew
    <3> QED
      BY <1>1, <3>3, <3>5, <3>6
  <2> QED
    BY <1>4, <2>4, <2>5 DEF Again, Anew
<1> QED
  BY <1>3, <1>4

\* Teams are finitely many, so the walk ends: its function exists.
LEMMA WalkExists ==
  ASSUME IsFiniteSet(Team), NEW tree
  PROVE  \E after : Walks(tree, after) /\ Grows(after, Visits)
<1> DEFINE WalksUpto(n, f) == f = [visit \in Upto(n) |-> Visit(tree, f, visit)] /\ Grows(f, Upto(n))
           N == {n \in Nat : \E f : WalksUpto(n, f)}
<1>1. \A visit \in Visits : Measure(visit) \in Nat
  <2>1. \A todo, visited \in SUBSET Team : Measure(<<todo, visited>>) \in Nat
    BY MeasureTyped
  <2> QED
    BY <2>1 DEF Visits
<1>2. 0 \in N
  <2>1. Upto(0) = {}
    BY <1>1 DEF Upto
  <2> DEFINE f == [visit \in {} |-> {}]
  <2>2. WalksUpto(0, f)
    BY <2>1 DEF Grows
  <2> HIDE DEF WalksUpto, f
  <2> QED
    BY <2>2
<1>3. ASSUME NEW n \in Nat, n \in N PROVE n + 1 \in N
  <2>1. PICK f : WalksUpto(n, f)
    BY <1>3
  <2> DEFINE g == [visit \in Upto(n + 1) |-> Visit(tree, f, visit)]
  <2>2. Upto(n) \subseteq Upto(n + 1)
    BY <1>1 DEF Upto
  <2>3. \A visit \in Upto(n) : g[visit] = f[visit]
    BY <2>1, <2>2
  <2>4. Grows(f, Upto(n))
    BY <2>1
  <2>5. \A visit \in Upto(n + 1) :
           /\ Visit(tree, g, visit) = Visit(tree, f, visit)
           /\ Visit(tree, f, visit) \in SUBSET Team /\ visit[2] \subseteq Visit(tree, f, visit)
    <3> HIDE DEF g
    <3> QED
      BY <2>3, <2>4, VisitAgrees
  <2>6. g = [visit \in Upto(n + 1) |-> Visit(tree, g, visit)]
    BY <2>5
  <2>7. Grows(g, Upto(n + 1))
    BY <2>5 DEF Grows
  <2>8. WalksUpto(n + 1, g)
    <3> HIDE DEF g
    <3> QED
      BY <2>6, <2>7
  <2> HIDE DEF WalksUpto, g
  <2> QED
    BY <2>8
<1>4. \A n \in Nat : n \in N
  <2> HIDE DEF N
  <2> QED
    BY <1>2, <1>3, Induction
<1> DEFINE top == (Cardinality(Team) + 1) * (Cardinality(Team) + 1)
<1>5. top \in Nat /\ \A visit \in Visits : Measure(visit) < top
  <2>1. Cardinality(Team) \in Nat
    BY MeasureTyped
  <2>2. ASSUME NEW todo \in SUBSET Team, NEW visited \in SUBSET Team
        PROVE  Measure(<<todo, visited>>) < top
    <3> DEFINE k == Cardinality(Team)
               a == Cardinality(Team \ visited)
               c == Cardinality(todo)
    <3>1. /\ k \in Nat /\ a \in Nat /\ a <= k /\ c \in Nat /\ c <= k
          /\ Measure(<<todo, visited>>) = a * (k + 1) + c
      BY MeasureTyped
    <3>2. (k + 1) * (k + 1) = top
      OBVIOUS
    <3> HIDE DEF k, a, c, top
    <3>3. (k - a) * (k + 1) \in Nat
      BY <3>1
    <3>4. (k + 1) * (k + 1) = a * (k + 1) + (k - a) * (k + 1) + k + 1 /\ a * (k + 1) \in Nat
      BY <3>1
    <3> QED
      BY <3>1, <3>2, <3>3, <3>4
  <2>3. top \in Nat
    BY <2>1
  <2> HIDE DEF top
  <2> QED
    BY <2>2, <2>3 DEF Visits
<1>6. Upto(top) = Visits
  <2> HIDE DEF top
  <2> QED
    BY <1>5 DEF Upto
<1>7. PICK f : WalksUpto(top, f)
  BY <1>4, <1>5
<1> QED
  BY <1>6, <1>7 DEF Walks

\* What a visit must return: the teams visited, those to do and whatever is
\* below a team that it adds, and nothing else.
Right(tree, visit, found) ==
  /\ found \in SUBSET Team
  /\ visit[1] \subseteq found /\ visit[2] \subseteq found
  /\ \A u \in found : u \in visit[2] \/ ChildrenOf(tree, u) \subseteq found
  /\ \A X \in SUBSET Team :
       visit[1] \subseteq X /\ (\A u \in X : ChildrenOf(tree, u) \subseteq X)
         => found \subseteq visit[2] \cup X

LEMMA VisitsRight ==
  ASSUME IsFiniteSet(Team), NEW tree, NEW f, Walks(tree, f)
  PROVE  \A visit \in Visits : Right(tree, visit, f[visit])
<1> DEFINE N == {n \in Nat : \A visit \in Upto(n) : Right(tree, visit, f[visit])}
<1>1. \A todo, visited \in SUBSET Team : Measure(<<todo, visited>>) \in Nat
  BY MeasureTyped
<1>2. 0 \in N
  <2>1. Upto(0) = {}
    BY <1>1 DEF Upto, Visits
  <2> QED
    BY <2>1
<1>3. ASSUME NEW n \in Nat, n \in N, NEW todo \in SUBSET Team, NEW visited \in SUBSET Team,
             Measure(<<todo, visited>>) < n + 1
      PROVE  Right(tree, <<todo, visited>>, f[<<todo, visited>>])
  <2> DEFINE u == Child(todo)
             rest == Rest(todo)
             first == <<ChildrenOf(tree, u), visited \cup {u}>>
  <2>1. f[<<todo, visited>>] = Visit(tree, f, <<todo, visited>>)
    BY DEF Walks, Visits
  <2>2. ASSUME NEW S \in SUBSET Team, NEW R \in SUBSET Team,
               Measure(<<S, R>>) < Measure(<<todo, visited>>)
        PROVE  Right(tree, <<S, R>>, f[<<S, R>>])
    <3>1. Measure(<<S, R>>) \in Nat /\ Measure(<<todo, visited>>) \in Nat
      BY <1>1
    <3>2. Measure(<<S, R>>) < n
      BY <1>3, <2>2, <3>1
    <3>3. <<S, R>> \in Upto(n)
      BY <3>2 DEF Upto, Visits
    <3> QED
      BY <1>3, <3>3
  <2>3. CASE todo = {}
    <3>1. f[<<todo, visited>>] = visited
      BY <2>1, <2>3, VisitNone
    <3> QED
      BY <2>3, <3>1 DEF Right
  <2>4. ASSUME todo # {}
        PROVE  /\ u \in todo /\ rest \in SUBSET Team /\ visited \cup {u} \in SUBSET Team
               /\ todo = rest \cup {u}
    <3>1. u \in todo /\ rest \in SUBSET Team /\ rest = todo \ {u}
      BY <2>4, VisitsShrink
    <3> HIDE DEF u, rest
    <3> QED
      BY <3>1
  <2>5. CASE Again(todo, visited)
    <3>0. todo # {} /\ u \in visited
      BY <2>5 DEF Again
    <3>1. f[<<todo, visited>>] = f[<<rest, visited>>]
      BY <2>1, <2>5, VisitAgain
    <3>2. Right(tree, <<rest, visited>>, f[<<rest, visited>>])
      BY <2>2, <2>4, <3>0, VisitsShrink
    <3> DEFINE R == f[<<rest, visited>>]
    <3> HIDE DEF R, u, rest
    <3>3. todo \subseteq R
      BY <2>4, <3>0, <3>2 DEF Right, R
    <3>4. ASSUME NEW X \in SUBSET Team, todo \subseteq X,
                 \A w \in X : ChildrenOf(tree, w) \subseteq X
          PROVE  R \subseteq visited \cup X
      BY <2>4, <3>0, <3>2, <3>4 DEF Right, R
    <3>5. R \in SUBSET Team /\ visited \subseteq R
          /\ \A w \in R : w \in visited \/ ChildrenOf(tree, w) \subseteq R
      BY <3>2 DEF Right, R
    <3>6. f[<<todo, visited>>] = R
      BY <3>1 DEF R
    <3> QED
      BY <3>3, <3>4, <3>5, <3>6 DEF Right
  <2>6. CASE Anew(todo, visited)
    <3>0. todo # {} /\ u \notin visited
      BY <2>6 DEF Anew
    <3> DEFINE B == f[first]
               R == f[<<rest, B>>]
    <3>1. f[<<todo, visited>>] = R
      BY <2>1, <2>6, VisitNew
    <3>2. ChildrenOf(tree, u) \in SUBSET Team
      BY DEF ChildrenOf
    <3>3. Right(tree, first, B)
      BY <2>2, <2>4, <3>0, <3>2, VisitsShrink
    <3>4. /\ B \in SUBSET Team /\ ChildrenOf(tree, u) \subseteq B /\ visited \cup {u} \subseteq B
          /\ \A w \in B : w \in visited \/ w = u \/ ChildrenOf(tree, w) \subseteq B
          /\ \A X \in SUBSET Team :
               ChildrenOf(tree, u) \subseteq X /\ (\A w \in X : ChildrenOf(tree, w) \subseteq X)
                 => B \subseteq visited \cup {u} \cup X
      <4> HIDE DEF B, u
      <4> QED
        BY <3>3 DEF Right
    <3>5. Right(tree, <<rest, B>>, R)
      <4> HIDE DEF B
      <4> QED
        BY <2>2, <2>4, <3>0, <3>4, VisitsShrink
    <3>6. /\ R \in SUBSET Team /\ rest \subseteq R /\ B \subseteq R
          /\ \A w \in R : w \in B \/ ChildrenOf(tree, w) \subseteq R
          /\ \A X \in SUBSET Team :
               rest \subseteq X /\ (\A w \in X : ChildrenOf(tree, w) \subseteq X)
                 => R \subseteq B \cup X
      <4> HIDE DEF B, R, rest
      <4> QED
        BY <3>5 DEF Right
    <3>7. u \in todo /\ todo = rest \cup {u}
      BY <2>4, <3>0
    <3> HIDE DEF B, R, u, rest
    <3>8. todo \subseteq R /\ visited \subseteq R
      BY <3>4, <3>6, <3>7
    <3>9. \A w \in R : w \in visited \/ ChildrenOf(tree, w) \subseteq R
      BY <3>4, <3>6
    <3>10. ASSUME NEW X \in SUBSET Team, todo \subseteq X,
                  \A w \in X : ChildrenOf(tree, w) \subseteq X
           PROVE  R \subseteq visited \cup X
      <4>1. u \in X /\ ChildrenOf(tree, u) \subseteq X
        BY <3>7, <3>10
      <4>2. B \subseteq visited \cup X
        BY <3>4, <3>10, <4>1
      <4>3. R \subseteq B \cup X
        BY <3>6, <3>7, <3>10
      <4> QED
        BY <4>2, <4>3
    <3> QED
      BY <3>1, <3>6, <3>8, <3>9, <3>10 DEF Right
  <2> QED
    BY <2>3, <2>5, <2>6 DEF Again, Anew
<1>4. ASSUME NEW n \in Nat, n \in N PROVE n + 1 \in N
  <2>1. ASSUME NEW visit \in Upto(n + 1) PROVE Right(tree, visit, f[visit])
    <3>1. PICK todo \in SUBSET Team, visited \in SUBSET Team : visit = <<todo, visited>>
      BY DEF Upto, Visits
    <3>2. Measure(<<todo, visited>>) < n + 1
      BY <3>1 DEF Upto
    <3> HIDE DEF N
    <3> QED
      BY <1>3, <1>4, <3>1, <3>2
  <2> QED
    BY <2>1
<1>5. \A n \in Nat : n \in N
  <2> HIDE DEF N
  <2> QED
    BY <1>2, <1>4, Induction
<1> SUFFICES ASSUME NEW todo \in SUBSET Team, NEW visited \in SUBSET Team
             PROVE  Right(tree, <<todo, visited>>, f[<<todo, visited>>])
  BY DEF Visits
<1>6. Measure(<<todo, visited>>) \in Nat
  BY <1>1
<1>7. <<todo, visited>> \in Upto(Measure(<<todo, visited>>) + 1)
  BY <1>6 DEF Upto, Visits
<1> QED
  BY <1>5, <1>6, <1>7

\* The walk ends and finds exactly the descendants, in any graph.
THEOREM WalkIsRight ==
  ASSUME IsFiniteSet(Team), NEW tree, NEW t
  PROVE  Walk(tree, t) = Descendants(tree, t)
<1> DEFINE f == CHOOSE after : Walks(tree, after)
           start == <<ChildrenOf(tree, t), {}>>
           found == f[start]
<1>1. Walk(tree, t) = found
  BY WalkIs
<1>2. Walks(tree, f)
  BY WalkExists
<1> HIDE DEF f
<1>3. ChildrenOf(tree, t) \in SUBSET Team
  BY DEF ChildrenOf
<1>4. Right(tree, start, found)
  BY <1>2, <1>3, VisitsRight DEF Visits
<1> HIDE DEF found
<1>5. /\ found \in SUBSET Team /\ ChildrenOf(tree, t) \subseteq found
      /\ \A u \in found : ChildrenOf(tree, u) \subseteq found
      /\ \A X \in SUBSET Team :
           ChildrenOf(tree, t) \subseteq X /\ (\A u \in X : ChildrenOf(tree, u) \subseteq X)
             => found \subseteq X
  BY <1>4 DEF Right
<1>6. Descendants(tree, t) \subseteq found
  <2>1. ClosedUnderChildren(tree, t, found)
    BY <1>5 DEF ClosedUnderChildren, ChildrenOf
  <2> QED
    BY <1>5, <2>1, DescendantsLeast
<1>7. found \subseteq Descendants(tree, t)
  <2> DEFINE D == Descendants(tree, t)
  <2>1. ClosedUnderChildren(tree, t, D) /\ D \in SUBSET Team
    BY DescendantsClosed
  <2> HIDE DEF D
  <2>2. ChildrenOf(tree, t) \subseteq D /\ \A u \in D : ChildrenOf(tree, u) \subseteq D
    BY <2>1 DEF ClosedUnderChildren, ChildrenOf
  <2>3. found \subseteq D
    BY <1>5, <2>1, <2>2
  <2> QED
    BY <2>3 DEF D
<1> QED
  BY <1>1, <1>6, <1>7

\* ... in the tree as it is at any time, and in what one more edit makes of it.
THEOREM WalkAlwaysFindsDescendants == ASSUME IsFiniteSet(Team) PROVE Spec => []WalkFindsDescendants
<1>1. WalkFindsDescendants
  BY WalkIsRight DEF WalkFindsDescendants
<1> QED
  BY <1>1, PTL

=============================================================================
