----------------------------- MODULE MCSortOrder -----------------------------
(***************************************************************************)
(* Small tables of rows under which TLC checks SortOrder and               *)
(* SortOrderTogether.                                                      *)
(***************************************************************************)
EXTENDS SortOrderTogether, FiniteSets

CONSTANTS r1, r2, s1, s2

\* All rows but the last two exist, numbered 1, 2, ... in the scope s1; then
\* comes the one row of the other scope, and an id still to be used.
TwoLists ==
  LET k == Cardinality(Item) - 2
  IN /\ scope = [i \in Item |-> IF i <= k THEN s1 ELSE IF i = k + 1 THEN s2 ELSE Unborn]
     /\ order = [i \in Item |-> IF i <= k THEN i ELSE IF i = k + 1 THEN 1 ELSE 0]

\* All rows are in the scope s1, and stay there.
OneList ==
  /\ scope = [i \in Item |-> s1]
  /\ order = [i \in Item |-> i]

\* Bound: at most one row leaves its list, deleted or transferred to s2, and none
\* leaves OneList.  It keeps no request from going on.
Leaving == {i \in Item : Live(i) /\ scope'[i] # scope[i]}

OneLeaves ==
  Leaving # {} =>
    Rows(s1) # Item /\ mixed = {} /\ Rows(Gone) = {} /\ mixed' \subseteq {s2}

\* Bound: in OneList, where the slots do the same, r1 moves a row with an id no
\* greater than that of r2's.
SlotsInOrder ==
  Rows(s1) = Item /\ item'[r1] # NoItem /\ item'[r2] # NoItem => item'[r1] <= item'[r2]

\* Bound: no move of a row that stands alone in its list is asked for, nor one of
\* a row already deleted.
NoneAlone ==
  \A r \in Req : item'[r] \notin {item[r], NoItem} => Rows(scope[item'[r]]) # {item'[r]}

\* Bound: a move is not interrupted before its neighbour query, nor a creation
\* between the two halves of its INSERT: all that is left of these is a row lock.
LateInterrupts == \A r \in Req : pc[r] \in {"scan", "insert"} => pc'[r] # "failed"

\* Bound: rows are created in s1, or next to a row that came from there.
CreatedInLists ==
  \A r \in Req : pc'[r] = "insert" => home'[r] = s1 \/ mixed # {}

Bounds ==
  OneLeaves /\ SlotsInOrder /\ NoneAlone /\ LateInterrupts /\ CreatedInLists

ListsFairSpec ==
  /\ (TwoLists \/ OneList) /\ InitTogether
  /\ [][NextTogether /\ Bounds]_<<vars, changed>>
  /\ Fairness

\* One client at a time, transfers included.
OneAtATimeSpec ==
  /\ TwoLists /\ InitTogether
  /\ [][NextTogether /\ (scope' # scope => \A r \in Req : pc[r] \in Finished)]_<<vars, changed>>

=============================================================================
