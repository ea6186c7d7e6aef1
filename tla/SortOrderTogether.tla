------------------------- MODULE SortOrderTogether -------------------------
(***************************************************************************)
(* How far a move goes when others change the list under it.               *)
(*                                                                         *)
(* SortOrder with a history variable: for each move, the rows that others  *)
(* moved, deleted, transferred or created since its neighbour query took   *)
(* its snapshot.  The statement waits for locks with this snapshot in hand *)
(* and may end far from it, so a move says little about those rows; among  *)
(* all others it must do what the button promises.                         *)
(***************************************************************************)
EXTENDS SortOrder

VARIABLE
  changed   \* changed[r]: rows that changed since the snapshot of r's move

Changed == {i \in Item : order'[i] # order[i] \/ scope'[i] # scope[i]}

\* A move changes no row before it ends, so all changes noted are others'.
NoteChanged ==
  changed' = [r \in Req |->
                IF pc'[r] \in {"neighbour", "swap"} THEN changed[r] \cup Changed ELSE {}]

InitTogether == Init /\ changed = [r \in Req |-> {}]

NextTogether == Next /\ NoteChanged

SpecTogether == InitTogether /\ [][NextTogether]_<<vars, changed>>

-----------------------------------------------------------------------------
\* Properties

\* Row k lies ahead of the move in slot r, which leaves it behind: it exchanges
\* its row with one further on.
PassedOver(r, k) ==
  Beyond(dir[r], order[k], order[item[r]]) /\ Beyond(dir[r], order[nbr[r]], order[k])

\* A move goes one place, and only stays when it is at the end: whatever else
\* happened while it waited for its neighbour, it passes over no row that nobody
\* has touched since its query, nor finds none to change places with while there
\* is such a row ahead.  (Unless the neighbour itself was moved on meanwhile: the
\* two are then exchanged over the rows between.)
MovesByOnePlace ==
  [][\A r \in Req : pc'[r] = "done" =>
        \A k \in Rows(home[r]) \ changed[r] :
           /\ pc[r] = "neighbour" => ~Beyond(dir[r], order[k], order[item[r]])
           /\ pc[r] = "swap" /\ nbr[r] \notin changed[r] => ~PassedOver(r, k)]_<<vars, changed>>

=============================================================================
