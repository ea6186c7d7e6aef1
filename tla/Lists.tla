------------------------------- MODULE Lists -------------------------------
(***************************************************************************)
(* What SortOrder promises: rows kept in lists, one per scope, without any *)
(* number, lock or request.  A row enters at the end of a list, changes    *)
(* places with another one of its list, moves to another list, and leaves. *)
(* A list is total, except where a row that came from another list may     *)
(* stand level with one of its own ("mixed").                              *)
(***************************************************************************)
CONSTANTS Item, Scope, Unborn, Gone

VARIABLES
  scope,  \* scope[i]: the list of row i, Unborn or Gone
  before, \* the pairs <<i, j>> of one list in which i stands before j
  mixed   \* the lists that were given a row of another list

vars == <<scope, before, mixed>>

Rows(s) == {i \in Item : scope[i] = s}

\* The pairs that row i is in, and the pairs it could be in among the rows R.
Of(i) == {p \in before : i \in {p[1], p[2]}}

Around(i, R) == (R \X {i}) \cup ({i} \X R)

TotalOn(R) ==
  /\ \A i, j \in R : i # j => <<i, j>> \in before \/ <<j, i>> \in before
  /\ \A i, j \in R : <<i, j>> \in before => <<j, i>> \notin before
  /\ \A i, j, k \in R : <<i, j>> \in before /\ <<j, k>> \in before => <<i, k>> \in before

Init ==
  /\ scope \in [Item -> Scope \cup {Unborn}]
  /\ mixed = {}
  /\ before \subseteq UNION {Rows(s) \X Rows(s) : s \in Scope}
  /\ \A s \in Scope : TotalOn(Rows(s))

\* i stands before j and they change places; everything between them stays.
Exchange(i, j) ==
  LET Other(k) == IF k = i THEN j ELSE IF k = j THEN i ELSE k
  IN /\ <<i, j>> \in before
     /\ <<j, i>> \in before'
     /\ UNCHANGED <<scope, mixed>>
     /\ before' = {p \in Item \X Item : <<Other(p[1]), Other(p[2])>> \in before}

Append(i, s) ==
  /\ scope[i] = Unborn
  /\ scope' = [scope EXCEPT ![i] = s]
  /\ UNCHANGED mixed
  /\ IF s \in mixed
     THEN \E P \in SUBSET Around(i, Rows(s)) : before' = before \cup P
     ELSE before' = before \cup (Rows(s) \X {i})

Remove(i) ==
  /\ scope[i] \in Scope
  /\ scope' = [scope EXCEPT ![i] = Gone]
  /\ before' = before \ Of(i)
  /\ UNCHANGED mixed

\* It takes no particular place in the new list.
Transfer(i, s) ==
  /\ scope[i] \in Scope \ {s}
  /\ scope' = [scope EXCEPT ![i] = s]
  /\ \E P \in SUBSET Around(i, Rows(s)) : before' = (before \ Of(i)) \cup P
  /\ mixed' = mixed \cup {s}

Next ==
  \/ \E p \in before \ before' : Exchange(p[1], p[2])
  \/ \E i \in Item, s \in Scope : Append(i, s) \/ Transfer(i, s)
  \/ \E i \in Item : Remove(i)

Spec == Init /\ [][Next]_vars

=============================================================================
