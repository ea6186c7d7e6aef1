------------------------ MODULE MCGoalSharesTogether ------------------------
(***************************************************************************)
(* Requests and constants under which TLC checks GoalSharesTogether.       *)
(***************************************************************************)
EXTENDS MCGoalShares, GoalSharesTogether, TLC

VARIABLE
  alone   \* one request at a time, or two: fixed at the start

\* For two of them in flight: edits of the weights of either table, removals by
\* the owner and by a sharing team, selections that keep and that move the goal,
\* and share lists.
PairRequests ==
  {Ask("apiShare", NoTeam, 0, <<To(t1, 1)>>),
   Ask("apiWeight", t1, 1, << >>),
   Ask("apiUpdate", t2, 0, << >>),
   Ask("ssrShare", NoTeam, 0, <<To(t1, 0), To(t2, 0)>>),
   Ask("ssrShare", NoTeam, 0, <<To(t2, 0)>>),
   Ask("ssrDelete", NoTeam, 0, << >>),
   Ask("ssrDelete", t2, 0, << >>)}

TogetherRequests == AllRequests \cup PairRequests

SlotSymmetry == Permutations(Req)

\* Any request on any goal, one at a time, with statuses changing; or two of
\* PairRequests at once, on a goal that is not shared, in periods that are not
\* locked.
MCInitTogether ==
  /\ InitTogether
  /\ alone \in BOOLEAN
  /\ ~alone => MCInit /\ status = [t \in Team |-> "in_progress"]

Crowd ==
  IF alone THEN Cardinality({r \in Req : pc'[r] # "done"}) <= 1
  ELSE status' = status /\ \A r \in Req : req'[r] \in PairRequests \cup {NoRequest}

MCSpecTogether ==
  MCInitTogether /\ [][Next /\ Crowd /\ NoteStale /\ UNCHANGED alone]_<<vars, stale, alone>>

=============================================================================
