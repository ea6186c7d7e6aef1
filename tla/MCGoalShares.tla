---------------------------- MODULE MCGoalShares ----------------------------
(***************************************************************************)
(* Requests and constants under which TLC checks GoalShares.               *)
(***************************************************************************)
EXTENDS GoalShares

CONSTANTS t1, t2, t3, r1, r2

MCTeam == {t1, t2, t3}

To(t, w) == [team |-> t, weight |-> w]

Ask(kind, t, w, targets) == [kind |-> kind, team |-> t, weight |-> w, list |-> targets]

\* The forms of the pages: edit (API and SSR), share, delete.
EditRequests ==
  {Ask(k, t, w, << >>) : k \in {"apiUpdate", "ssrUpdate"}, t \in MCTeam, w \in Weight}

SelectRequests ==
  {Ask("ssrShare", NoTeam, 0, s) :
     s \in {<<To(t, 0)>> : t \in MCTeam}
          \cup {<<To(t, 0), To(u, 0)>> : t \in MCTeam, u \in MCTeam}
          \cup {<<To(t1, 0), To(t2, 0), To(t3, 0)>>}}

DropRequests == {Ask("ssrDelete", t, 0, << >>) : t \in MCTeam \cup {NoTeam}}

UIRequests ==
  EditRequests \cup DropRequests
    \cup {q \in SelectRequests : Cardinality(TeamsOf(q.list)) = Len(q.list)}

\* The endpoints of the API that the pages do not use; a share list may name
\* the owner, or a team twice.
APIRequests ==
  {Ask("apiWeight", t, w, << >>) : t \in MCTeam, w \in Weight}
    \cup {Ask("apiUpdate", NoTeam, w, << >>) : w \in Weight}
    \cup {Ask("apiShare", NoTeam, 0, s) :
            s \in {<<To(t1, 1)>>, <<To(t2, 0), To(t3, 1)>>, <<To(t3, 0), To(t2, 1)>>,
                   <<To(t2, 1), To(t2, 0)>>}}

AllRequests == UIRequests \cup APIRequests

\* Fewer of them, for two requests in flight: requests that hold a row, wait
\* for one or write the goal, and lists that lock rows in both orders.
RaceRequests ==
  {Ask("apiShare", NoTeam, 0, <<To(t2, 1), To(t3, 1)>>),
   Ask("apiShare", NoTeam, 0, <<To(t3, 1), To(t2, 1)>>),
   Ask("ssrShare", NoTeam, 0, <<To(t2, 0)>>),
   Ask("apiWeight", t2, 0, << >>),
   Ask("apiUpdate", NoTeam, 0, << >>),
   Ask("ssrDelete", NoTeam, 0, << >>)}

\* Two edits through the API, for the owner and for a sharing team.
StaleRequests == {Ask("apiUpdate", t1, 1, << >>), Ask("apiUpdate", t2, 0, << >>)}

\* The goal of t1, not shared; and shared with t2.
MCInit == Init /\ owner = t1 /\ weight = 0 /\ share = NoShares

MCSharedInit ==
  Init /\ owner = t1 /\ weight = 0 /\ share = [t \in Team |-> IF t = t2 THEN 0 ELSE NoShare]

MCSpec == MCInit /\ Spec

MCSharedSpec == MCSharedInit /\ Spec

\* Bound: the statuses stay as they are.
MCFairSpec ==
  MCInit /\ [][\E r \in Req : Start(r) \/ Statement(r) \/ Abort(r)]_vars /\ Fairness

=============================================================================
