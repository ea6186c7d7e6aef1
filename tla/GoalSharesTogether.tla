------------------------- MODULE GoalSharesTogether -------------------------
(***************************************************************************)
(* What requests about one goal do to each other's effects.                *)
(*                                                                         *)
(* GoalShares with a history variable: for each request, what the others   *)
(* have changed since it read the goal and the shares.  A handler does not *)
(* know this, and no statement depends on it; the properties use it to say *)
(* exactly whose writes a request may lose or be misled by.  A request     *)
(* must do what it was asked to all that nobody else has changed meanwhile.*)
(***************************************************************************)
EXTENDS GoalShares

VARIABLE
  stale    \* stale[r].goal: others changed the goals row since r read it;
           \* stale[r].shares: the teams whose share rows they changed

NothingStale == [goal |-> FALSE, shares |-> {}]

\* The request has read the goals row, or compared its owner with a team.
KnowsGoal(r) ==
  /\ pc[r] \notin Finished \cup {"get"} /\ req[r].kind # "apiShare"
  /\ req[r].kind = "apiWeight" => pc[r] # "ownWeight"

\* It has read the share rows, or its DELETE has fixed its snapshot of them.
KnowsShares(r) ==
  \/ pc[r] \notin Finished \cup {"get", "list"} /\ req[r].kind \in {"ssrShare", "ssrDelete"}
  \/ pc[r] \in {"purge", "upsert", "commit"}

Changed == {t \in Team : share'[t] # share[t]}

\* What others change goes stale; a statement of the request's own does not
\* make it so, and what it reads is fresh.
NoteStale ==
  stale' = [r \in Req |->
              LET other == pc'[r] = pc[r]
              IN [goal   |-> KnowsGoal(r)' /\ (stale[r].goal \/ (other /\ goalRow' # goalRow)),
                  shares |-> IF KnowsShares(r)'
                             THEN stale[r].shares \cup (IF other THEN Changed ELSE {})
                             ELSE {}]]

InitTogether == Init /\ stale = [r \in Req |-> NothingStale]

NextTogether == Next /\ NoteStale

SpecTogether == InitTogether /\ [][NextTogether]_<<vars, stale>>

\* Nobody else has changed what the request has read.
GoalFresh(r) == ~stale[r].goal

AllFresh(r) == GoalFresh(r) /\ stale[r].shares = {}

-----------------------------------------------------------------------------
\* Properties

\* An edit through the API that names a team changes the weight of no other
\* team, unless another request changed the goals row between its read and its
\* update: it writes the weight it read back.
GoalEditIsolated ==
  [][\A r \in Req : /\ Stepped(r) /\ req[r].kind = "apiUpdate" /\ req[r].team # NoTeam
                    /\ GoalFresh(r)
        => OthersUnaffected(req[r].team)]_vars

\* Of a team listed twice the last weight counts.
ListedWeight(s, t) ==
  LET last == CHOOSE k \in DOMAIN s : /\ s[k].team = t
                                      /\ \A j \in DOMAIN s : s[j].team = t => j <= k
  IN s[last].weight

\* A share request that succeeds replaces the list.  Its targets have their
\* weights, whatever other requests do meanwhile; a team that is not among them
\* keeps a share only if another request wrote that row in between.
ReplaceExact ==
  [][\A r \in Req : pc[r] = "commit" /\ pc'[r] = "done" /\ Exists
        => /\ \A t \in TeamsOf(list[r]) : share'[t] = ListedWeight(list[r], t)
           /\ Shared' \subseteq TeamsOf(list[r]) \cup stale[r].shares]_vars

DroppingTeam(r) ==
  IF req[r].team # NoTeam THEN req[r].team ELSE seen[r].owner

\* A team that removes the goal from its page takes it from nobody else, nor
\* changes anybody's weight: not while the owner hands it over, and not by
\* deleting a goal that others share.  Only an owner that acts on a goals row or
\* shares that another request has changed may do that.
DropAffectsOnlyDropper ==
  [][\A r \in Req : /\ Stepped(r) /\ req[r].kind = "ssrDelete" /\ pc[r] # "get"
                    /\ AllFresh(r) \/ req[r].team \notin {NoTeam, seen[r].owner}
        => OthersUnaffected(DroppingTeam(r))]_vars

\* The page lists the goal to team t with goals.weight only while t, its owner,
\* has no share row: one hides that weight and counts among the takers of the
\* goal.  (A share list that names the owner makes one, and so does a hand-over
\* that fails between its two statements.)
HidesOwnWeight(o, s) == o \in Team /\ s[o] # NoShare

\* ... and no longer sees it itself, unless its own share row was in the way or
\* another request changed what it had read.
DropTakesEffect ==
  [][\A r \in Req : /\ pc[r] # "done" /\ pc'[r] = "done" /\ req[r].kind = "ssrDelete"
                    /\ AllFresh(r) /\ ~HidesOwnWeight(seen[r].owner, seen[r].share)
        => \A t \in Team : t = DroppingTeam(r) => ~Visible(t)']_vars

\* The team whose weight a request edits: the owner's, if its form names none.
EditedTeam(r) == IF req[r].team = NoTeam THEN owner ELSE req[r].team

\* A weight whose edit was acknowledged is the weight the team sees, unless its
\* own share row hides it, or the goal changed its owner between the statements
\* of the edit.
AcknowledgedWeightSeen ==
  [][\A r \in Req : /\ pc[r] # "done" /\ pc'[r] = "done"
                    /\ req[r].kind \in {"apiWeight", "apiUpdate", "ssrUpdate"}
                    /\ GoalFresh(r) /\ ~HidesOwnWeight(owner, share)
        => \A t \in Team : t = EditedTeam(r) /\ Visible(t)
                             => SeenWeight(t)' = req[r].weight]_vars

\* The weight a team saw when the request read the goal and its shares; 0 for a
\* team that did not have it.
WeightBefore(r, t) ==
  IF seen[r].share[t] # NoShare THEN seen[r].share[t]
  ELSE IF t = seen[r].owner THEN seen[r].weight
  ELSE 0

\* A share request from the page shows the goal to the selected teams and to no
\* other, except that a team's share row may be one another request wrote
\* meanwhile.  A selected team keeps the weight it saw, a new one starts at 0;
\* but an owner that stays owner and saw the weight of a share row loses that
\* row, and sees goals.weight.
SelectionTakesEffect ==
  [][\A r \in Req : /\ pc[r] = "commit" /\ pc'[r] = "done" /\ req[r].kind = "ssrShare"
                    /\ GoalFresh(r)
        => \A t \in Team \ stale[r].shares :
              SeenWeight(t)' = IF t \notin TeamsOf(Selected(r)) THEN NoShare
                               ELSE IF t = seen[r].owner /\ HidesOwnWeight(t, seen[r].share)
                                    THEN seen[r].weight
                               ELSE WeightBefore(r, t)]_vars

=============================================================================
