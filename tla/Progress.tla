------------------------------ MODULE Progress ------------------------------
(***************************************************************************)
(* The progress of a goal, as internal/okr computes it from its key        *)
(* results, and the requests that change what it is computed from.         *)
(*                                                                         *)
(* The goal has a key result with a metric (percent, or linear, which has  *)
(* no checkpoints), a project with stages, and a boolean one.  Requests    *)
(* are atomic here; their statements are in module KeyResults.             *)
(*                                                                         *)
(* Metrics are integers and quotients are exact: float64 rounds them, which*)
(* can only show where an exact result lies halfway between two percents.  *)
(***************************************************************************)
EXTENDS Integers, FiniteSets, Sequences, SequencesExt, Functions

CONSTANTS
  Metric,         \* values of the metric
  KRPercent,      \* percents of checkpoints
  StageWeight,    \* weights of stages
  Weights,        \* weights that clients give the three key results
  MaxCheckpoints, \* bound: rows of kr_percent_checkpoints
  MaxStages       \* bound: rows of kr_project_stages

KeyResult == {"metric", "project", "boolean"}

\* The checks of HandleAddCheckpoint, parseProjectStages and the handlers that
\* set the weight of a key result.
ASSUME ConstantsAssumption ==
  /\ Metric \subseteq Int
  /\ KRPercent \subseteq 0..100
  /\ StageWeight \subseteq 1..100
  /\ Weights \subseteq [KeyResult -> 0..100]
  /\ MaxCheckpoints \in Nat /\ MaxStages \in Nat \ {0}

VARIABLES
  metric,      \* kr_percent_meta or kr_linear_meta of the first key result
  checkpoints, \* the rows of kr_percent_checkpoints
  stages,      \* the rows of kr_project_stages, in their order
  isDone,      \* is_done of the boolean key result
  weight       \* key_results.weight

vars == <<metric, checkpoints, stages, isDone, weight>>

-----------------------------------------------------------------------------
\* Package okr

\* clampPercent of n/d, for d > 0: math.Round takes halves up.
ClampPercent(n, d) ==
  IF n < 0 THEN 0 ELSE IF n > 100 * d THEN 100 ELSE (2 * n + d) \div (2 * d)

\* Mutant: the distance to the target, whichever way the metric goes.
LinearProgressRising(start, target, current) ==
  IF start = target THEN 0
  ELSE ClampPercent(100 * (current - start), IF start < target THEN target - start ELSE start - target)

LinearProgress(start, target, current) ==
  IF start = target THEN 0
  ELSE IF start < target THEN ClampPercent(100 * (current - start), target - start)
  ELSE ClampPercent(100 * (start - current), start - target)

Point(value, percent) == [value |-> value, percent |-> percent]

\* Mutant: the share of the way to go instead of the way gone.
InterpolateBack(left, right, current) ==
  ClampPercent(right.percent * (right.value - left.value)
                 + (current - left.value) * (left.percent - right.percent),
               right.value - left.value)

Interpolate(left, right, current) ==
  ClampPercent(left.percent * (right.value - left.value)
                 + (current - left.value) * (right.percent - left.percent),
               right.value - left.value)

\* The outcomes of PercentProgress.  The first segment that current lies in
\* begins at a point below it; sort.Slice and ORDER BY metric_value leave open
\* which one, if points share a value, and likewise where it ends.
PercentProgress(start, target, current, cps) ==
  LET points == cps \cup {Point(start, 0), Point(target, 100)}
      below == {p \in points : p.value < current}
      above == {p \in points : p.value >= current}
      lefts == {p \in below : \A q \in below : q.value <= p.value}
      rights == {p \in above : \A q \in above : p.value <= q.value}
  IN IF start = target THEN {0}
     ELSE IF cps = {} THEN {LinearProgress(start, target, current)}
     ELSE IF below = {} THEN {0}
     ELSE IF \A p \in points : p.value <= current THEN {100}
     ELSE {Interpolate(l, r, current) : l \in lefts, r \in rights}

\* Mutant: the total is taken as it is.
ProjectProgressUnclamped(s) ==
  SumFunction([i \in DOMAIN s |-> IF s[i].done THEN s[i].weight ELSE 0])

ProjectProgress(s) ==
  LET total == SumFunction([i \in DOMAIN s |-> IF s[i].done THEN s[i].weight ELSE 0])
  IN IF total > 100 THEN 100 ELSE total

BooleanProgress(done) == IF done THEN 100 ELSE 0

\* Mutant: the mean is taken over all of them, by number.
WeightedMeanByCount(p, w) ==
  LET n == Cardinality(DOMAIN p)
      sum == SumFunction(p)
  IN IF n = 0 THEN 0 ELSE (2 * sum + n) \div (2 * n)

\* GoalProgress over key results, PeriodProgress over goals: the mean of p with
\* weights w.
WeightedMean(p, w) ==
  LET sumWeight == SumFunction(w)
      weighted  == SumFunction([k \in DOMAIN p |-> p[k] * w[k]])
  IN IF sumWeight = 0 THEN 0 ELSE (2 * weighted + sumWeight) \div (2 * sumWeight)

\* CalculateKRProgress for each key result: the outcomes for the goal.
KRProgress ==
  LET ofMetric == IF metric.kind = "percent"
                  THEN PercentProgress(metric.start, metric.target, metric.current, checkpoints)
                  ELSE {LinearProgress(metric.start, metric.target, metric.current)}
  IN {[metric |-> p, project |-> ProjectProgress(stages), boolean |-> BooleanProgress(isDone)] :
        p \in ofMetric}

GoalProgress == {WeightedMean(p, weight) : p \in KRProgress}

-----------------------------------------------------------------------------
\* The form of a project key result

Refused == << >>

\* The members of S among 1..n, in order: the places at which a loop does not
\* continue.
InOrder(n, S) ==
  LET upTo[k \in 0..n] == IF k = 0 THEN << >>
                          ELSE IF k \in S THEN Append(upTo[k - 1], k) ELSE upTo[k - 1]
  IN upTo[n]

Named(form) == InOrder(Len(form.titles), {i \in DOMAIN form.titles : form.titles[i]})

\* Mutant: marks are looked up by the place in the result.
ParseByPlace(form) ==
  LET named == Named(form)
  IN IF \E i \in DOMAIN named : form.weights[named[i]] \notin 1..100
     THEN Refused
     ELSE [i \in DOMAIN named |->
             [weight |-> form.weights[named[i]], done |-> i \in DOMAIN form.dones /\ form.dones[i]]]

\* parseProjectStages: titles, weights and marks come as three lists and belong
\* together by position; a row without title is no stage.
ParseProjectStages(form) ==
  LET named == Named(form)
  IN IF \E i \in DOMAIN named : form.weights[named[i]] \notin 1..100
     THEN Refused
     ELSE [i \in DOMAIN named |->
             [weight |-> form.weights[named[i]],
              done |-> named[i] \in DOMAIN form.dones /\ form.dones[named[i]]]]

\* The page's form for the stages in rows, with the titles in blank emptied: a
\* row's mark is a <select>, which a browser always submits.
PageForm(rows, blank) ==
  [titles |-> [i \in DOMAIN rows |-> i \notin blank],
   weights |-> [i \in DOMAIN rows |-> rows[i].weight],
   dones |-> [i \in DOMAIN rows |-> rows[i].done]]

\* The same rows in the dialog of the browser script: marks are checkboxes, and
\* a browser submits those that are checked.
DialogForm(rows, blank) ==
  [PageForm(rows, blank) EXCEPT !.dones = SelectSeq(@, LAMBDA done : done)]

-----------------------------------------------------------------------------
\* Requests

UpdateCurrent(v) ==
  /\ metric' = [metric EXCEPT !.current = v]
  /\ UNCHANGED <<checkpoints, stages, isDone, weight>>

\* The form of the key result, of the same kind: checkpoints stay as they are.
EditMetric(start, target, current) ==
  /\ start # target
  /\ metric' = [metric EXCEPT !.start = start, !.target = target, !.current = current]
  /\ UNCHANGED <<checkpoints, stages, isDone, weight>>

AddCheckpoint(v, percent) ==
  /\ Cardinality(checkpoints) < MaxCheckpoints
  /\ checkpoints' = checkpoints \cup {Point(v, percent)}
  /\ UNCHANGED <<metric, stages, isDone, weight>>

ToggleStage(i, done) ==
  /\ stages' = [stages EXCEPT ![i].done = done]
  /\ UNCHANGED <<metric, checkpoints, isDone, weight>>

\* A form for one more stage, at the place that its sort_order gives; whether
\* the weights add up to more than 100 is not checked.
AddStage(i, w) ==
  /\ Len(stages) < MaxStages
  /\ stages' = InsertAt(stages, i, [weight |-> w, done |-> FALSE])
  /\ UNCHANGED <<metric, checkpoints, isDone, weight>>

\* Mutant: a form without stages is accepted.
SaveAnyStages(form) ==
  /\ stages' = ParseProjectStages(form)
  /\ UNCHANGED <<metric, checkpoints, isDone, weight>>

\* A submitted form replaces the stages, unless it is refused.
SaveStages(form) ==
  /\ ParseProjectStages(form) # Refused
  /\ stages' = ParseProjectStages(form)
  /\ UNCHANGED <<metric, checkpoints, isDone, weight>>

SetDone(done) ==
  /\ isDone' = done
  /\ UNCHANGED <<metric, checkpoints, stages, weight>>

SetWeights(w) ==
  /\ weight' = w
  /\ UNCHANGED <<metric, checkpoints, stages, isDone>>

Stage == [weight : StageWeight, done : BOOLEAN]

Init ==
  /\ metric \in {m \in [kind : {"percent", "linear"}, start : Metric, target : Metric,
                        current : Metric] : m.start # m.target}
  /\ checkpoints = {}
  /\ stages \in BoundedSeq(Stage, MaxStages) \ {<< >>}
  /\ isDone \in BOOLEAN
  /\ weight \in Weights

Next ==
  \/ \E v \in Metric : UpdateCurrent(v)
  \/ \E start, target, current \in Metric : EditMetric(start, target, current)
  \/ \E v \in Metric, percent \in KRPercent : AddCheckpoint(v, percent)
  \/ \E i \in DOMAIN stages, done \in BOOLEAN : ToggleStage(i, done)
  \/ \E i \in 1..(Len(stages) + 1), w \in StageWeight : AddStage(i, w)
  \/ \E blank \in SUBSET (DOMAIN stages) : SaveStages(PageForm(stages, blank))
  \/ \E blank \in SUBSET (DOMAIN stages) : SaveStages(DialogForm(stages, blank))
  \/ \E done \in BOOLEAN : SetDone(done)
  \/ \E w \in Weights : SetWeights(w)

Spec == Init /\ [][Next]_vars

-----------------------------------------------------------------------------
\* Properties

\* Every variable has its type; a project that has stages keeps one.
TypeOK ==
  /\ metric \in [kind : {"percent", "linear"}, start : Metric, target : Metric, current : Metric]
  /\ metric.start # metric.target
  /\ checkpoints \subseteq [value : Metric, percent : KRPercent]
  /\ stages \in Seq(Stage) \ {<< >>}
  /\ isDone \in BOOLEAN
  /\ weight \in Weights

\* Progress is a percentage, whatever checkpoints and stages there are.
ProgressBounded == \A p \in KRProgress : \A k \in KeyResult : p[k] \in 0..100

\* The checkpoints lead from start to target: without them, or for a rising
\* metric with increasing percents at distinct values in between.
Sensible ==
  metric.kind = "percent" =>
     \/ checkpoints = {}
     \/ /\ \A p \in checkpoints : metric.start < p.value /\ p.value < metric.target
        /\ \A p, q \in checkpoints : p.value < q.value => p.percent <= q.percent
        /\ \A p, q \in checkpoints : p.value = q.value => p = q

\* Nearer to the target, on the way from start.
Nearer(m, n) ==
  /\ m.start = n.start /\ m.target = n.target
  /\ \/ m.target > m.start /\ m.current >= n.current
     \/ m.target < m.start /\ m.current <= n.current

\* Progress made on any key result never lowers the progress of the goal.
ProgressNeverLost ==
  [][/\ Sensible /\ checkpoints' = checkpoints /\ weight' = weight
     /\ Nearer(metric', metric)
     /\ isDone => isDone'
     /\ Len(stages') = Len(stages)
     /\ \A i \in DOMAIN stages : /\ stages'[i].weight = stages[i].weight
                                 /\ stages[i].done => stages'[i].done
     => \A p \in GoalProgress, q \in GoalProgress' : p <= q]_vars

\* A metric that has reached a checkpoint shows its percent, 0 at the start and
\* 100 at the target.
CheckpointsMet ==
  metric.kind = "percent" /\ Sensible =>
     \A c \in checkpoints \cup {Point(metric.start, 0), Point(metric.target, 100)} :
        metric.current = c.value => \A p \in KRProgress : p.metric = c.percent

\* The goal's progress lies between the least and the greatest of the key
\* results that have a weight.
GoalInBetween ==
  LET weighing == {k \in KeyResult : weight[k] > 0}
  IN \A p \in KRProgress :
       weighing # {} =>
         /\ \E k \in weighing : p[k] <= WeightedMean(p, weight)
         /\ \E k \in weighing : WeightedMean(p, weight) <= p[k]

Remaining(rows, blank) ==
  LET kept == InOrder(Len(rows), DOMAIN rows \ blank)
  IN [i \in DOMAIN kept |-> rows[kept[i]]]

\* What a page submits is what it showed, without the rows whose title was
\* emptied: every stage keeps its own weight and mark.
FormKeepsMarks ==
  \A blank \in SUBSET (DOMAIN stages) :
     ParseProjectStages(PageForm(stages, blank)) = Remaining(stages, blank)

=============================================================================
