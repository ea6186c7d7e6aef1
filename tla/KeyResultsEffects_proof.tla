----------------------- MODULE KeyResultsEffects_proof -----------------------
(***************************************************************************)
(* For any number of key results, requests and stages: what a request that *)
(* succeeds has achieved, and that it changes only its own key result.     *)
(*                                                                         *)
(* The argument: whoever writes to a key result disturbs the requests that *)
(* others have under way for it, so what a request has achieved halfway    *)
(* (Achieved) lasts until it is disturbed; and the ids of stages are never *)
(* given out twice, so a list of stages read in one statement still means  *)
(* stages of the same key result in the next ones (ToMark).                *)
(***************************************************************************)
EXTENDS KeyResults_proof, FiniteSetTheorems

\* The ids that the sequence gave out tell stages apart.
StagesNumbered ==
  /\ \A s \in stages : s.id <= lastStage
  /\ \A s, t \in stages : s.id = t.id => s = t

\* The statements that a request gets to, by what it is.
Path(r) ==
  /\ pc[r] = "create" => req[r].op = "create"
  /\ pc[r] \notin Finished =>
       /\ req[r].op \in EditOp => pc[r] \in {"create", "update", "meta", "clear", "insert"}
       /\ req[r].op = "percent" => pc[r] \in {"read", "current"}
       /\ req[r].op = "boolean" => pc[r] \in {"read", "meta"}
       /\ req[r].op = "project" => pc[r] \in {"read", "list", "mark"}

\* The stages that a request still has to mark are of its key result, those of
\* them that are still there.
ToMark(r) ==
  /\ \A l \in listed[r] : l.id <= lastStage
  /\ pc[r] = "mark" /\ req[r].op # "toggle" =>
       \A s \in stages, l \in listed[r] : s.id = l.id => s.kr = req[r].kr

\* S are the stages that the first i - 1 marks of a form call for.
Inserted(S, flags, i) ==
  /\ IsFiniteSet(S) /\ Cardinality(S) = i - 1
  /\ \A j \in 1..(i - 1) : \E s \in S : s.ord = j /\ s.done = flags[j]

\* What a request that nobody has disturbed has brought about, halfway.
Achieved(r) ==
  ~disturbed[r] =>
    LET k == req[r].kr
    IN /\ pc[r] \in {"meta", "clear", "insert"} /\ req[r].op \in EditOp /\ Alive(k)
            => row[k].kind = req[r].kind
       /\ pc[r] = "insert" /\ Alive(k) => Inserted(StagesOf(k), req[r].flags, idx[r])
       /\ pc[r] \in {"meta", "current"} /\ req[r].op \in {"percent", "boolean"}
            => row[k].kind = req[r].kind
       /\ pc[r] = "mark" /\ req[r].op = "project"
            => \A s \in StagesOf(k) : s.id \in req[r].ids =>
                 s.done = req[r].value \/ \E l \in listed[r] : l.id = s.id

EffectInv ==
  KeyResultInv /\ StagesNumbered /\ \A r \in Req : Path(r) /\ ToMark(r) /\ Achieved(r)

-----------------------------------------------------------------------------
\* What a step leaves alone.

LEMMA ListedFramed ==
  ASSUME TypeOK, NEW r \in Req, Step(r), NEW q \in Req \ {r}
  PROVE  listed'[q] = listed[q]
BY DEF TypeOK, Step, Start, CreateRow, UpdateRow, UpsertMeta, ClearStages, InsertStage, ReadKind,
       UpdateCurrent, ListStages, MarkStage, AddStage, DeleteRow, Abort, Finish, GoTo

\* Only one key result's row is written, and none is ever taken out.
LEMMA RowsFramed ==
  ASSUME TypeOK, NEW r \in Req, Claim(r), Step(r)
  PROVE  /\ DOMAIN row \subseteq DOMAIN row'
         /\ \A k \in DOMAIN row : k # req[r].kr \/ pc[r] = "create" => row'[k] = row[k]
<1>1. CASE CreateRow(r)
  <2>1. req[r].kind \in Kind
    BY <1>1 DEF CreateRow, Claim, Finished, Request
  <2> QED
    BY <1>1, <2>1, RowAdded DEF CreateRow
<1>2. CASE UpdateRow(r)
  <2> DEFINE k == req[r].kr
  <2>1. k \in DOMAIN row /\ req[r].kind \in Kind /\ pc[r] # "create"
    BY <1>2 DEF UpdateRow, Claim, Finished, Request
  <2>2. CASE Alive(k)
    BY <1>2, <2>1, <2>2, RowRekinded DEF UpdateRow, Rekinded
  <2>3. CASE ~Alive(k)
    BY <1>2, <2>3 DEF UpdateRow
  <2> QED
    BY <2>2, <2>3
<1>3. CASE UpsertMeta(r)
  <2> DEFINE k == req[r].kr
  <2>1. k \in DOMAIN row /\ req[r].kind \in Measured /\ req[r].value \in Value /\ pc[r] # "create"
    BY <1>3 DEF UpsertMeta, Claim, Finished, Request
  <2>2. CASE Alive(k)
    BY <1>3, <2>1, <2>2, RowMeasured DEF UpsertMeta, Remeasured
  <2>3. CASE ~Alive(k)
    BY <1>3, <2>3 DEF UpsertMeta
  <2> QED
    BY <2>2, <2>3
<1>4. CASE UpdateCurrent(r)
  <2> DEFINE k == req[r].kr
             t == req[r].kind
  <2>1. k \in DOMAIN row /\ t \in Measured /\ req[r].value \in Value /\ pc[r] # "create"
    BY <1>4 DEF UpdateCurrent, Claim, Finished, Request
  <2>2. CASE row[k].meta[t] # NoValue
    BY <1>4, <2>1, <2>2, RowMeasured DEF UpdateCurrent, Remeasured
  <2>3. CASE row[k].meta[t] = NoValue
    BY <1>4, <2>3 DEF UpdateCurrent
  <2> QED
    BY <2>2, <2>3
<1>5. CASE DeleteRow(r)
  <2>1. req[r].kr \in DOMAIN row /\ Gone \in Row /\ pc[r] # "create"
    BY <1>5 DEF DeleteRow, Claim, Finished, Gone, NoMeta, Row
  <2> QED
    BY <1>5, <2>1, RowReplaced DEF DeleteRow
<1>6. CASE ~(CreateRow(r) \/ UpdateRow(r) \/ UpsertMeta(r) \/ UpdateCurrent(r) \/ DeleteRow(r))
  BY <1>6 DEF Step, Start, ClearStages, InsertStage, ReadKind, ListStages, MarkStage, AddStage,
     Abort, data
<1> QED
  BY <1>1, <1>2, <1>3, <1>4, <1>5, <1>6

\* Marking a stage keeps its id, its key result and its place.
LEMMA MarkedIs ==
  ASSUME TypeOK, NEW id, NEW done, NEW s
  PROVE  /\ s \in Marked(stages, id, done)
              => \E y \in stages : /\ s.id = y.id /\ s.kr = y.kr /\ s.ord = y.ord
                                   /\ y.id = id => s = [y EXCEPT !.done = done] /\ s.done = done
                                   /\ y.id # id => s = y
         /\ s \in stages /\ s.id # id => s \in Marked(stages, id, done)
<1>1. \A y \in stages : LET z == [y EXCEPT !.done = done]
                        IN z.id = y.id /\ z.kr = y.kr /\ z.ord = y.ord /\ z.done = done
  BY DEF TypeOK, Stage
<1>2. ASSUME s \in Marked(stages, id, done)
      PROVE  \E y \in stages : /\ s.id = y.id /\ s.kr = y.kr /\ s.ord = y.ord
                               /\ y.id = id => s = [y EXCEPT !.done = done] /\ s.done = done
                               /\ y.id # id => s = y
  <2>1. PICK y \in stages : s = IF y.id = id THEN [y EXCEPT !.done = done] ELSE y
    BY <1>2 DEF Marked
  <2> QED
    BY <1>1, <2>1
<1>3. s \in stages /\ s.id # id => s \in Marked(stages, id, done)
  BY DEF Marked
<1> QED
  BY <1>2, <1>3

\* The stages of a key result that no statement of the step is about.
LEMMA StagesFramed ==
  ASSUME TypeOK, NEW r \in Req, Step(r), NEW k,
         k # req[r].kr \/ pc[r] = "create",
         pc[r] = "mark" => \A l \in listed[r], s \in StagesOf(k) : s.id # l.id
  PROVE  StagesOf(k)' = StagesOf(k)
<1>1. CASE InsertStage(r) \/ AddStage(r)
  <2>1. \/ stages' = stages
        \/ \E n : n.kr = req[r].kr /\ stages' = stages \cup {n}
    BY <1>1 DEF InsertStage, AddStage
  <2>2. k # req[r].kr
    BY <1>1 DEF InsertStage, AddStage
  <2> QED
    BY <2>1, <2>2 DEF StagesOf
<1>2. CASE ClearStages(r) \/ DeleteRow(r)
  BY <1>2 DEF ClearStages, DeleteRow, StagesOf
<1>3. CASE MarkStage(r)
  <2>1. PICK l \in listed[r] : stages' = Marked(stages, l.id, req[r].value)
    BY <1>3 DEF MarkStage
  <2>2. \A s \in StagesOf(k) : s.id # l.id
    BY <1>3 DEF MarkStage
  <2>3. ASSUME NEW s \in StagesOf(k)' PROVE s \in StagesOf(k)
    BY <2>1, <2>2, MarkedIs DEF StagesOf
  <2>4. ASSUME NEW s \in StagesOf(k) PROVE s \in StagesOf(k)'
    BY <2>1, <2>2, MarkedIs DEF StagesOf
  <2> QED
    BY <2>3, <2>4
<1>4. CASE ~(InsertStage(r) \/ AddStage(r) \/ ClearStages(r) \/ DeleteRow(r) \/ MarkStage(r))
  <2>1. stages' = stages
    BY <1>4 DEF Step, Start, CreateRow, UpdateRow, UpsertMeta, ReadKind, UpdateCurrent,
       ListStages, Abort, data
  <2> QED
    BY <2>1 DEF StagesOf
<1> QED
  BY <1>1, <1>2, <1>3, <1>4

-----------------------------------------------------------------------------
\* Stages keep their numbers, and lists their meaning.

\* The stages after a step: marked or taken out, or one more with the next id.
LEMMA StagesNext ==
  ASSUME TypeOK, NEW r \in Req, Step(r)
  PROVE  \/ /\ lastStage' = lastStage + 1
            /\ \E n : n.id = lastStage + 1 /\ n.kr = req[r].kr /\ stages' = stages \cup {n}
            /\ pc[r] # "mark" /\ listed'[r] \subseteq listed[r]
         \/ /\ lastStage' = lastStage
            /\ \E id, done : stages' = Marked(stages, id, done)
         \/ lastStage' = lastStage /\ stages' \subseteq stages
<1>1. CASE InsertStage(r) \/ AddStage(r)
  <2> DEFINE k == req[r].kr
  <2>1. CASE Alive(k)
    <3>1. lastStage' = lastStage + 1 /\ pc[r] # "mark" /\ listed'[r] \subseteq listed[r]
      BY <1>1, <2>1 DEF InsertStage, AddStage, Finish, TypeOK
    <3>2. \E n : n.id = lastStage + 1 /\ n.kr = k /\ stages' = stages \cup {n}
      BY <1>1, <2>1 DEF InsertStage, AddStage
    <3> QED
      BY <3>1, <3>2
  <2>2. CASE ~Alive(k)
    BY <1>1, <2>2 DEF InsertStage, AddStage
  <2> QED
    BY <2>1, <2>2
<1>2. CASE MarkStage(r)
  BY <1>2 DEF MarkStage
<1>3. CASE ~(InsertStage(r) \/ AddStage(r) \/ MarkStage(r))
  BY <1>3 DEF Step, Start, CreateRow, UpdateRow, UpsertMeta, ClearStages, ReadKind, UpdateCurrent,
     ListStages, DeleteRow, Abort, data
<1> QED
  BY <1>1, <1>2, <1>3

LEMMA NumberedNext ==
  ASSUME TypeOK, StagesNumbered, NEW r \in Req, Step(r)
  PROVE  StagesNumbered' /\ lastStage <= lastStage'
<1>1. lastStage \in Nat /\ \A s \in stages : s.id \in Nat
  BY DEF TypeOK, Stage
<1>2. CASE lastStage' = lastStage + 1 /\ \E n : n.id = lastStage + 1 /\ stages' = stages \cup {n}
  BY <1>1, <1>2 DEF StagesNumbered
<1>3. CASE lastStage' = lastStage /\ \E id, done : stages' = Marked(stages, id, done)
  <2>1. PICK id, done : stages' = Marked(stages, id, done)
    BY <1>3
  <2>2. \A s \in stages' : \E y \in stages : /\ s.id = y.id
                                             /\ y.id = id => s = [y EXCEPT !.done = done]
                                             /\ y.id # id => s = y
    BY <2>1, MarkedIs
  <2>3. \A s \in stages' : s.id <= lastStage
    BY <2>2 DEF StagesNumbered
  <2>4. ASSUME NEW s \in stages', NEW t \in stages', s.id = t.id PROVE s = t
    <3>1. PICK y \in stages : /\ s.id = y.id
                              /\ y.id = id => s = [y EXCEPT !.done = done]
                              /\ y.id # id => s = y
      BY <2>2
    <3>2. PICK z \in stages : /\ t.id = z.id
                              /\ z.id = id => t = [z EXCEPT !.done = done]
                              /\ z.id # id => t = z
      BY <2>2
    <3>3. y = z
      BY <2>4, <3>1, <3>2 DEF StagesNumbered
    <3> QED
      BY <3>1, <3>2, <3>3
  <2> QED
    BY <1>1, <1>3, <2>3, <2>4 DEF StagesNumbered
<1>4. CASE lastStage' = lastStage /\ stages' \subseteq stages
  BY <1>1, <1>4 DEF StagesNumbered
<1> QED
  BY <1>2, <1>3, <1>4, StagesNext

\* A list read earlier means the same stages after a step of anyone.
LEMMA ListStaysTrue ==
  ASSUME TypeOK, NEW r \in Req, Step(r), NEW L \in SUBSET [id : Nat, ord : Nat], NEW k,
         \A l \in L : l.id <= lastStage,
         \A s \in stages, l \in L : s.id = l.id => s.kr = k
  PROVE  \A s \in stages', l \in L : s.id = l.id => s.kr = k
<1>1. lastStage \in Nat /\ \A l \in L : l.id \in Nat
  BY DEF TypeOK
<1>2. CASE \E n : n.id = lastStage + 1 /\ stages' = stages \cup {n}
  BY <1>1, <1>2
<1>3. CASE \E id, done : stages' = Marked(stages, id, done)
  <2>1. \A s \in stages' : \E y \in stages : s.id = y.id /\ s.kr = y.kr
    BY <1>3, MarkedIs
  <2> QED
    BY <2>1
<1>4. CASE stages' \subseteq stages
  BY <1>4
<1> QED
  BY <1>2, <1>3, <1>4, StagesNext

LEMMA ToMarkNext ==
  ASSUME TypeOK, TypeOK', StagesNumbered, NEW r \in Req, Step(r), Framed(r), NEW q \in Req, ToMark(q)
  PROVE  ToMark(q)'
<1>1. /\ lastStage \in Nat /\ lastStage' \in Nat /\ lastStage <= lastStage'
      /\ \A s \in stages : s.id \in Nat /\ s.id <= lastStage
  BY NumberedNext DEF TypeOK, Stage, StagesNumbered
<1>2. listed[q] \in SUBSET [id : Nat, ord : Nat] /\ listed'[q] \in SUBSET [id : Nat, ord : Nat]
  BY DEF TypeOK
<1>3. CASE \/ q # r
           \/ listed'[q] \subseteq listed[q] /\ (pc'[q] = "mark" => pc[q] = "mark" /\ req'[q] = req[q])
  <2>1. listed'[q] \subseteq listed[q] /\ (pc'[q] = "mark" => pc[q] = "mark" /\ req'[q] = req[q])
    BY <1>3, ListedFramed DEF Framed
  <2>2. \A l \in listed'[q] : l.id <= lastStage'
    BY <1>1, <1>2, <2>1 DEF ToMark
  <2>3. ASSUME pc'[q] = "mark", req'[q].op # "toggle"
        PROVE  \A s \in stages', l \in listed'[q] : s.id = l.id => s.kr = req'[q].kr
    <3>1. \A l \in listed'[q] : l.id <= lastStage
      BY <2>1 DEF ToMark
    <3>2. \A s \in stages, l \in listed'[q] : s.id = l.id => s.kr = req'[q].kr
      BY <2>1, <2>3 DEF ToMark
    <3> QED
      BY <1>2, <3>1, <3>2, ListStaysTrue
  <2> QED
    BY <2>2, <2>3 DEF ToMark
<1>4. CASE q = r /\ Start(r)
  <2>1. PICK a \in Requests :
          /\ \A i \in a.ids : i <= lastStage
          /\ pc' = [pc EXCEPT ![r] = FirstStatement(a)]
          /\ req' = [req EXCEPT ![r] = a]
          /\ listed' = [listed EXCEPT ![r] =
               IF a.op = "toggle" THEN {[id |-> i, ord |-> 0] : i \in a.ids} ELSE {}]
    BY <1>4 DEF Start
  <2>2. /\ pc'[r] = FirstStatement(a) /\ req'[r] = a
        /\ listed'[r] = IF a.op = "toggle" THEN {[id |-> i, ord |-> 0] : i \in a.ids} ELSE {}
        /\ lastStage' = lastStage
    BY <1>4, <2>1 DEF TypeOK, Start, data
  <2>3. \A l \in listed'[r] : l.id <= lastStage
    BY <2>1, <2>2
  <2>4. pc'[r] = "mark" => req'[r].op = "toggle"
    <3>1. a \in Request
      BY ConstantsAssumption
    <3> QED
      BY <2>2, <3>1 DEF FirstStatement, Request, Op, EditOp
  <2> QED
    BY <1>4, <2>2, <2>3, <2>4 DEF ToMark
<1>5. CASE q = r /\ ListStages(r)
  <2> DEFINE wanted == {s \in StagesOf(req[r].kr) : s.id \in req[r].ids}
  <2>1. stages' = stages /\ lastStage' = lastStage
    BY <1>5 DEF ListStages, data
  <2>2. CASE wanted = {}
    <3>1. listed'[r] = {}
      BY <1>5, <2>2 DEF ListStages, Finish, TypeOK
    <3> QED
      BY <1>5, <3>1 DEF ToMark
  <2>3. CASE wanted # {}
    <3>1. listed'[r] = {[id |-> s.id, ord |-> s.ord] : s \in wanted} /\ req'[r] = req[r]
      BY <1>5, <2>3 DEF ListStages, TypeOK
    <3>2. \A l \in listed'[r] : \E s \in stages : s.id = l.id /\ s.kr = req[r].kr
      BY <3>1 DEF StagesOf
    <3> QED
      BY <1>1, <1>5, <2>1, <3>1, <3>2 DEF ToMark, StagesNumbered
  <2> QED
    BY <2>2, <2>3
<1>6. CASE q = r /\ ~Start(r) /\ ~ListStages(r)
  <2>1. listed'[r] \subseteq listed[r] /\ (pc'[r] = "mark" => pc[r] = "mark" /\ req'[r] = req[r])
    <3>1. CASE CreateRow(r) \/ UpdateRow(r) \/ UpsertMeta(r) \/ ClearStages(r)
      BY <3>1 DEF CreateRow, UpdateRow, UpsertMeta, ClearStages, DataStatement, GoTo, Finish, TypeOK
    <3>2. CASE InsertStage(r) \/ UpdateCurrent(r) \/ AddStage(r) \/ DeleteRow(r) \/ Abort(r)
      BY <3>2 DEF InsertStage, UpdateCurrent, AddStage, DeleteRow, Abort, Finish, TypeOK
    <3>3. CASE ReadKind(r)
      BY <3>3 DEF ReadKind, AfterRead, Finish, TypeOK
    <3>4. CASE MarkStage(r)
      BY <3>4 DEF MarkStage, Finish, TypeOK
    <3> QED
      BY <1>6, <3>1, <3>2, <3>3, <3>4 DEF Step
  <2> QED
    BY <1>3, <1>6, <2>1
<1> QED
  BY <1>3, <1>4, <1>5, <1>6

-----------------------------------------------------------------------------
\* The way of a request.

LEMMA PathFinished ==
  ASSUME NEW r \in Req, pc'[r] \in Finished
  PROVE  Path(r)'
BY DEF Path, Finished

LEMMA PathNext ==
  ASSUME TypeOK, NEW r \in Req, Claim(r), Path(r), Step(r)
  PROVE  Path(r)'
<1>1. ASSUME NEW outcome \in Finished, Finish(r, outcome) PROVE Path(r)'
  BY <1>1, PathFinished DEF Finish, TypeOK
<1>2. CASE Start(r)
  <2>1. PICK q \in Requests : pc'[r] = FirstStatement(q) /\ req'[r] = q
    BY <1>2 DEF Start, TypeOK
  <2>2. q \in Request
    BY ConstantsAssumption
  <2> QED
    BY <2>1, <2>2 DEF Path, FirstStatement, Request, Op, EditOp
<1>3. CASE CreateRow(r) \/ UpdateRow(r)
  <2>1. pc[r] \in {"create", "update"} /\ req[r].op \in EditOp /\ req[r] \in Request
    BY <1>3 DEF CreateRow, UpdateRow, Claim, Finished
  <2>2. CASE ~req[r].valid
    BY <1>1, <1>3, <2>2 DEF CreateRow, UpdateRow, Finished
  <2>3. CASE req[r].valid
    <3>1. pc'[r] = DataStatement(req[r]) /\ req'[r].op = req[r].op
      BY <1>3, <2>1, <2>3 DEF CreateRow, UpdateRow, GoTo, TypeOK, Request
    <3> QED
      BY <2>1, <3>1 DEF Path, DataStatement, EditOp
  <2> QED
    BY <2>2, <2>3
<1>4. CASE UpsertMeta(r) \/ UpdateCurrent(r) \/ AddStage(r) \/ DeleteRow(r) \/ Abort(r)
  BY <1>1, <1>4 DEF UpsertMeta, UpdateCurrent, AddStage, DeleteRow, Abort, Finished
<1>5. CASE ClearStages(r)
  <2>1. pc'[r] = "insert" /\ req'[r] = req[r] /\ req[r].op \in EditOp
    BY <1>5 DEF ClearStages, Claim, GoTo, TypeOK
  <2> QED
    BY <2>1 DEF Path, EditOp
<1>6. CASE InsertStage(r) \/ MarkStage(r)
  <2>1. Finish(r, "done") \/ Finish(r, "failed") \/ (pc' = pc /\ req' = req)
    BY <1>6 DEF InsertStage, MarkStage
  <2> QED
    BY <1>1, <2>1 DEF Path, Finished
<1>7. CASE ReadKind(r)
  <2> DEFINE next == IF Alive(req[r].kr) THEN AfterRead(req[r], row[req[r].kr].kind) ELSE "failed"
  <2>1. CASE next = "failed"
    BY <1>1, <1>7, <2>1 DEF ReadKind, Finished
  <2>2. CASE next # "failed"
    <3>1. pc'[r] = next /\ req'[r].op = req[r].op /\ req[r] \in Request /\ pc[r] = "read"
      BY <1>7, <2>2 DEF ReadKind, TypeOK, Claim, Finished, Request
    <3>2. \/ next = "current" /\ req[r].op = "percent"
          \/ next = "meta" /\ req[r].op = "boolean"
          \/ next = "list" /\ req[r].op = "project"
          \/ next = "delete" /\ req[r].op = "delete"
      BY <2>2 DEF AfterRead
    <3> QED
      BY <3>1, <3>2 DEF Path, EditOp
  <2> QED
    BY <2>1, <2>2
<1>8. CASE ListStages(r)
  <2>1. Finish(r, "done") \/ (pc'[r] = "mark" /\ req'[r] = req[r] /\ pc[r] = "list")
    BY <1>8 DEF ListStages, TypeOK
  <2> QED
    BY <1>1, <2>1 DEF Path, Finished
<1> QED
  BY <1>2, <1>3, <1>4, <1>5, <1>6, <1>7, <1>8 DEF Step

-----------------------------------------------------------------------------
\* Nobody writes to a key result without disturbing the others who do.

LEMMA Undisturbed ==
  ASSUME TypeOK, NEW r \in Req, Claim(r), Step(r), NEW q \in Req \ {r},
         ~disturbed'[q], NEW k \in DOMAIN row, k = req[q].kr
  PROVE  /\ ~disturbed[q]
         /\ row'[k] = row[k]
         /\ k \in DOMAIN row'
         /\ StagesOf(k)' = StagesOf(k)
<1>1. CASE Start(r) \/ ReadKind(r) \/ ListStages(r) \/ Abort(r)
  <2>1. row' = row /\ stages' = stages /\ disturbed'[q] = disturbed[q]
    BY <1>1 DEF Start, ReadKind, ListStages, Abort, data, TypeOK
  <2> QED
    BY <2>1 DEF StagesOf
<1>2. CASE CreateRow(r)
  <2>1. row'[k] = row[k] /\ k \in DOMAIN row'
    BY <1>2, RowsFramed DEF CreateRow
  <2>2. stages' = stages /\ disturbed'[q] = disturbed[q]
    BY <1>2 DEF CreateRow, TypeOK
  <2> QED
    BY <2>1, <2>2 DEF StagesOf
<1>3. CASE Wrote(r, req[r].kr) /\ pc[r] # "mark"
  <2>1. ~disturbed[q] /\ k # req[r].kr
    BY <1>3 DEF Wrote
  <2>2. row'[k] = row[k] /\ k \in DOMAIN row'
    BY <2>1, RowsFramed
  <2>3. StagesOf(k)' = StagesOf(k)
    BY <1>3, <2>1, StagesFramed
  <2> QED
    BY <2>1, <2>2, <2>3
<1>4. CASE (UpsertMeta(r) \/ InsertStage(r) \/ AddStage(r)) /\ ~Alive(req[r].kr)
  <2>1. row' = row /\ stages' = stages /\ disturbed' = disturbed
    BY <1>4 DEF UpsertMeta, InsertStage, AddStage
  <2> QED
    BY <2>1 DEF StagesOf
<1>5. CASE (UpsertMeta(r) \/ InsertStage(r) \/ AddStage(r)) /\ Alive(req[r].kr)
  BY <1>3, <1>5 DEF UpsertMeta, InsertStage, AddStage
<1>6. CASE UpdateRow(r) \/ ClearStages(r) \/ UpdateCurrent(r) \/ DeleteRow(r)
  BY <1>3, <1>6 DEF UpdateRow, ClearStages, UpdateCurrent, DeleteRow
<1>7. CASE MarkStage(r)
  <2>1. PICK l \in listed[r] : /\ stages' = Marked(stages, l.id, req[r].value)
                               /\ WroteStage(r, l.id)
    BY <1>7 DEF MarkStage
  <2>2. ~disturbed[q] /\ \A s \in StagesOf(k) : s.id # l.id
    BY <2>1 DEF WroteStage
  <2>3. StagesOf(k)' = StagesOf(k)
    <3>1. ASSUME NEW s \in StagesOf(k)' PROVE s \in StagesOf(k)
      BY <2>1, <2>2, MarkedIs DEF StagesOf
    <3>2. ASSUME NEW s \in StagesOf(k) PROVE s \in StagesOf(k)'
      BY <2>1, <2>2, MarkedIs DEF StagesOf
    <3> QED
      BY <3>1, <3>2
  <2> QED
    BY <1>7, <2>2, <2>3 DEF MarkStage
<1> QED
  BY <1>1, <1>2, <1>4, <1>5, <1>6, <1>7 DEF Step

LEMMA AchievedFramed ==
  ASSUME TypeOK, NEW r \in Req, Claim(r), Step(r), Framed(r),
         NEW q \in Req \ {r}, Claim(q), Path(q), Achieved(q)
  PROVE  Achieved(q)'
<1> SUFFICES ASSUME ~disturbed'[q] PROVE Achieved(q)'
  BY DEF Achieved
<1>1. CASE pc[q] \in Finished \cup {"create"}
  BY <1>1 DEF Achieved, Framed, Finished
<1>2. CASE pc[q] \notin Finished \cup {"create"}
  <2>1. PICK k \in DOMAIN row : k = req[q].kr
    BY <1>2 DEF Claim
  <2>2. ~disturbed[q] /\ row'[k] = row[k] /\ k \in DOMAIN row' /\ StagesOf(k)' = StagesOf(k)
    BY <2>1, Undisturbed
  <2>3. pc'[q] = pc[q] /\ req'[q] = req[q] /\ idx'[q] = idx[q] /\ listed'[q] = listed[q]
    BY ListedFramed DEF Framed
  <2> QED
    BY <2>1, <2>2, <2>3 DEF Achieved, Alive
<1> QED
  BY <1>1, <1>2

-----------------------------------------------------------------------------
\* What a request achieves by its own steps.

LEMMA AchievedFinished ==
  ASSUME NEW r \in Req, pc'[r] \in Finished
  PROVE  Achieved(r)'
BY DEF Achieved, Finished

LEMMA OwnDisturbed ==
  ASSUME TypeOK, NEW r \in Req, Step(r), ~Start(r), ~CreateRow(r)
  PROVE  disturbed'[r] = disturbed[r]
BY DEF TypeOK, Step, UpdateRow, UpsertMeta, ClearStages, InsertStage, ReadKind, UpdateCurrent,
       ListStages, MarkStage, AddStage, DeleteRow, Abort, Wrote, WroteStage

\* One more stage with a new id is one stage more.
LEMMA InsertedNext ==
  ASSUME NEW S, NEW flags, NEW i \in Nat \ {0}, Inserted(S, flags, i),
         NEW n, n \notin S, n.ord = i, n.done = flags[i]
  PROVE  Inserted(S \cup {n}, flags, i + 1)
<1>1. IsFiniteSet(S) /\ Cardinality(S) = i - 1
  BY DEF Inserted
<1>2. IsFiniteSet(S \cup {n}) /\ Cardinality(S \cup {n}) = i
  BY <1>1, FS_AddElement
<1>3. \A j \in 1..i : \E s \in S \cup {n} : s.ord = j /\ s.done = flags[j]
  BY DEF Inserted
<1> QED
  BY <1>2, <1>3 DEF Inserted

LEMMA InsertStageInserts ==
  ASSUME TypeOK, StagesNumbered, NEW r \in Req, Claim(r), Achieved(r), ~disturbed[r],
         InsertStage(r), NEW k, k = req[r].kr, Alive(k)
  PROVE  Inserted(StagesOf(k)', req[r].flags, idx[r] + 1)
<1> DEFINE n == [id |-> lastStage + 1, kr |-> k, ord |-> idx[r], done |-> req[r].flags[idx[r]]]
<1>1. stages' = stages \cup {n}
  BY DEF InsertStage
<1>2. StagesOf(k)' = StagesOf(k) \cup {n}
  BY <1>1 DEF StagesOf
<1>3. n \notin StagesOf(k)
  <2>1. lastStage \in Nat /\ \A s \in stages : s.id \in Nat /\ s.id <= lastStage
    BY DEF TypeOK, Stage, StagesNumbered
  <2> QED
    BY <2>1 DEF StagesOf
<1>4. Inserted(StagesOf(k), req[r].flags, idx[r])
  BY DEF InsertStage, Achieved
<1>5. idx[r] \in Nat \ {0} /\ n.ord = idx[r] /\ n.done = req[r].flags[idx[r]]
  BY DEF TypeOK
<1> HIDE DEF n
<1> QED
  BY <1>2, <1>3, <1>4, <1>5, InsertedNext

LEMMA MarkStageMarks ==
  ASSUME TypeOK, NEW r \in Req, Achieved(r), ~disturbed[r], MarkStage(r),
         req[r].op = "project", NEW k, k = req[r].kr
  PROVE  \A s \in StagesOf(k)' : s.id \in req[r].ids =>
            s.done = req[r].value \/ (pc'[r] = "mark" /\ \E l \in listed'[r] : l.id = s.id)
<1>1. PICK l \in listed[r] :
        /\ stages' = Marked(stages, l.id, req[r].value)
        /\ IF listed[r] = {l}
           THEN Finish(r, "done")
           ELSE listed' = [listed EXCEPT ![r] = @ \ {l}] /\ UNCHANGED <<pc, req, idx>>
  BY DEF MarkStage
<1>2. \A s \in StagesOf(k) : s.id \in req[r].ids =>
        s.done = req[r].value \/ \E m \in listed[r] : m.id = s.id
  BY DEF Achieved, MarkStage
<1>3. \A m \in listed[r] \ {l} : pc'[r] = "mark" /\ m \in listed'[r]
  BY <1>1 DEF MarkStage, TypeOK
<1>4. SUFFICES ASSUME NEW s \in StagesOf(k)', s.id \in req[r].ids
               PROVE  s.done = req[r].value \/ (pc'[r] = "mark" /\ \E m \in listed'[r] : m.id = s.id)
  OBVIOUS
<1>5. PICK y \in stages : /\ s.id = y.id /\ s.kr = y.kr
                          /\ y.id = l.id => s.done = req[r].value
                          /\ y.id # l.id => s = y
  BY <1>1, MarkedIs DEF StagesOf
<1>6. y \in StagesOf(k)
  BY <1>5 DEF StagesOf
<1>7. CASE y.id = l.id
  BY <1>5, <1>7
<1>8. CASE y.id # l.id
  <2>1. s = y
    BY <1>5, <1>8
  <2>2. CASE \E m \in listed[r] : m.id = s.id
    BY <1>3, <1>8, <2>1, <2>2
  <2> QED
    BY <1>2, <1>4, <1>6, <2>1, <2>2
<1> QED
  BY <1>7, <1>8

LEMMA AchievedNext ==
  ASSUME TypeOK, StagesNumbered, NEW r \in Req, Claim(r), Path(r), Achieved(r), Step(r)
  PROVE  Achieved(r)'
<1> SUFFICES ASSUME ~disturbed'[r] PROVE Achieved(r)'
  BY DEF Achieved
<1>1. ASSUME NEW outcome \in Finished, Finish(r, outcome) PROVE Achieved(r)'
  BY <1>1, AchievedFinished DEF Finish, TypeOK
<1>2. CASE Start(r)
  <2>1. PICK q \in Requests : /\ pc'[r] = FirstStatement(q) /\ req'[r] = q
    BY <1>2 DEF Start, TypeOK
  <2>2. q \in Request
    BY ConstantsAssumption
  <2> QED
    BY <2>1, <2>2 DEF Achieved, FirstStatement, Request, Op, EditOp
<1>3. CASE CreateRow(r)
  <2>1. CASE ~req[r].valid
    BY <1>1, <1>3, <2>1 DEF CreateRow, Finished
  <2>2. CASE req[r].valid
    <3>1. req[r] \in Request /\ req[r].op \in EditOp
      BY <1>3 DEF CreateRow, Claim, Finished
    <3>2. /\ pc'[r] = DataStatement(req[r]) /\ req'[r].kr = Len(row) + 1
          /\ req'[r].kind = req[r].kind /\ req'[r].op = req[r].op
      BY <1>3, <2>2, <3>1 DEF CreateRow, TypeOK, Request
    <3>3. row'[Len(row) + 1].kind = req[r].kind
      BY <1>3, <3>1, RowAdded DEF CreateRow, Request
    <3> QED
      BY <3>1, <3>2, <3>3 DEF Achieved, DataStatement, EditOp
  <2> QED
    BY <2>1, <2>2
<1>4. CASE UpdateRow(r)
  <2>1. CASE ~req[r].valid
    BY <1>1, <1>4, <2>1 DEF UpdateRow, Finished
  <2>2. CASE req[r].valid
    <3>1. PICK k \in DOMAIN row : k = req[r].kr
      BY <1>4 DEF UpdateRow, Claim, Finished
    <3>2. pc'[r] = DataStatement(req[r]) /\ req'[r] = req[r] /\ req[r].op \in EditOp
      BY <1>4, <2>2 DEF UpdateRow, GoTo, TypeOK, Claim
    <3>3. Alive(k)' => row'[k].kind = req[r].kind
      <4>1. CASE Alive(k)
        <5>1. row' = Rekinded(k, req[r].kind) /\ req[r].kind \in Kind
          BY <1>4, <3>1, <4>1 DEF UpdateRow, Rekinded, Claim, Finished, Request
        <5> QED
          BY <5>1, RowRekinded
      <4>2. CASE ~Alive(k)
        BY <1>4, <3>1, <4>2 DEF UpdateRow, Alive
      <4> QED
        BY <4>1, <4>2
    <3> QED
      BY <3>1, <3>2, <3>3 DEF Achieved, DataStatement, EditOp
  <2> QED
    BY <2>1, <2>2
<1>5. CASE UpsertMeta(r) \/ UpdateCurrent(r) \/ AddStage(r) \/ DeleteRow(r) \/ Abort(r)
  BY <1>1, <1>5 DEF UpsertMeta, UpdateCurrent, AddStage, DeleteRow, Abort, Finished
<1>6. CASE ClearStages(r)
  <2>1. ~disturbed[r]
    BY <1>6, OwnDisturbed DEF ClearStages, Start, CreateRow, Finished
  <2>2. /\ pc'[r] = "insert" /\ req'[r] = req[r] /\ idx'[r] = 1 /\ req[r].op \in EditOp
        /\ row' = row /\ pc[r] = "clear"
    BY <1>6 DEF ClearStages, GoTo, TypeOK, Claim
  <2>3. PICK k : k = req[r].kr
    OBVIOUS
  <2>4. StagesOf(k)' = {}
    BY <1>6, <2>3 DEF ClearStages, StagesOf
  <2>5. Inserted({}, req[r].flags, 1)
    BY FS_EmptySet DEF Inserted
  <2>6. Alive(k)' => row'[k].kind = req[r].kind
    BY <2>1, <2>2, <2>3 DEF Achieved, Alive
  <2> QED
    BY <2>2, <2>3, <2>4, <2>5, <2>6 DEF Achieved, EditOp
<1>7. CASE InsertStage(r)
  <2>1. PICK k : k = req[r].kr
    OBVIOUS
  <2>2. CASE ~Alive(k) \/ idx[r] = Len(req[r].flags)
    BY <1>1, <1>7, <2>1, <2>2 DEF InsertStage, Finished
  <2>3. CASE Alive(k) /\ idx[r] # Len(req[r].flags)
    <3>1. ~disturbed[r]
      BY <1>7, OwnDisturbed DEF InsertStage, Start, CreateRow, Finished
    <3>2. pc'[r] = "insert" /\ req'[r] = req[r] /\ idx'[r] = idx[r] + 1 /\ row' = row
      BY <1>7, <2>1, <2>3 DEF InsertStage, TypeOK
    <3>3. Inserted(StagesOf(k)', req[r].flags, idx[r] + 1)
      BY <1>7, <2>1, <2>3, <3>1, InsertStageInserts
    <3>4. req[r].op \in EditOp /\ row[k].kind = req[r].kind
      BY <1>7, <2>1, <2>3, <3>1 DEF Achieved, Claim, InsertStage
    <3> QED
      BY <2>1, <3>2, <3>3, <3>4 DEF Achieved, EditOp
  <2> QED
    BY <2>2, <2>3
<1>8. CASE ReadKind(r)
  <2> DEFINE next == IF Alive(req[r].kr) THEN AfterRead(req[r], row[req[r].kr].kind) ELSE "failed"
  <2>1. CASE next = "failed"
    BY <1>1, <1>8, <2>1 DEF ReadKind, Finished
  <2>2. CASE next # "failed"
    <3>1. /\ pc'[r] = next /\ row' = row /\ req[r] \in Request
          /\ req'[r] = [req[r] EXCEPT !.kind = row[req[r].kr].kind]
      BY <1>8, <2>2 DEF ReadKind, TypeOK, data, Claim, Finished
    <3>2. req'[r].kr = req[r].kr /\ req'[r].op = req[r].op /\ req'[r].kind = row[req[r].kr].kind
      BY <3>1 DEF Request
    <3>3. /\ next \in {"current", "meta", "list", "delete"}
          /\ req[r].op \in EditOp => next = "failed"
      BY <2>2 DEF AfterRead, EditOp
    <3> QED
      BY <2>2, <3>1, <3>2, <3>3 DEF Achieved
  <2> QED
    BY <2>1, <2>2
<1>9. CASE ListStages(r)
  <2>1. PICK k : k = req[r].kr
    OBVIOUS
  <2> DEFINE wanted == {s \in StagesOf(k) : s.id \in req[r].ids}
  <2>2. CASE wanted = {}
    BY <1>1, <1>9, <2>1, <2>2 DEF ListStages, Finished
  <2>3. CASE wanted # {}
    <3>1. /\ pc'[r] = "mark" /\ req'[r] = req[r] /\ stages' = stages
          /\ listed'[r] = {[id |-> s.id, ord |-> s.ord] : s \in wanted}
      BY <1>9, <2>1, <2>3 DEF ListStages, TypeOK, data
    <3>2. ASSUME NEW s \in StagesOf(k)', s.id \in req[r].ids
          PROVE  \E l \in listed'[r] : l.id = s.id
      <4>1. s \in wanted
        BY <3>1, <3>2 DEF StagesOf
      <4>2. [id |-> s.id, ord |-> s.ord] \in listed'[r]
        BY <3>1, <4>1
      <4> QED
        BY <4>2
    <3> QED
      BY <2>1, <3>1, <3>2 DEF Achieved
  <2> QED
    BY <2>2, <2>3
<1>10. CASE MarkStage(r)
  <2>1. PICK k : k = req[r].kr
    OBVIOUS
  <2>2. pc'[r] \in Finished \/ (pc'[r] = "mark" /\ req'[r] = req[r])
    BY <1>10 DEF MarkStage, Finish, TypeOK, Finished
  <2>3. CASE pc'[r] \in Finished
    BY <2>3, AchievedFinished
  <2>4. CASE pc'[r] = "mark" /\ req'[r] = req[r]
    <3>1. ~disturbed[r]
      BY <1>10, OwnDisturbed DEF MarkStage, Start, CreateRow, Finished
    <3>2. req[r].op = "project" => \A s \in StagesOf(k)' : s.id \in req[r].ids =>
            s.done = req[r].value \/ \E l \in listed'[r] : l.id = s.id
      BY <1>10, <2>1, <3>1, MarkStageMarks
    <3> QED
      BY <2>1, <2>4, <3>2 DEF Achieved
  <2> QED
    BY <2>2, <2>3, <2>4
<1> QED
  BY <1>2, <1>3, <1>4, <1>5, <1>6, <1>7, <1>8, <1>9, <1>10 DEF Step

-----------------------------------------------------------------------------
\* The invariant

LEMMA InitEffect == Init => EffectInv
<1> SUFFICES ASSUME Init PROVE EffectInv
  OBVIOUS
<1>1. KeyResultInv
  BY InitInv
<1>2. StagesNumbered
  BY DEF Init, StagesNumbered
<1>3. \A r \in Req : Path(r) /\ ToMark(r) /\ Achieved(r)
  BY DEF Init, Path, ToMark, Achieved, Finished
<1> QED
  BY <1>1, <1>2, <1>3 DEF EffectInv

LEMMA NextEffect == EffectInv /\ [Next]_vars => EffectInv'
<1> SUFFICES ASSUME EffectInv, [Next]_vars PROVE EffectInv'
  OBVIOUS
<1>1. KeyResultInv'
  BY NextInv DEF EffectInv
<1>2. CASE Next
  <2>1. PICK r \in Req : Step(r)
    BY <1>2 DEF Next
  <2>2. TypeOK /\ TypeOK' /\ (\A q \in Req : Claim(q)) /\ Framed(r)
    BY <1>1, <2>1, StepSound DEF EffectInv, KeyResultInv
  <2>3. StagesNumbered'
    BY <2>1, <2>2, NumberedNext DEF EffectInv
  <2>4. ASSUME NEW q \in Req PROVE Path(q)' /\ ToMark(q)' /\ Achieved(q)'
    <3>1. ToMark(q)'
      BY <2>1, <2>2, ToMarkNext DEF EffectInv
    <3>2. CASE q = r
      BY <2>1, <2>2, <3>1, <3>2, PathNext, AchievedNext DEF EffectInv
    <3>3. CASE q # r
      <4>1. Path(q)'
        BY <2>2, <3>3 DEF EffectInv, Framed, Path
      <4>2. Achieved(q)'
        BY <2>1, <2>2, <3>3, AchievedFramed DEF EffectInv
      <4> QED
        BY <3>1, <4>1, <4>2
    <3> QED
      BY <3>2, <3>3
  <2> QED
    BY <1>1, <2>3, <2>4 DEF EffectInv
<1>3. CASE UNCHANGED vars
  <2>1. /\ row' = row /\ stages' = stages /\ lastStage' = lastStage /\ pc' = pc
        /\ req' = req /\ listed' = listed /\ idx' = idx /\ disturbed' = disturbed
    BY <1>3 DEF vars
  <2>2. StagesNumbered' /\ \A r \in Req : Path(r)' /\ ToMark(r)'
    BY <2>1 DEF EffectInv, StagesNumbered, Path, ToMark
  <2>3. ASSUME NEW r \in Req PROVE Achieved(r)'
    <3>1. Achieved(r)
      BY DEF EffectInv
    <3> QED
      BY <2>1, <3>1 DEF Achieved, Alive, StagesOf
  <2> QED
    BY <1>1, <2>2, <2>3 DEF EffectInv
<1> QED
  BY <1>2, <1>3

LEMMA EffectInvHolds == Spec => []EffectInv
BY InitEffect, NextEffect, PTL DEF Spec

-----------------------------------------------------------------------------
\* Theorems

\* The request that succeeds in a step is the one whose step it is.
LEMMA SucceedsBySelf ==
  ASSUME NEW q \in Req, Framed(q), NEW r \in Req, Succeeds(r)
  PROVE  r = q
BY DEF Framed, Succeeds, Finished

LEMMA EditStep ==
  ASSUME EffectInv, NEW r \in Req, Step(r), NEW k, k = req[r].kr,
         Succeeds(r), req[r].op \in EditOp, ~disturbed[r]
  PROVE  /\ row'[k].kind = req[r].kind
         /\ \/ req[r].kind = "project" /\ AsSubmitted({s \in stages' : s.kr = k}, req[r].flags)
            \/ req[r].kind # "project" /\ row'[k].meta[req[r].kind] = req[r].value
<1>1. /\ TypeOK /\ StagesNumbered /\ Claim(r) /\ Path(r) /\ Achieved(r)
      /\ pc[r] \notin Finished /\ pc'[r] = "done"
  BY DEF EffectInv, KeyResultInv, Succeeds
<1>2. pc[r] \in {"create", "update", "meta", "clear", "insert"} /\ req[r] \in Request
  BY <1>1 DEF Path, Claim
<1>3. CASE pc[r] \in {"create", "update", "clear"}
  BY <1>1, <1>3 DEF Step, Start, CreateRow, UpdateRow, UpsertMeta, ClearStages, InsertStage, ReadKind,
     UpdateCurrent, ListStages, MarkStage, AddStage, DeleteRow, Abort, DataStatement, Finish, GoTo,
     TypeOK, Finished
<1>4. CASE pc[r] = "meta"
  <2>1. UpsertMeta(r) /\ Alive(k)
    BY <1>1, <1>4 DEF Step, Start, CreateRow, UpdateRow, UpsertMeta, ClearStages, InsertStage,
       ReadKind, UpdateCurrent, ListStages, MarkStage, AddStage, DeleteRow, Abort, Finish, TypeOK,
       Finished
  <2>2. req[r].kind \in Measured /\ req[r].value \in Value /\ k \in DOMAIN row
    BY <1>1, <1>2, <1>4 DEF Claim, Request, Finished
  <2>3. row' = Remeasured(k, req[r].kind, req[r].value)
    BY <2>1 DEF UpsertMeta, Remeasured
  <2>4. row'[k].kind = row[k].kind /\ row'[k].meta[req[r].kind] = req[r].value
    BY <1>1, <2>2, <2>3, RowMeasured
  <2>5. row[k].kind = req[r].kind
    BY <1>1, <1>4, <2>1 DEF Achieved
  <2> QED
    BY <2>2, <2>4, <2>5 DEF Measured
<1>5. CASE pc[r] = "insert"
  <2>1. InsertStage(r) /\ Alive(k) /\ idx[r] = Len(req[r].flags) /\ row' = row
    BY <1>1, <1>5 DEF Step, Start, CreateRow, UpdateRow, UpsertMeta, ClearStages, InsertStage,
       ReadKind, UpdateCurrent, ListStages, MarkStage, AddStage, DeleteRow, Abort, Finish, TypeOK,
       Finished
  <2>2. req[r].kind = "project" /\ row[k].kind = req[r].kind
    BY <1>1, <1>5, <2>1 DEF Achieved, Claim
  <2>3. Inserted(StagesOf(k)', req[r].flags, idx[r] + 1)
    BY <1>1, <2>1, InsertStageInserts
  <2>4. /\ req[r].flags \in Seq(Value) /\ Len(req[r].flags) \in Nat
        /\ DOMAIN req[r].flags = 1..Len(req[r].flags)
    BY <1>2, LenProperties DEF Request
  <2>5. AsSubmitted(StagesOf(k)', req[r].flags)
    BY <2>1, <2>3, <2>4 DEF Inserted, AsSubmitted
  <2>6. StagesOf(k)' = {s \in stages' : s.kr = k}
    BY DEF StagesOf
  <2> QED
    BY <2>1, <2>2, <2>5, <2>6
<1> QED
  BY <1>2, <1>3, <1>4, <1>5

\* A create or an edit that succeeds and that nobody has disturbed leaves the
\* kind, the value or the stages of its form, whatever was there before
\* (UpdateKeyResult and applyKeyResultMeta).
THEOREM EditTakesEffectCorrect == Spec => EditTakesEffect
<1> DEFINE Effect ==
      \A r \in Req : \A k \in {req[r].kr} :
        Succeeds(r) /\ req[r].op \in EditOp /\ ~disturbed[r]
        => /\ row'[k].kind = req[r].kind
           /\ \/ req[r].kind = "project" /\ AsSubmitted({s \in stages' : s.kr = k}, req[r].flags)
              \/ req[r].kind # "project" /\ row'[k].meta[req[r].kind] = req[r].value
<1>1. EffectInv /\ [Next]_vars => [Effect]_vars
  <2> SUFFICES ASSUME EffectInv, Next PROVE Effect
    OBVIOUS
  <2>1. PICK q \in Req : Step(q)
    BY DEF Next
  <2>2. Framed(q)
    BY <2>1, StepSound DEF EffectInv, KeyResultInv
  <2> QED
    BY <2>1, <2>2, SucceedsBySelf, EditStep
<1> QED
  BY <1>1, EffectInvHolds, PTL DEF Spec, EditTakesEffect

LEMMA ProgressStep ==
  ASSUME EffectInv, NEW r \in Req, Step(r), NEW k, k = req[r].kr, k \notin torn,
         Succeeds(r), ~disturbed[r], req[r].op \in {"percent", "boolean", "project"},
         \A q \in Req : ~Writing(q, k)
  PROVE  \/ /\ req[r].op = "project"
            /\ \A s \in StagesOf(k)' : s.id \in req[r].ids => s.done = req[r].value
         \/ req[r].op # "project" /\ ShownValue(k)' = req[r].value
<1>1. /\ TypeOK /\ StagesNumbered /\ Claim(r) /\ Path(r) /\ Achieved(r)
      /\ pc[r] \notin Finished /\ pc'[r] = "done" /\ req[r] \in Request
  BY DEF EffectInv, KeyResultInv, Succeeds, Claim
<1>2. pc[r] # "read"
  BY <1>1 DEF Step, Start, CreateRow, UpdateRow, UpsertMeta, ClearStages, InsertStage, ReadKind,
     UpdateCurrent, ListStages, MarkStage, AddStage, DeleteRow, Abort, AfterRead, Finish, TypeOK,
     Finished
<1>3. CASE req[r].op = "project"
  <2>1. CASE pc[r] = "list"
    <3>1. ListStages(r)
      BY <1>1, <2>1 DEF Step, Start, CreateRow, UpdateRow, UpsertMeta, ClearStages, InsertStage,
         ReadKind, UpdateCurrent, ListStages, MarkStage, AddStage, DeleteRow, Abort, Finish, TypeOK,
         Finished
    <3>2. stages' = stages /\ {s \in StagesOf(k) : s.id \in req[r].ids} = {}
      BY <1>1, <3>1 DEF ListStages, data, TypeOK
    <3> QED
      BY <1>3, <3>2 DEF StagesOf
  <2>2. CASE pc[r] = "mark"
    <3>1. MarkStage(r)
      BY <1>1, <2>2 DEF Step, Start, CreateRow, UpdateRow, UpsertMeta, ClearStages, InsertStage,
         ReadKind, UpdateCurrent, ListStages, MarkStage, AddStage, DeleteRow, Abort, Finish, TypeOK,
         Finished
    <3> QED
      BY <1>1, <1>3, <3>1, MarkStageMarks
  <2> QED
    BY <1>1, <1>2, <1>3, <2>1, <2>2 DEF Path
<1>4. CASE req[r].op \in {"percent", "boolean"}
  <2> DEFINE t == req[r].kind
  <2>1. /\ pc[r] \in {"meta", "current"} /\ t \in Measured /\ row[k].kind = t
        /\ k \in DOMAIN row /\ req[r].value \in Value
    BY <1>1, <1>2, <1>4 DEF Path, Claim, Achieved, Request, Finished
  <2>2. Alive(k) /\ t # "project"
    BY <2>1 DEF Alive, Measured
  <2>3. row[k].meta[t] # NoValue
    BY <2>1, <2>2 DEF EffectInv, KeyResultInv, HasData, Present
  <2>4. row' = Remeasured(k, t, req[r].value)
    BY <1>1, <2>1, <2>2, <2>3 DEF Step, Start, CreateRow, UpdateRow, UpsertMeta, ClearStages,
       InsertStage, ReadKind, UpdateCurrent, ListStages, MarkStage, AddStage, DeleteRow, Abort,
       Finish, TypeOK, Finished, Remeasured
  <2>5. row'[k].kind = t /\ row'[k].meta[t] = req[r].value
    <3> HIDE DEF t
    <3> QED
      BY <1>1, <2>1, <2>4, RowMeasured
  <2> QED
    BY <1>4, <2>5 DEF ShownValue
<1> QED
  BY <1>3, <1>4

\* A progress report that succeeds is the progress shown, although it read the
\* kind, or the stages, in an earlier statement than those that write
\* (UpdatePercentProgress, UpdateBooleanProgress, UpdateProjectProgress).
THEOREM ProgressTakesEffectCorrect == Spec => ProgressTakesEffect
<1> DEFINE Effect ==
      \A r \in Req : \A k \in {req[r].kr} \ torn :
        /\ Succeeds(r) /\ ~disturbed[r]
        /\ req[r].op \in {"percent", "boolean", "project"}
        /\ \A q \in Req : ~Writing(q, k)
        => \/ /\ req[r].op = "project"
              /\ \A s \in StagesOf(k)' : s.id \in req[r].ids => s.done = req[r].value
           \/ req[r].op # "project" /\ ShownValue(k)' = req[r].value
<1>1. EffectInv /\ [Next]_vars => [Effect]_vars
  <2> SUFFICES ASSUME EffectInv, Next PROVE Effect
    OBVIOUS
  <2>1. PICK q \in Req : Step(q)
    BY DEF Next
  <2>2. Framed(q)
    BY <2>1, StepSound DEF EffectInv, KeyResultInv
  <2> QED
    BY <2>1, <2>2, SucceedsBySelf, ProgressStep
<1> QED
  BY <1>1, EffectInvHolds, PTL DEF Spec, ProgressTakesEffect

\* A request changes only its own key result: a report's stages that were
\* replaced between its list and its marks are not somebody else's by now
\* (ListProjectStages, then UpdateProjectStageDone by id alone).
THEOREM OnlyItsKeyResultCorrect == Spec => OnlyItsKeyResult
<1> DEFINE Only ==
      \A r \in Req : \A k \in 1..Len(row') :
        /\ <<pc[r], idx[r], listed[r]>>' # <<pc[r], idx[r], listed[r]>>
        /\ pc[r] \notin Finished /\ req[r].op \notin {"create", "toggle"} /\ req[r].kr # k
        => ~Touched(k)
<1>1. EffectInv /\ [Next]_vars => [Only]_vars
  <2> SUFFICES ASSUME EffectInv, Next PROVE Only
    OBVIOUS
  <2>1. SUFFICES ASSUME NEW r \in Req, NEW k,
                        <<pc[r], idx[r], listed[r]>>' # <<pc[r], idx[r], listed[r]>>,
                        pc[r] \notin Finished, req[r].op \notin {"create", "toggle"},
                        req[r].kr # k
                 PROVE  ~Touched(k)
    OBVIOUS
  <2>2. PICK q \in Req : Step(q)
    BY DEF Next
  <2>3. TypeOK /\ Claim(q) /\ Framed(q)
    BY <2>2, StepSound DEF EffectInv, KeyResultInv
  <2>4. q = r
    BY <2>1, <2>2, <2>3, ListedFramed DEF Framed
  <2>5. k \in DOMAIN row => row'[k] = row[k]
    BY <2>1, <2>2, <2>3, <2>4, RowsFramed
  <2>6. StagesOf(k)' = StagesOf(k)
    <3>1. pc[r] = "mark" => \A l \in listed[r], s \in StagesOf(k) : s.id # l.id
      BY <2>1 DEF EffectInv, ToMark, StagesOf
    <3> QED
      BY <2>1, <2>2, <2>3, <2>4, <3>1, StagesFramed
  <2> QED
    BY <2>5, <2>6 DEF Touched
<1> QED
  BY <1>1, EffectInvHolds, PTL DEF Spec, OnlyItsKeyResult

=============================================================================
