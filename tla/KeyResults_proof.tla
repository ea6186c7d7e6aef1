-------------------------- MODULE KeyResults_proof --------------------------
(***************************************************************************)
(* For any number of key results, requests and stages: every variable      *)
(* keeps its type, and a key result has the data of its kind whenever no   *)
(* edit of it is halfway or has ended halfway.                             *)
(*                                                                         *)
(* The argument: the request that set the kind last writes the data of     *)
(* that kind after it, and the data go only by a replacement of the        *)
(* stages, whose request then writes stages itself.                        *)
(***************************************************************************)
EXTENDS KeyResults, TLAPS, SequenceTheorems

\* What the place of a request says of it.
Claim(r) ==
  /\ pc[r] \notin Finished => req[r] \in Request
  /\ pc[r] \notin Finished \cup {"create"} => req[r].kr \in DOMAIN row
  /\ pc[r] \in {"create", "update", "clear", "insert"} => req[r].op \in EditOp
  /\ pc[r] \in {"create", "update"} =>
        (req[r].kind = "project" /\ req[r].valid => req[r].flags # << >>)
  /\ pc[r] \in {"meta", "current"} => req[r].kind \in Measured
  /\ pc[r] \in {"clear", "insert"} => req[r].kind = "project" /\ req[r].flags # << >>
  /\ pc[r] = "insert" => idx[r] \in DOMAIN req[r].flags
  /\ pc[r] # "insert" => idx[r] = 1

\* Key result k has its data, or the request that sets its kind brings them.
HasData(k) ==
  Alive(k) /\ k \notin torn =>
     \/ Present(k, row[k].kind)
     \/ \E r \in Req : Writing(r, k) /\ req[r].kind = row[k].kind

KeyResultInv == TypeOK /\ (\A r \in Req : Claim(r)) /\ (\A k \in DOMAIN row : HasData(k))

-----------------------------------------------------------------------------
\* Rows: a write to one row keeps the others, and the type.

LEMMA RowTyped ==
  ASSUME TypeOK, NEW k \in DOMAIN row
  PROVE  /\ DOMAIN row = 1..Len(row)
         /\ row[k] \in Row
         /\ k \in Nat
BY ElementOfSeq, LenProperties DEF TypeOK

LEMMA RowReplaced ==
  ASSUME TypeOK, NEW k \in DOMAIN row, NEW e \in Row
  PROVE  /\ [row EXCEPT ![k] = e] \in Seq(Row)
         /\ DOMAIN [row EXCEPT ![k] = e] = DOMAIN row
         /\ [row EXCEPT ![k] = e][k] = e
         /\ \A j \in DOMAIN row \ {k} : [row EXCEPT ![k] = e][j] = row[j]
<1>1. k \in 1..Len(row) /\ row \in Seq(Row)
  BY RowTyped DEF TypeOK
<1>2. [row EXCEPT ![k] = e] \in Seq(Row)
  BY <1>1, ExceptSeq
<1> QED
  BY <1>2

Rekinded(k, kind) == [row EXCEPT ![k].kind = kind]

LEMMA RowRekinded ==
  ASSUME TypeOK, NEW k \in DOMAIN row, NEW kind \in Kind,
         row' = Rekinded(k, kind)
  PROVE  /\ row' \in Seq(Row) /\ DOMAIN row' = DOMAIN row
         /\ row'[k].kind = kind /\ row'[k].meta = row[k].meta
         /\ \A j \in DOMAIN row \ {k} : row'[j] = row[j]
<1> DEFINE e == [row[k] EXCEPT !.kind = kind]
<1>1. e \in Row /\ e.kind = kind /\ e.meta = row[k].meta
  BY RowTyped DEF Row
<1>2. row' = [row EXCEPT ![k] = e]
  BY DEF Rekinded
<1>3. /\ row' \in Seq(Row) /\ DOMAIN row' = DOMAIN row /\ row'[k] = e
      /\ \A j \in DOMAIN row \ {k} : row'[j] = row[j]
  BY <1>1, <1>2, RowReplaced
<1> QED
  BY <1>1, <1>3

Remeasured(k, t, v) == [row EXCEPT ![k].meta[t] = v]

LEMMA RowMeasured ==
  ASSUME TypeOK, NEW k \in DOMAIN row, NEW t \in Measured, NEW v \in Value,
         row' = Remeasured(k, t, v)
  PROVE  /\ row' \in Seq(Row) /\ DOMAIN row' = DOMAIN row
         /\ row'[k].kind = row[k].kind
         /\ row'[k].meta[t] = v
         /\ \A u \in Measured \ {t} : row'[k].meta[u] = row[k].meta[u]
         /\ \A j \in DOMAIN row \ {k} : row'[j] = row[j]
<1> DEFINE e == [row[k] EXCEPT !.meta[t] = v]
<1>1. /\ e \in Row /\ e.kind = row[k].kind /\ e.meta[t] = v
      /\ \A u \in Measured \ {t} : e.meta[u] = row[k].meta[u]
  BY RowTyped DEF Row
<1>2. row' = [row EXCEPT ![k] = e]
  BY DEF Remeasured
<1>3. /\ row' \in Seq(Row) /\ DOMAIN row' = DOMAIN row /\ row'[k] = e
      /\ \A j \in DOMAIN row \ {k} : row'[j] = row[j]
  BY <1>1, <1>2, RowReplaced
<1> QED
  BY <1>1, <1>3

LEMMA RowAdded ==
  ASSUME TypeOK, NEW kind \in Kind, row' = Append(row, [kind |-> kind, meta |-> NoMeta])
  PROVE  /\ row' \in Seq(Row) /\ DOMAIN row' = DOMAIN row \cup {Len(row) + 1}
         /\ row'[Len(row) + 1].kind = kind
         /\ \A j \in DOMAIN row : row'[j] = row[j]
         /\ Len(row) + 1 \in Nat \ DOMAIN row
<1> DEFINE e == [kind |-> kind, meta |-> NoMeta]
<1>1. e \in Row /\ e.kind = kind
  BY DEF Row, NoMeta
<1>2. row \in Seq(Row) /\ Len(row) \in Nat /\ DOMAIN row = 1..Len(row)
  BY LenProperties DEF TypeOK
<1>3. /\ row' \in Seq(Row) /\ Len(row') = Len(row) + 1
      /\ \A i \in 1..Len(row) : row'[i] = row[i]
      /\ row'[Len(row) + 1] = e
  <2> HIDE DEF e
  <2> row' = Append(row, e)
    BY DEF e
  <2> QED
    BY <1>1, <1>2, AppendProperties
<1>4. DOMAIN row' = 1..(Len(row) + 1)
  BY <1>3, LenProperties
<1> QED
  BY <1>1, <1>2, <1>3, <1>4

-----------------------------------------------------------------------------
\* Requests: one moves on, the others stay where they are.

Framed(r) ==
  \A q \in Req \ {r} : pc'[q] = pc[q] /\ req'[q] = req[q] /\ idx'[q] = idx[q]

LEMMA ClaimFramed ==
  ASSUME NEW r \in Req, NEW q \in Req \ {r}, Claim(q), Framed(r), DOMAIN row \subseteq DOMAIN row'
  PROVE  Claim(q)'
BY DEF Claim, Framed

\* The types of what a request keeps of itself.
LocalsOK ==
  /\ pc \in [Req -> Label]
  /\ req \in [Req -> Request \cup {NoRequest}]
  /\ listed \in [Req -> SUBSET [id : Nat, ord : Nat]]
  /\ idx \in [Req -> Nat \ {0}]

LEMMA FinishTyped ==
  ASSUME TypeOK, NEW r \in Req, NEW outcome \in Finished, Finish(r, outcome)
  PROVE  LocalsOK' /\ Claim(r)' /\ Framed(r) /\ pc'[r] \in Finished
<1>1. LocalsOK' /\ pc'[r] = outcome /\ idx'[r] = 1
  BY DEF TypeOK, LocalsOK, Finish, Finished, Label
<1>2. Framed(r)
  BY DEF TypeOK, Finish, Framed
<1> QED
  BY <1>1, <1>2 DEF Claim, Finished

LEMMA GoToTyped ==
  ASSUME TypeOK, NEW r \in Req, NEW label \in Label, GoTo(r, label)
  PROVE  LocalsOK' /\ Framed(r) /\ pc'[r] = label /\ req'[r] = req[r] /\ idx'[r] = idx[r]
BY DEF TypeOK, LocalsOK, GoTo, Framed

LEMMA WroteTyped ==
  ASSUME TypeOK, NEW r \in Req, NEW k, Wrote(r, k)
  PROVE  disturbed' \in [Req -> BOOLEAN]
BY DEF Wrote

LEMMA TearTyped ==
  ASSUME TypeOK, NEW r \in Req, req[r] \in Request, Tear(r)
  PROVE  torn' \subseteq Nat /\ torn \subseteq torn'
BY DEF TypeOK, Tear, Request

\* A step of r keeps the types, what is claimed of it, and the others' places.
Sound(r) == TypeOK' /\ Claim(r)' /\ Framed(r) /\ DOMAIN row \subseteq DOMAIN row'

LEMMA StartSound ==
  ASSUME TypeOK, NEW r \in Req, Claim(r), Start(r)
  PROVE  Sound(r)
<1>1. PICK q \in Requests :
        /\ q.op # "create" => q.kr \in DOMAIN row
        /\ pc' = [pc EXCEPT ![r] = FirstStatement(q)]
        /\ req' = [req EXCEPT ![r] = q]
        /\ listed' = [listed EXCEPT ![r] =
             IF q.op = "toggle" THEN {[id |-> i, ord |-> 0] : i \in q.ids} ELSE {}]
  BY DEF Start
<1>2. /\ q \in Request
      /\ q.op \in {"boolean", "project"} => q.kind = q.op
      /\ q.op = "direct" => q.kind \in Measured
      /\ q.op \in EditOp /\ q.kind = "project" /\ q.valid => q.flags # << >>
  BY ConstantsAssumption
<1>3. /\ FirstStatement(q) \in Label \ (Finished \cup {"clear", "insert"})
      /\ FirstStatement(q) = "create" <=> q.op = "create"
      /\ FirstStatement(q) \in {"create", "update"} => q.op \in EditOp
      /\ FirstStatement(q) \in {"meta", "current"} => q.kind \in Measured
  BY <1>2 DEF FirstStatement, Label, Finished, Request, Op, EditOp
<1>4. {[id |-> i, ord |-> 0] : i \in q.ids} \subseteq [id : Nat, ord : Nat]
  BY <1>2 DEF Request
<1>5. pc'[r] = FirstStatement(q) /\ req'[r] = q /\ idx'[r] = 1 /\ row' = row
  BY <1>1 DEF TypeOK, Start, Claim, Finished, data
<1>6. Claim(r)'
  BY <1>1, <1>2, <1>3, <1>5 DEF Claim, Finished
<1>7. TypeOK'
  BY <1>1, <1>2, <1>3, <1>4, ConstantsAssumption DEF TypeOK, Start, data
<1>8. Framed(r)
  BY <1>1 DEF TypeOK, Start, Framed
<1> QED
  BY <1>5, <1>6, <1>7, <1>8 DEF Sound

LEMMA CreateRowSound ==
  ASSUME TypeOK, NEW r \in Req, Claim(r), CreateRow(r)
  PROVE  Sound(r)
<1>1. req[r] \in Request /\ req[r].kind \in Kind /\ idx[r] = 1 /\ req[r].op \in EditOp
  BY DEF CreateRow, Claim, Finished, Request
<1>2. /\ row' \in Seq(Row) /\ DOMAIN row' = DOMAIN row \cup {Len(row) + 1}
      /\ Len(row) + 1 \in Nat
  BY <1>1, RowAdded DEF CreateRow
<1>3. /\ stages' = stages /\ lastStage' = lastStage /\ sent' = sent
      /\ disturbed' \in [Req -> BOOLEAN]
  BY DEF CreateRow, TypeOK
<1>4. CASE req[r].valid
  <2>1. /\ pc' = [pc EXCEPT ![r] = DataStatement(req[r])]
        /\ req' = [req EXCEPT ![r].kr = Len(row) + 1]
        /\ listed' = listed /\ idx' = idx /\ torn' = torn
    BY <1>4 DEF CreateRow
  <2>2. DataStatement(req[r]) \in Label /\ [req[r] EXCEPT !.kr = Len(row) + 1] \in Request
    BY <1>1, <1>2 DEF DataStatement, Label, Request
  <2>3. TypeOK'
    BY <1>2, <1>3, <2>1, <2>2 DEF TypeOK
  <2>4. pc'[r] = DataStatement(req[r]) /\ req'[r] = [req[r] EXCEPT !.kr = Len(row) + 1]
    BY <2>1 DEF TypeOK
  <2>5. Claim(r)'
    <3>1. /\ req'[r] \in Request /\ req'[r].kr = Len(row) + 1 /\ req'[r].op = req[r].op
          /\ req'[r].kind = req[r].kind /\ req'[r].flags = req[r].flags
      BY <1>1, <2>2, <2>4 DEF Request
    <3>2. req'[r].kr \in DOMAIN row' /\ idx'[r] = 1
      BY <1>1, <1>2, <2>1, <3>1
    <3>3. CASE req[r].kind = "project"
      <4>1. req[r].flags # << >> /\ pc'[r] = "clear"
        BY <1>4, <2>4, <3>3 DEF Claim, CreateRow, DataStatement
      <4> QED
        BY <1>1, <3>1, <3>2, <3>3, <4>1 DEF Claim, Finished
    <3>4. CASE req[r].kind # "project"
      <4>1. req[r].kind \in Measured /\ pc'[r] = "meta"
        BY <1>1, <2>4, <3>4 DEF DataStatement, Kind
      <4> QED
        BY <3>1, <3>2, <4>1 DEF Claim, Finished
    <3> QED
      BY <3>3, <3>4
  <2>6. Framed(r)
    BY <2>1 DEF Framed, TypeOK
  <2> QED
    BY <1>2, <2>3, <2>5, <2>6 DEF Sound
<1>5. CASE ~req[r].valid
  <2>1. Finish(r, "failed") /\ torn' \subseteq Nat
    BY <1>2, <1>5 DEF CreateRow, TypeOK
  <2>2. LocalsOK' /\ Claim(r)' /\ Framed(r)
    BY <2>1, FinishTyped DEF Finished
  <2> QED
    BY <1>2, <1>3, <2>1, <2>2 DEF Sound, TypeOK, LocalsOK
<1> QED
  BY <1>4, <1>5

LEMMA UpdateRowSound ==
  ASSUME TypeOK, NEW r \in Req, Claim(r), UpdateRow(r)
  PROVE  Sound(r)
<1> DEFINE k == req[r].kr
<1>1. /\ req[r] \in Request /\ req[r].kind \in Kind /\ idx[r] = 1
      /\ req[r].op \in EditOp /\ k \in DOMAIN row
  BY DEF UpdateRow, Claim, Finished, Request
<1>2. row' \in Seq(Row) /\ DOMAIN row' = DOMAIN row
  <2>1. CASE Alive(k)
    BY <1>1, <2>1, RowRekinded DEF UpdateRow, Rekinded
  <2>2. CASE ~Alive(k)
    BY <2>2 DEF UpdateRow, TypeOK
  <2> QED
    BY <2>1, <2>2
<1>3. /\ stages' = stages /\ lastStage' = lastStage /\ sent' = sent
      /\ disturbed' \in [Req -> BOOLEAN]
  BY WroteTyped DEF UpdateRow
<1>4. CASE req[r].valid
  <2>1. GoTo(r, DataStatement(req[r])) /\ torn' = torn /\ DataStatement(req[r]) \in Label
    BY <1>4 DEF UpdateRow, DataStatement, Label
  <2>2. /\ LocalsOK' /\ Framed(r) /\ pc'[r] = DataStatement(req[r])
        /\ req'[r] = req[r] /\ idx'[r] = 1
    BY <1>1, <2>1, GoToTyped
  <2>3. Claim(r)'
    BY <1>1, <1>2, <1>4, <2>2 DEF Claim, UpdateRow, DataStatement, Kind, Finished
  <2> QED
    BY <1>2, <1>3, <2>1, <2>2, <2>3 DEF Sound, TypeOK, LocalsOK
<1>5. CASE ~req[r].valid
  <2>1. LocalsOK' /\ Claim(r)' /\ Framed(r)
    BY <1>5, FinishTyped DEF UpdateRow, Finished
  <2>2. torn' \subseteq Nat
    BY <1>1, <1>5, TearTyped DEF UpdateRow
  <2> QED
    BY <1>2, <1>3, <2>1, <2>2 DEF Sound, TypeOK, LocalsOK
<1> QED
  BY <1>4, <1>5

\* A step that ends its request, or moves it to a statement that any request
\* of its kind may reach, and keeps the types of the data.
DataOK ==
  /\ row \in Seq(Row)
  /\ stages \subseteq Stage
  /\ lastStage \in Nat
  /\ sent \in 0..MaxSent
  /\ torn \subseteq Nat
  /\ disturbed \in [Req -> BOOLEAN]

LEMMA SplitTypes == TypeOK <=> LocalsOK /\ DataOK
BY DEF TypeOK, LocalsOK, DataOK

LEMMA SplitTypesNext == TypeOK' <=> LocalsOK' /\ DataOK'
BY DEF TypeOK, LocalsOK, DataOK

LEMMA FinishSound ==
  ASSUME TypeOK, NEW r \in Req, NEW outcome \in Finished, Finish(r, outcome), DataOK',
         DOMAIN row \subseteq DOMAIN row'
  PROVE  Sound(r)
BY FinishTyped, SplitTypesNext DEF Sound

LEMMA UpsertMetaSound ==
  ASSUME TypeOK, NEW r \in Req, Claim(r), UpsertMeta(r)
  PROVE  Sound(r)
<1> DEFINE k == req[r].kr
<1>1. /\ req[r] \in Request /\ req[r].kind \in Measured /\ req[r].value \in Value
      /\ k \in DOMAIN row
  BY DEF UpsertMeta, Claim, Finished, Request
<1>2. CASE Alive(k)
  <2>1. row' \in Seq(Row) /\ DOMAIN row' = DOMAIN row
    BY <1>1, <1>2, RowMeasured DEF UpsertMeta, Remeasured
  <2>2. DataOK'
    BY <1>2, <2>1, WroteTyped DEF UpsertMeta, TypeOK, DataOK
  <2> QED
    BY <1>2, <2>1, <2>2, FinishSound DEF UpsertMeta, Finished
<1>3. CASE ~Alive(k)
  <2>1. DataOK' /\ row' = row
    BY <1>3 DEF UpsertMeta, TypeOK, DataOK
  <2> QED
    BY <1>3, <2>1, FinishSound DEF UpsertMeta, Finished
<1> QED
  BY <1>2, <1>3

LEMMA ClearStagesSound ==
  ASSUME TypeOK, NEW r \in Req, Claim(r), ClearStages(r)
  PROVE  Sound(r)
<1>1. DataOK' /\ row' = row
  BY WroteTyped DEF ClearStages, TypeOK, DataOK
<1>2. /\ req[r] \in Request /\ req[r].kr \in DOMAIN row /\ req[r].op \in EditOp
      /\ req[r].kind = "project" /\ req[r].flags # << >> /\ idx[r] = 1
  BY DEF ClearStages, Claim, Finished
<1>3. /\ LocalsOK' /\ Framed(r) /\ pc'[r] = "insert" /\ req'[r] = req[r] /\ idx'[r] = idx[r]
  BY GoToTyped DEF ClearStages, Label
<1>4. 1 \in DOMAIN req[r].flags
  <2>1. req[r].flags \in Seq(Value)
    BY <1>2 DEF Request
  <2> QED
    BY <1>2, <2>1, EmptySeq, LenProperties
<1>5. Claim(r)'
  BY <1>1, <1>2, <1>3, <1>4 DEF Claim, Finished
<1> QED
  BY <1>1, <1>3, <1>5, SplitTypesNext DEF Sound

LEMMA InsertStageSound ==
  ASSUME TypeOK, NEW r \in Req, Claim(r), InsertStage(r)
  PROVE  Sound(r)
<1> DEFINE k == req[r].kr
           i == idx[r]
           flags == req[r].flags
<1>1. /\ req[r] \in Request /\ k \in DOMAIN row /\ req[r].op \in EditOp
      /\ req[r].kind = "project" /\ flags # << >> /\ i \in DOMAIN flags
      /\ flags \in Seq(Value)
  BY DEF InsertStage, Claim, Finished, Request
<1>2. /\ DOMAIN flags = 1..Len(flags) /\ Len(flags) \in Nat /\ flags[i] \in Value
      /\ i \in Nat
  BY <1>1, LenProperties, ElementOfSeq
<1>3. CASE Alive(k)
  <2>1. [id |-> lastStage + 1, kr |-> k, ord |-> i, done |-> flags[i]] \in Stage
    BY <1>1, <1>2 DEF Stage, TypeOK, Request
  <2>2. DataOK' /\ row' = row
    BY <1>3, <2>1, WroteTyped DEF InsertStage, TypeOK, DataOK
  <2>3. CASE i = Len(flags)
    BY <1>3, <2>2, <2>3, FinishSound DEF InsertStage, Finished
  <2>4. CASE i # Len(flags)
    <3>1. idx' = [idx EXCEPT ![r] = i + 1] /\ pc' = pc /\ req' = req /\ listed' = listed
      BY <1>3, <2>4 DEF InsertStage
    <3>2. LocalsOK' /\ Framed(r) /\ idx'[r] = i + 1
      BY <1>2, <3>1 DEF TypeOK, LocalsOK, Framed
    <3>3. i + 1 \in DOMAIN flags
      BY <1>1, <1>2, <2>4
    <3>4. Claim(r)'
      BY <1>1, <2>2, <3>1, <3>2, <3>3 DEF Claim, InsertStage, Finished
    <3> QED
      BY <2>2, <3>2, <3>4, SplitTypesNext DEF Sound
  <2> QED
    BY <2>3, <2>4
<1>4. CASE ~Alive(k)
  <2>1. DataOK' /\ row' = row
    BY <1>4 DEF InsertStage, TypeOK, DataOK
  <2> QED
    BY <1>4, <2>1, FinishSound DEF InsertStage, Finished
<1> QED
  BY <1>3, <1>4

LEMMA ReadKindSound ==
  ASSUME TypeOK, NEW r \in Req, Claim(r), ReadKind(r)
  PROVE  Sound(r)
<1> DEFINE k == req[r].kr
           next == IF Alive(k) THEN AfterRead(req[r], row[k].kind) ELSE "failed"
<1>1. DataOK' /\ row' = row
  BY DEF ReadKind, data, TypeOK, DataOK
<1>2. req[r] \in Request /\ k \in DOMAIN row /\ idx[r] = 1
  BY DEF ReadKind, Claim, Finished
<1>3. CASE next = "failed"
  BY <1>1, <1>3, FinishSound DEF ReadKind, Finished
<1>4. CASE next # "failed"
  <2>1. Alive(k) /\ row[k].kind \in Kind
    BY <1>2, <1>4, RowTyped DEF Alive, Row
  <2>2. /\ next \in {"current", "meta", "list", "delete"}
        /\ next \in {"current", "meta"} => row[k].kind \in Measured
    BY <1>4, <2>1 DEF AfterRead, Measured
  <2>3. /\ pc' = [pc EXCEPT ![r] = next] /\ req' = [req EXCEPT ![r].kind = row[k].kind]
        /\ listed' = listed /\ idx' = idx
    BY <1>4 DEF ReadKind
  <2>4. /\ req'[r] \in Request /\ req'[r].kr = k /\ req'[r].kind = row[k].kind
        /\ pc'[r] = next /\ idx'[r] = 1
    BY <1>2, <2>1, <2>3 DEF TypeOK, Request
  <2>5. LocalsOK'
    BY <2>2, <2>3, <2>4 DEF TypeOK, LocalsOK, Label
  <2>6. Framed(r)
    BY <2>3 DEF TypeOK, Framed
  <2>7. Claim(r)'
    BY <1>1, <1>2, <2>2, <2>4 DEF Claim, Finished
  <2> QED
    BY <1>1, <2>5, <2>6, <2>7, SplitTypesNext DEF Sound
<1> QED
  BY <1>3, <1>4

LEMMA UpdateCurrentSound ==
  ASSUME TypeOK, NEW r \in Req, Claim(r), UpdateCurrent(r)
  PROVE  Sound(r)
<1> DEFINE k == req[r].kr
           t == req[r].kind
<1>1. /\ req[r] \in Request /\ t \in Measured /\ req[r].value \in Value /\ k \in DOMAIN row
  BY DEF UpdateCurrent, Claim, Finished, Request
<1>2. row' \in Seq(Row) /\ DOMAIN row' = DOMAIN row
  <2>1. CASE row[k].meta[t] # NoValue
    BY <1>1, <2>1, RowMeasured DEF UpdateCurrent, Remeasured
  <2>2. CASE row[k].meta[t] = NoValue
    BY <2>2 DEF UpdateCurrent, TypeOK
  <2> QED
    BY <2>1, <2>2
<1>3. DataOK'
  BY <1>2, WroteTyped DEF UpdateCurrent, TypeOK, DataOK
<1> QED
  BY <1>2, <1>3, FinishSound DEF UpdateCurrent, Finished

LEMMA ListStagesSound ==
  ASSUME TypeOK, NEW r \in Req, Claim(r), ListStages(r)
  PROVE  Sound(r)
<1> DEFINE wanted == {s \in StagesOf(req[r].kr) : s.id \in req[r].ids}
<1>1. DataOK' /\ row' = row
  BY DEF ListStages, data, TypeOK, DataOK
<1>2. CASE wanted = {}
  BY <1>1, <1>2, FinishSound DEF ListStages, Finished
<1>3. CASE wanted # {}
  <2>1. /\ listed' = [listed EXCEPT ![r] = {[id |-> s.id, ord |-> s.ord] : s \in wanted}]
        /\ pc' = [pc EXCEPT ![r] = "mark"] /\ req' = req /\ idx' = idx
    BY <1>3 DEF ListStages
  <2>2. {[id |-> s.id, ord |-> s.ord] : s \in wanted} \subseteq [id : Nat, ord : Nat]
    BY DEF StagesOf, TypeOK, Stage
  <2>3. LocalsOK' /\ Framed(r) /\ pc'[r] = "mark"
    BY <2>1, <2>2 DEF TypeOK, LocalsOK, Framed, Label
  <2>4. Claim(r)'
    BY <1>1, <2>1, <2>3 DEF Claim, ListStages, Finished
  <2> QED
    BY <1>1, <2>3, <2>4, SplitTypesNext DEF Sound
<1> QED
  BY <1>2, <1>3

LEMMA MarkStageSound ==
  ASSUME TypeOK, NEW r \in Req, Claim(r), MarkStage(r)
  PROVE  Sound(r)
<1>1. PICK s \in listed[r] :
        /\ stages' = Marked(stages, s.id, req[r].value)
        /\ WroteStage(r, s.id)
        /\ IF listed[r] = {s}
           THEN Finish(r, "done")
           ELSE listed' = [listed EXCEPT ![r] = @ \ {s}] /\ UNCHANGED <<pc, req, idx>>
  BY DEF MarkStage
<1>2. req[r].value \in Value
  BY DEF MarkStage, Claim, Finished, Request
<1>3. stages' \subseteq Stage
  <2>1. SUFFICES ASSUME NEW x \in stages' PROVE x \in Stage
    OBVIOUS
  <2>2. PICK y \in stages : x = IF y.id = s.id THEN [y EXCEPT !.done = req[r].value] ELSE y
    BY <1>1 DEF Marked
  <2>3. y \in Stage /\ [y EXCEPT !.done = req[r].value] \in Stage
    BY <1>2 DEF TypeOK, Stage
  <2> QED
    BY <2>2, <2>3
<1>4. DataOK' /\ row' = row
  BY <1>1, <1>3 DEF MarkStage, WroteStage, TypeOK, DataOK
<1>5. CASE listed[r] = {s}
  BY <1>1, <1>4, <1>5, FinishSound DEF Finished
<1>6. CASE listed[r] # {s}
  <2>1. listed' = [listed EXCEPT ![r] = @ \ {s}] /\ pc' = pc /\ req' = req /\ idx' = idx
    BY <1>1, <1>6
  <2>2. LocalsOK' /\ Framed(r)
    BY <2>1 DEF TypeOK, LocalsOK, Framed
  <2>3. Claim(r)'
    BY <1>4, <2>1 DEF Claim
  <2> QED
    BY <1>4, <2>2, <2>3, SplitTypesNext DEF Sound
<1> QED
  BY <1>5, <1>6

LEMMA AddStageSound ==
  ASSUME TypeOK, NEW r \in Req, Claim(r), AddStage(r)
  PROVE  Sound(r)
<1> DEFINE k == req[r].kr
<1>1. k \in Nat
  BY DEF AddStage, Claim, Finished, Request
<1>2. CASE Alive(k)
  <2>1. [id |-> lastStage + 1, kr |-> k, ord |-> 0, done |-> NotDone] \in Stage
    BY <1>1, ConstantsAssumption DEF Stage, TypeOK
  <2>2. DataOK' /\ row' = row
    BY <1>2, <2>1, WroteTyped DEF AddStage, TypeOK, DataOK
  <2> QED
    BY <1>2, <2>2, FinishSound DEF AddStage, Finished
<1>3. CASE ~Alive(k)
  <2>1. DataOK' /\ row' = row
    BY <1>3 DEF AddStage, TypeOK, DataOK
  <2> QED
    BY <1>3, <2>1, FinishSound DEF AddStage, Finished
<1> QED
  BY <1>2, <1>3

LEMMA DeleteRowSound ==
  ASSUME TypeOK, NEW r \in Req, Claim(r), DeleteRow(r)
  PROVE  Sound(r)
<1> DEFINE k == req[r].kr
<1>1. k \in DOMAIN row /\ Gone \in Row
  BY DEF DeleteRow, Claim, Finished, Gone, NoMeta, Row
<1>2. row' \in Seq(Row) /\ DOMAIN row' = DOMAIN row
  BY <1>1, RowReplaced DEF DeleteRow
<1>3. DataOK'
  BY <1>2, WroteTyped DEF DeleteRow, TypeOK, DataOK
<1> QED
  BY <1>2, <1>3, FinishSound DEF DeleteRow, Finished

LEMMA AbortSound ==
  ASSUME TypeOK, NEW r \in Req, Claim(r), Abort(r)
  PROVE  Sound(r)
<1>1. req[r] \in Request
  BY DEF Abort, Claim
<1>2. torn' \subseteq Nat
  BY <1>1, TearTyped DEF Abort, TypeOK
<1>3. DataOK' /\ row' = row
  BY <1>2 DEF Abort, data, TypeOK, DataOK
<1> QED
  BY <1>3, FinishSound DEF Abort, Finished

LEMMA StepSound ==
  ASSUME TypeOK, \A q \in Req : Claim(q), NEW r \in Req, Step(r)
  PROVE  TypeOK' /\ (\A q \in Req : Claim(q)') /\ Framed(r)
<1>1. Sound(r)
  <2>1. CASE Start(r)
    BY <2>1, StartSound
  <2>2. CASE CreateRow(r)
    BY <2>2, CreateRowSound
  <2>3. CASE UpdateRow(r)
    BY <2>3, UpdateRowSound
  <2>4. CASE UpsertMeta(r)
    BY <2>4, UpsertMetaSound
  <2>5. CASE ClearStages(r)
    BY <2>5, ClearStagesSound
  <2>6. CASE InsertStage(r)
    BY <2>6, InsertStageSound
  <2>7. CASE ReadKind(r)
    BY <2>7, ReadKindSound
  <2>8. CASE UpdateCurrent(r)
    BY <2>8, UpdateCurrentSound
  <2>9. CASE ListStages(r)
    BY <2>9, ListStagesSound
  <2>10. CASE MarkStage(r)
    BY <2>10, MarkStageSound
  <2>11. CASE AddStage(r)
    BY <2>11, AddStageSound
  <2>12. CASE DeleteRow(r)
    BY <2>12, DeleteRowSound
  <2>13. CASE Abort(r)
    BY <2>13, AbortSound
  <2> QED
    BY <2>1, <2>2, <2>3, <2>4, <2>5, <2>6, <2>7, <2>8, <2>9, <2>10, <2>11, <2>12, <2>13 DEF Step
<1>2. \A q \in Req \ {r} : Claim(q)'
  BY <1>1, ClaimFramed DEF Sound
<1> QED
  BY <1>1, <1>2 DEF Sound

-----------------------------------------------------------------------------
\* Data: what becomes of the data of one key result in a step of r.

\* The next state has the data of k, or r is about to write them, or has left
\* them out.
Provided(r, k) ==
  \/ Present(k, row[k].kind)'
  \/ k \in torn'
  \/ Writing(r, k)' /\ req'[r].kind = row'[k].kind

LEMMA DataFramed ==
  ASSUME NEW r \in Req, NEW k, HasData(k), Framed(r), torn \subseteq torn',
         Alive(k), row'[k].kind = row[k].kind,
         Present(k, row[k].kind) => Provided(r, k),
         Writing(r, k) /\ req[r].kind = row[k].kind => Provided(r, k)
  PROVE  HasData(k)'
<1>1. CASE Provided(r, k)
  BY <1>1 DEF Provided, HasData
<1>2. CASE ~Provided(r, k)
  <2>1. k \notin torn
    BY <1>2 DEF Provided
  <2>2. PICK q \in Req : Writing(q, k) /\ req[q].kind = row[k].kind
    BY <1>2, <2>1 DEF HasData
  <2>3. q # r
    BY <1>2, <2>2
  <2>4. Writing(q, k)' /\ req'[q].kind = row'[k].kind
    BY <2>2, <2>3 DEF Framed, Writing
  <2> QED
    BY <2>4 DEF HasData
<1> QED
  BY <1>1, <1>2

\* A step that leaves data alone, of a request that has none to write.
LEMMA DataUntouched ==
  ASSUME NEW r \in Req, NEW k, HasData(k), Framed(r), torn \subseteq torn',
         k \in DOMAIN row, row'[k] = row[k], k \in DOMAIN row',
         StagesOf(k) # {} => StagesOf(k)' # {},
         Writing(r, k) => k \in torn'
  PROVE  HasData(k)'
<1>1. CASE Alive(k)
  <2>1. Present(k, row[k].kind) => Present(k, row[k].kind)'
    BY DEF Present
  <2> QED
    BY <1>1, <2>1, DataFramed DEF Provided
<1>2. CASE ~Alive(k)
  BY <1>2 DEF HasData, Alive
<1> QED
  BY <1>1, <1>2

\* A step that writes neither rows nor stages.
LEMMA DataSame ==
  ASSUME NEW r \in Req, NEW k \in DOMAIN row, HasData(k), Framed(r), torn \subseteq torn',
         row' = row, stages' = stages, Writing(r, k) => k \in torn'
  PROVE  HasData(k)'
BY DataUntouched DEF StagesOf

LEMMA CreateRowData ==
  ASSUME TypeOK, NEW r \in Req, Claim(r), Framed(r), CreateRow(r),
         \A j \in DOMAIN row : HasData(j), NEW k \in DOMAIN row'
  PROVE  HasData(k)'
<1>1. req[r] \in Request /\ req[r].kind \in Kind /\ req[r].op \in EditOp
  BY DEF CreateRow, Claim, Finished, Request
<1>2. /\ DOMAIN row' = DOMAIN row \cup {Len(row) + 1}
      /\ row'[Len(row) + 1].kind = req[r].kind
      /\ \A j \in DOMAIN row : row'[j] = row[j]
  BY <1>1, RowAdded DEF CreateRow
<1>3. CASE k \in DOMAIN row
  <2>1. stages' = stages /\ torn \subseteq torn' /\ ~Writing(r, k)
    BY DEF CreateRow, Writing
  <2> QED
    BY <1>2, <1>3, <2>1, DataUntouched DEF StagesOf
<1>4. CASE k = Len(row) + 1 /\ req[r].valid
  <2>1. /\ pc' = [pc EXCEPT ![r] = DataStatement(req[r])]
        /\ req' = [req EXCEPT ![r].kr = Len(row) + 1]
    BY <1>4 DEF CreateRow
  <2>2. /\ pc'[r] = DataStatement(req[r]) /\ req'[r].kr = k
        /\ req'[r].kind = req[r].kind /\ req'[r].op = req[r].op
    BY <1>1, <1>4, <2>1 DEF TypeOK, Request
  <2>3. Writing(r, k)'
    BY <1>1, <2>2 DEF Writing, DataStatement
  <2> QED
    BY <1>2, <1>4, <2>2, <2>3 DEF HasData
<1>5. CASE k = Len(row) + 1 /\ ~req[r].valid
  BY <1>5 DEF CreateRow, HasData
<1> QED
  BY <1>2, <1>3, <1>4, <1>5

LEMMA UpdateRowData ==
  ASSUME TypeOK, NEW r \in Req, Claim(r), Framed(r), UpdateRow(r),
         NEW k \in DOMAIN row, HasData(k)
  PROVE  HasData(k)'
<1>1. /\ req[r] \in Request /\ req[r].kind \in Kind /\ req[r].op \in EditOp
      /\ req[r].kr \in DOMAIN row
  BY DEF UpdateRow, Claim, Finished, Request
<1>2. stages' = stages /\ torn \subseteq torn' /\ ~Writing(r, k)
  BY DEF UpdateRow, Tear, Writing
<1>3. CASE k # req[r].kr \/ ~Alive(k)
  <2>1. row'[k] = row[k] /\ k \in DOMAIN row'
    <3>1. CASE Alive(req[r].kr)
      BY <1>1, <1>3, <3>1, RowRekinded DEF UpdateRow, Rekinded
    <3>2. CASE ~Alive(req[r].kr)
      BY <3>2 DEF UpdateRow
    <3> QED
      BY <3>1, <3>2
  <2>2. StagesOf(k) # {} => StagesOf(k)' # {}
    BY <1>2 DEF StagesOf
  <2>3. Writing(r, k) => k \in torn'
    BY <1>2
  <2> QED
    BY <1>2, <2>1, <2>2, <2>3, DataUntouched
<1>4. CASE k = req[r].kr /\ Alive(k)
  <2>1. row'[k].kind = req[r].kind
    <3>1. row' = Rekinded(k, req[r].kind)
      BY <1>4 DEF UpdateRow, Rekinded
    <3> QED
      BY <1>1, <3>1, RowRekinded
  <2>2. CASE req[r].valid
    <3>1. pc'[r] = DataStatement(req[r]) /\ req'[r] = req[r]
      BY <2>2 DEF UpdateRow, GoTo, TypeOK
    <3>2. Writing(r, k)'
      BY <1>1, <1>4, <3>1 DEF Writing, DataStatement
    <3> QED
      BY <2>1, <3>1, <3>2 DEF HasData
  <2>3. CASE ~req[r].valid
    <3>1. k \in torn'
      BY <1>1, <1>4, <2>3 DEF UpdateRow, Tear
    <3> QED
      BY <3>1 DEF HasData
  <2> QED
    BY <2>2, <2>3
<1> QED
  BY <1>3, <1>4

LEMMA UpsertMetaData ==
  ASSUME TypeOK, NEW r \in Req, Claim(r), Framed(r), UpsertMeta(r),
         NEW k \in DOMAIN row, HasData(k)
  PROVE  HasData(k)'
<1> DEFINE t == req[r].kind
<1>1. /\ t \in Measured /\ req[r].value \in Value /\ req[r].kr \in DOMAIN row
  BY DEF UpsertMeta, Claim, Finished, Request
<1>2. stages' = stages /\ torn' = torn
  BY DEF UpsertMeta
<1>3. CASE Alive(req[r].kr) /\ k = req[r].kr
  <2>1. /\ row'[k].kind = row[k].kind /\ row'[k].meta[t] = req[r].value
        /\ \A u \in Measured \ {t} : row'[k].meta[u] = row[k].meta[u]
        /\ k \in DOMAIN row'
    BY <1>1, <1>3, RowMeasured DEF UpsertMeta, Remeasured
  <2>2. row'[k].meta[t] # NoValue
    BY <1>1, <2>1, ConstantsAssumption
  <2>3. row[k].kind \in Kind
    BY <1>3, RowTyped DEF Alive, Row
  <2>4. Present(k, row[k].kind) => Provided(r, k)
    BY <1>2, <2>1, <2>2, <2>3 DEF Present, Provided, StagesOf, Kind
  <2>5. Writing(r, k) /\ t = row[k].kind => Provided(r, k)
    BY <1>1, <2>1, <2>2 DEF Present, Provided, Measured
  <2> QED
    BY <1>2, <1>3, <2>1, <2>4, <2>5, DataFramed
<1>4. CASE ~(Alive(req[r].kr) /\ k = req[r].kr)
  <2>1. row'[k] = row[k] /\ k \in DOMAIN row'
    <3>1. CASE Alive(req[r].kr)
      BY <1>1, <1>4, <3>1, RowMeasured DEF UpsertMeta, Remeasured
    <3>2. CASE ~Alive(req[r].kr)
      BY <3>2 DEF UpsertMeta
    <3> QED
      BY <3>1, <3>2
  <2>2. CASE k # req[r].kr
    BY <1>2, <2>1, <2>2, DataUntouched DEF StagesOf, Writing
  <2>3. CASE ~Alive(k)
    BY <2>1, <2>3 DEF HasData, Alive
  <2> QED
    BY <1>4, <2>2, <2>3
<1> QED
  BY <1>3, <1>4

LEMMA ClearStagesData ==
  ASSUME TypeOK, NEW r \in Req, Claim(r), Framed(r), ClearStages(r),
         NEW k \in DOMAIN row, HasData(k)
  PROVE  HasData(k)'
<1>1. /\ row' = row /\ torn' = torn /\ stages' = stages \ StagesOf(req[r].kr)
      /\ req[r].op \in EditOp /\ req[r].kind = "project"
  BY DEF ClearStages, Claim
<1>2. pc'[r] = "insert" /\ req'[r] = req[r]
  BY DEF ClearStages, GoTo, TypeOK
<1>3. CASE k = req[r].kr /\ Alive(k)
  <2>1. Writing(r, k)'
    BY <1>1, <1>2, <1>3 DEF Writing
  <2>2. Present(k, row[k].kind) => Provided(r, k)
    BY <1>1, <1>2, <2>1 DEF Present, Provided
  <2>3. Writing(r, k) /\ req[r].kind = row[k].kind => Provided(r, k)
    BY <1>1, <1>2, <2>1 DEF Provided
  <2> QED
    BY <1>1, <1>3, <2>2, <2>3, DataFramed
<1>4. CASE k # req[r].kr
  <2>1. StagesOf(k)' = StagesOf(k)
    BY <1>1, <1>4 DEF StagesOf
  <2> QED
    BY <1>1, <1>4, <2>1, DataUntouched DEF Writing
<1>5. CASE ~Alive(k)
  BY <1>1, <1>5 DEF HasData, Alive
<1> QED
  BY <1>3, <1>4, <1>5

LEMMA InsertStageData ==
  ASSUME TypeOK, NEW r \in Req, Claim(r), Framed(r), InsertStage(r),
         NEW k \in DOMAIN row, HasData(k)
  PROVE  HasData(k)'
<1>1. row' = row /\ torn' = torn /\ req[r].kind = "project" /\ stages \subseteq stages'
  BY DEF InsertStage, Claim
<1>2. Present(k, row[k].kind) => Present(k, row[k].kind)'
  BY <1>1 DEF Present, StagesOf
<1>3. CASE k = req[r].kr /\ Alive(k)
  <2>1. StagesOf(k)' # {}
    <3>1. [id |-> lastStage + 1, kr |-> k, ord |-> idx[r], done |-> req[r].flags[idx[r]]] \in stages'
      BY <1>3 DEF InsertStage
    <3> QED
      BY <3>1 DEF StagesOf
  <2>2. Writing(r, k) /\ req[r].kind = row[k].kind => Present(k, row[k].kind)'
    BY <1>1, <2>1 DEF Present
  <2> QED
    BY <1>1, <1>2, <1>3, <2>2, DataFramed DEF Provided
<1>4. CASE k # req[r].kr /\ Alive(k)
  BY <1>1, <1>2, <1>4, DataFramed DEF Provided, Writing
<1>5. CASE ~Alive(k)
  BY <1>1, <1>5 DEF HasData, Alive
<1> QED
  BY <1>3, <1>4, <1>5

LEMMA UpdateCurrentData ==
  ASSUME TypeOK, NEW r \in Req, Claim(r), Framed(r), UpdateCurrent(r),
         NEW k \in DOMAIN row, HasData(k)
  PROVE  HasData(k)'
<1> DEFINE t == req[r].kind
           j == req[r].kr
<1>1. t \in Measured /\ req[r].value \in Value /\ j \in DOMAIN row
  BY DEF UpdateCurrent, Claim, Finished, Request
<1>2. stages' = stages /\ torn' = torn /\ ~Writing(r, k)
  BY DEF UpdateCurrent, Writing
<1>3. CASE row[j].meta[t] # NoValue /\ k = j
  <2>1. /\ row'[k].kind = row[k].kind /\ row'[k].meta[t] = req[r].value
        /\ \A u \in Measured \ {t} : row'[k].meta[u] = row[k].meta[u]
        /\ k \in DOMAIN row'
    <3>1. row' = [row EXCEPT ![j].meta[t] = req[r].value]
      BY <1>3 DEF UpdateCurrent
    <3>2. /\ row'[j].kind = row[j].kind /\ row'[j].meta[t] = req[r].value
          /\ \A u \in Measured \ {t} : row'[j].meta[u] = row[j].meta[u]
          /\ j \in DOMAIN row'
      <4>1. row' = Remeasured(j, t, req[r].value)
        BY <3>1 DEF Remeasured
      <4> HIDE DEF t, j
      <4> QED
        BY <1>1, <4>1, RowMeasured
    <3> QED
      BY <1>3, <3>2
  <2>2. row'[k].meta[t] # NoValue
    BY <1>1, <2>1, ConstantsAssumption
  <2>3. CASE Alive(k)
    <3>1. row[k].kind \in Kind
      BY <2>3, RowTyped DEF Alive, Row
    <3>2. Present(k, row[k].kind) => Provided(r, k)
      BY <1>2, <2>1, <2>2, <3>1 DEF Present, Provided, StagesOf, Kind
    <3> QED
      BY <1>2, <2>1, <2>3, <3>2, DataFramed
  <2>4. CASE ~Alive(k)
    BY <2>1, <2>4 DEF HasData, Alive
  <2> QED
    BY <2>3, <2>4
<1>4. CASE ~(row[j].meta[t] # NoValue /\ k = j)
  <2>1. row'[k] = row[k] /\ k \in DOMAIN row'
    <3>1. CASE row[j].meta[t] # NoValue
      BY <1>1, <1>4, <3>1, RowMeasured DEF UpdateCurrent, Remeasured
    <3>2. CASE row[j].meta[t] = NoValue
      BY <3>2 DEF UpdateCurrent
    <3> QED
      BY <3>1, <3>2
  <2> QED
    BY <1>2, <2>1, DataUntouched DEF StagesOf
<1> QED
  BY <1>3, <1>4

LEMMA MarkStageData ==
  ASSUME TypeOK, NEW r \in Req, Claim(r), Framed(r), MarkStage(r),
         NEW k \in DOMAIN row, HasData(k)
  PROVE  HasData(k)'
<1>1. PICK s \in listed[r] : stages' = Marked(stages, s.id, req[r].value)
  BY DEF MarkStage
<1>2. row' = row /\ torn' = torn /\ ~Writing(r, k)
  BY DEF MarkStage, Writing
<1>3. ASSUME NEW y \in StagesOf(k) PROVE StagesOf(k)' # {}
  <2> DEFINE z == IF y.id = s.id THEN [y EXCEPT !.done = req[r].value] ELSE y
  <2>1. z \in stages'
    BY <1>1 DEF Marked, StagesOf
  <2>2. z.kr = k
    BY DEF StagesOf, TypeOK, Stage
  <2> QED
    BY <2>1, <2>2 DEF StagesOf
<1> QED
  BY <1>2, <1>3, DataUntouched

LEMMA DeleteRowData ==
  ASSUME TypeOK, NEW r \in Req, Claim(r), Framed(r), DeleteRow(r),
         NEW k \in DOMAIN row, HasData(k)
  PROVE  HasData(k)'
<1> DEFINE j == req[r].kr
<1>1. j \in DOMAIN row /\ Gone \in Row
  BY DEF DeleteRow, Claim, Finished, Gone, NoMeta, Row
<1>2. /\ DOMAIN row' = DOMAIN row /\ row'[j] = Gone
      /\ \A i \in DOMAIN row \ {j} : row'[i] = row[i]
  BY <1>1, RowReplaced DEF DeleteRow
<1>3. CASE k = j
  BY <1>2, <1>3 DEF HasData, Alive, Gone
<1>4. CASE k # j
  <2>1. StagesOf(k)' = StagesOf(k) /\ torn' = torn /\ ~Writing(r, k)
    BY <1>4 DEF DeleteRow, StagesOf, Writing
  <2> QED
    BY <1>2, <1>4, <2>1, DataUntouched
<1> QED
  BY <1>3, <1>4

LEMMA StepData ==
  ASSUME TypeOK, NEW r \in Req, Claim(r), Framed(r), Step(r),
         \A j \in DOMAIN row : HasData(j), NEW k \in DOMAIN row'
  PROVE  HasData(k)'
<1>1. CASE CreateRow(r)
  BY <1>1, CreateRowData
<1>2. CASE ~CreateRow(r)
  <2>1. k \in DOMAIN row
    <3>1. DOMAIN row' = DOMAIN row
      <4>1. CASE UpdateRow(r)
        BY <4>1 DEF UpdateRow
      <4>2. CASE UpsertMeta(r) \/ UpdateCurrent(r) \/ DeleteRow(r)
        BY <4>2 DEF UpsertMeta, UpdateCurrent, DeleteRow
      <4> QED
        BY <1>2, <4>1, <4>2 DEF Step, Start, ClearStages, InsertStage, ReadKind, ListStages,
           MarkStage, AddStage, Abort, data
    <3> QED
      BY <3>1
  <2>2. HasData(k)
    BY <2>1
  <2>3. CASE Start(r)
    <3>1. row' = row /\ stages' = stages /\ torn' = torn /\ ~Writing(r, k)
      BY <2>3 DEF Start, data, Finished, Writing
    <3> QED
      BY <2>1, <2>2, <3>1, DataSame
  <2>4. CASE UpdateRow(r)
    BY <2>1, <2>2, <2>4, UpdateRowData
  <2>5. CASE UpsertMeta(r)
    BY <2>1, <2>2, <2>5, UpsertMetaData
  <2>6. CASE ClearStages(r)
    BY <2>1, <2>2, <2>6, ClearStagesData
  <2>7. CASE InsertStage(r)
    BY <2>1, <2>2, <2>7, InsertStageData
  <2>8. CASE ReadKind(r) \/ ListStages(r)
    <3>1. row' = row /\ stages' = stages /\ torn' = torn /\ ~Writing(r, k)
      BY <2>8 DEF ReadKind, ListStages, data, Writing
    <3> QED
      BY <2>1, <2>2, <3>1, DataSame
  <2>9. CASE UpdateCurrent(r)
    BY <2>1, <2>2, <2>9, UpdateCurrentData
  <2>10. CASE MarkStage(r)
    BY <2>1, <2>2, <2>10, MarkStageData
  <2>11. CASE AddStage(r)
    <3>1. row' = row /\ stages \subseteq stages' /\ torn' = torn /\ ~Writing(r, k)
      BY <2>11 DEF AddStage, Writing
    <3> QED
      BY <2>1, <2>2, <3>1, DataUntouched DEF StagesOf
  <2>12. CASE DeleteRow(r)
    BY <2>1, <2>2, <2>12, DeleteRowData
  <2>13. CASE Abort(r)
    <3>1. row' = row /\ stages' = stages /\ torn \subseteq torn'
      BY <2>13 DEF Abort, data, Tear
    <3>2. Writing(r, k) => k \in torn'
      BY <2>13 DEF Abort, Tear, Writing
    <3> QED
      BY <2>1, <2>2, <3>1, <3>2, DataSame
  <2> QED
    BY <1>2, <2>3, <2>4, <2>5, <2>6, <2>7, <2>8, <2>9, <2>10, <2>11, <2>12, <2>13 DEF Step
<1> QED
  BY <1>1, <1>2

-----------------------------------------------------------------------------
\* Theorems

LEMMA InitInv == Init => KeyResultInv
<1> SUFFICES ASSUME Init PROVE KeyResultInv
  OBVIOUS
<1>1. row \in Seq(Row) /\ DOMAIN row = {}
  BY EmptySeq, LenProperties DEF Init
<1>2. TypeOK
  BY <1>1, ConstantsAssumption DEF Init, TypeOK, Label, Finished
<1>3. \A r \in Req : Claim(r)
  BY DEF Init, Claim, Finished
<1> QED
  BY <1>1, <1>2, <1>3 DEF KeyResultInv

LEMMA NextInv == KeyResultInv /\ [Next]_vars => KeyResultInv'
<1> SUFFICES ASSUME KeyResultInv, [Next]_vars PROVE KeyResultInv'
  OBVIOUS
<1>1. CASE Next
  <2>1. PICK r \in Req : Step(r)
    BY <1>1 DEF Next
  <2>2. TypeOK' /\ (\A q \in Req : Claim(q)') /\ Framed(r)
    BY <2>1, StepSound DEF KeyResultInv
  <2>3. \A k \in DOMAIN row' : HasData(k)'
    BY <2>1, <2>2, StepData DEF KeyResultInv
  <2> QED
    BY <2>2, <2>3 DEF KeyResultInv
<1>2. CASE UNCHANGED vars
  <2>1. /\ row' = row /\ stages' = stages /\ lastStage' = lastStage /\ pc' = pc
        /\ req' = req /\ listed' = listed /\ idx' = idx /\ sent' = sent
        /\ torn' = torn /\ disturbed' = disturbed
    BY <1>2 DEF vars
  <2>2. TypeOK'
    BY <2>1 DEF KeyResultInv, TypeOK
  <2>3. \A r \in Req : Claim(r)'
    BY <2>1 DEF KeyResultInv, Claim
  <2>4. \A k \in DOMAIN row' : HasData(k)'
    BY <2>1 DEF KeyResultInv, HasData, Alive, Present, StagesOf, Writing
  <2> QED
    BY <2>2, <2>3, <2>4 DEF KeyResultInv
<1> QED
  BY <1>1, <1>2

\* Every variable keeps its type: in particular a stage is only ever inserted
\* from the form's list, and metadata only written for a measured kind.
THEOREM TypeCorrect == Spec => []TypeOK
<1>1. KeyResultInv => TypeOK
  BY DEF KeyResultInv
<1> QED
  BY InitInv, NextInv, <1>1, PTL DEF Spec

\* A key result has the data of its kind once the edits of it are over, however
\* they overlapped, unless one of them ended halfway (UpdateKeyResult, then
\* applyKeyResultMeta, without a transaction).
THEOREM DataOfItsKindCorrect == Spec => []DataOfItsKind
<1>1. KeyResultInv => DataOfItsKind
  BY DEF KeyResultInv, HasData, DataOfItsKind
<1> QED
  BY InitInv, NextInv, <1>1, PTL DEF Spec

=============================================================================
