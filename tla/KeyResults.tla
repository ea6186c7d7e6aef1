----------------------------- MODULE KeyResults -----------------------------
(***************************************************************************)
(* Key results, the data of their kind, and the requests that edit them    *)
(* and report progress.                                                    *)
(*                                                                         *)
(* A key result is a row of key_results; its data are a row of             *)
(* kr_percent_meta, kr_linear_meta or kr_boolean_meta, or rows of          *)
(* kr_project_stages, by its kind.  Rows and data are written by separate  *)
(* autocommitted statements, each an action here, and rows of a kind that  *)
(* a key result no longer has stay behind.                                 *)
(*                                                                         *)
(* Title, description and weight are abstracted away, and so are start and *)
(* target values and the titles and weights of stages; the order of key    *)
(* results is in module SortOrder.  updated_at, which most statements are  *)
(* followed by an UPDATE of, is left out.                                  *)
(***************************************************************************)
EXTENDS Integers, Sequences, FiniteSets

CONSTANTS
  Value,        \* measured values: a current_value, or an is_done
  NoValue,      \* no metadata row
  NotDone,      \* is_done = FALSE
  Req,          \* request slots: the handlers that can be in flight together
  Requests,     \* the requests clients send, see Request
  MaxSent,      \* bound: how many requests are sent
  Interruptible \* TRUE: a client may disconnect, or the server stop, mid-request

Measured == {"percent", "linear", "boolean"}   \* the kinds with a metadata row

Kind == Measured \cup {"project"}

EditOp == {"create", "edit"}

Op == EditOp \cup {"percent", "boolean", "project",   \* progress, by the API
                   "direct", "stages", "toggle", "addStage", "delete"}

\* A request about key result kr: its kind field (a progress report's is the
\* kind it is for), the value or the stages' marks it submits, the stages it
\* names, and whether its form passes start # target and the check of stages.
Request == [op : Op, kr : Nat, kind : Kind, valid : BOOLEAN,
            value : Value, flags : Seq(Value), ids : SUBSET Nat]

\* parseProjectStages refuses an empty list.
ASSUME ConstantsAssumption ==
  /\ NoValue \notin Value /\ NotDone \in Value
  /\ Requests \subseteq Request
  /\ \A q \in Requests :
        /\ q.op \in {"boolean", "project"} => q.kind = q.op
        /\ q.op = "direct" => q.kind \in Measured
        /\ q.op \in EditOp /\ q.kind = "project" /\ q.valid => q.flags # << >>
  /\ MaxSent \in Nat
  /\ Interruptible \in BOOLEAN

VARIABLES
  row,       \* row[k]: kind of key result k, and its row in each metadata table
  stages,    \* the rows of kr_project_stages
  lastStage, \* the last id the sequence of kr_project_stages gave out
  pc,        \* pc[r]: the next statement of the request in slot r
  req,       \* req[r]: that request, its kr and kind as it has learnt them
  listed,    \* listed[r]: the stages whose mark it is still to write
  idx,       \* idx[r]: the next stage it inserts
  sent,      \* how many requests were sent
  torn,      \* history: key results of which an edit ended before its data were written
  disturbed  \* history: another request wrote to r's key result since r began

locals == <<pc, req, listed, idx>>
data   == <<row, stages, lastStage>>
vars   == <<row, stages, lastStage, pc, req, listed, idx, sent, torn, disturbed>>

Finished == {"done", "failed"}

Label == Finished \cup {"create", "update", "meta", "clear", "insert",
                        "read", "current", "list", "mark", "add", "delete"}

NoRequest == [op |-> "none", kr |-> 0]
NoMeta == [t \in Measured |-> NoValue]
Gone == [kind |-> "deleted", meta |-> NoMeta]

Alive(k) == k \in DOMAIN row /\ row[k].kind # "deleted"

StagesOf(k) == {s \in stages : s.kr = k}

-----------------------------------------------------------------------------
\* Steps of a request

Finish(r, outcome) ==
  /\ pc' = [pc EXCEPT ![r] = outcome]
  /\ req' = [req EXCEPT ![r] = NoRequest]
  /\ listed' = [listed EXCEPT ![r] = {}]
  /\ idx' = [idx EXCEPT ![r] = 1]

GoTo(r, label) == pc' = [pc EXCEPT ![r] = label] /\ UNCHANGED <<req, listed, idx>>

\* r has written to key result k: the requests that others have under way for
\* k are disturbed.
Wrote(r, k) ==
  disturbed' = [q \in Req |-> disturbed[q] \/ (q # r /\ req[q].kr = k)]

\* The request ends without the data that its kind calls for.
Tear(r) ==
  torn' = IF req[r].op \in EditOp /\ pc[r] \in {"update", "meta", "clear", "insert"}
          THEN torn \cup {req[r].kr} ELSE torn

FirstStatement(q) ==
  CASE q.op = "create" -> "create"
    [] q.op = "edit" -> "update"
    [] q.op \in {"percent", "boolean", "project", "delete"} -> "read"
    [] q.op = "direct" -> IF q.kind = "boolean" THEN "meta" ELSE "current"
    [] q.op = "stages" -> "list"
    [] q.op = "toggle" -> "mark"
    [] q.op = "addStage" -> "add"

\* Clients name only key results and stages that they were shown.  (The API
\* refuses an invalid form before any statement: that request is not sent.)
Start(r) ==
  /\ pc[r] \in Finished
  /\ sent < MaxSent
  /\ \E q \in Requests :
       /\ q.op # "create" => q.kr \in DOMAIN row
       /\ \A i \in q.ids : i <= lastStage
       /\ pc' = [pc EXCEPT ![r] = FirstStatement(q)]
       /\ req' = [req EXCEPT ![r] = q]
       /\ listed' = [listed EXCEPT ![r] =
            IF q.op = "toggle" THEN {[id |-> i, ord |-> 0] : i \in q.ids} ELSE {}]
  /\ sent' = sent + 1
  /\ disturbed' = [disturbed EXCEPT ![r] = FALSE]
  /\ UNCHANGED <<data, idx, torn>>

-----------------------------------------------------------------------------
\* Create and edit: the row, then the data

DataStatement(q) == IF q.kind = "project" THEN "clear" ELSE "meta"

CreateRow(r) ==
  /\ pc[r] = "create"
  /\ row' = Append(row, [kind |-> req[r].kind, meta |-> NoMeta])
  /\ IF req[r].valid
     THEN /\ pc' = [pc EXCEPT ![r] = DataStatement(req[r])]
          /\ req' = [req EXCEPT ![r].kr = Len(row) + 1]
          /\ UNCHANGED <<listed, idx, torn>>
     ELSE Finish(r, "failed") /\ torn' = torn \cup {Len(row) + 1}
  /\ disturbed' = [disturbed EXCEPT ![r] = FALSE]
  /\ UNCHANGED <<stages, lastStage, sent>>

\* The pages look at the rest of the form only now; no row is updated once the
\* key result is gone.
UpdateRow(r) ==
  /\ pc[r] = "update"
  /\ LET k == req[r].kr
     IN /\ row' = IF Alive(k) THEN [row EXCEPT ![k].kind = req[r].kind] ELSE row
        /\ Wrote(r, k)
  /\ IF req[r].valid
     THEN GoTo(r, DataStatement(req[r])) /\ UNCHANGED torn
     ELSE Finish(r, "failed") /\ Tear(r)
  /\ UNCHANGED <<stages, lastStage, sent>>

\* Mutant: the metadata row is updated where it should be upserted.
UpsertMetaNever(r) ==
  /\ pc[r] = "meta"
  /\ LET k == req[r].kr  t == req[r].kind
     IN /\ row' = IF Alive(k) /\ row[k].meta[t] # NoValue
                  THEN [row EXCEPT ![k].meta[t] = req[r].value] ELSE row
        /\ Wrote(r, k)
  /\ Finish(r, "done")
  /\ UNCHANGED <<stages, lastStage, sent, torn>>

\* INSERT ... ON CONFLICT DO UPDATE: the foreign key wants the key result.
UpsertMeta(r) ==
  /\ pc[r] = "meta"
  /\ LET k == req[r].kr
     IN IF Alive(k)
        THEN /\ row' = [row EXCEPT ![k].meta[req[r].kind] = req[r].value]
             /\ Wrote(r, k)
             /\ Finish(r, "done")
        ELSE Finish(r, "failed") /\ UNCHANGED <<row, disturbed>>
  /\ UNCHANGED <<stages, lastStage, sent, torn>>

\* Mutant: the stages that were there stay.
ClearNoStages(r) ==
  /\ pc[r] = "clear"
  /\ GoTo(r, "insert")
  /\ UNCHANGED <<data, sent, torn, disturbed>>

\* ReplaceProjectStages: the DELETE, then an INSERT for each stage.
ClearStages(r) ==
  /\ pc[r] = "clear"
  /\ stages' = stages \ StagesOf(req[r].kr)
  /\ Wrote(r, req[r].kr)
  /\ GoTo(r, "insert")
  /\ UNCHANGED <<row, lastStage, sent, torn>>

InsertStage(r) ==
  /\ pc[r] = "insert"
  /\ LET k == req[r].kr  i == idx[r]
     IN IF Alive(k)
        THEN /\ stages' = stages \cup
                  {[id |-> lastStage + 1, kr |-> k, ord |-> i, done |-> req[r].flags[i]]}
             /\ lastStage' = lastStage + 1
             /\ Wrote(r, k)
             /\ IF i = Len(req[r].flags)
                THEN Finish(r, "done")
                ELSE idx' = [idx EXCEPT ![r] = i + 1] /\ UNCHANGED <<pc, req, listed>>
        ELSE Finish(r, "failed") /\ UNCHANGED <<stages, lastStage, disturbed>>
  /\ UNCHANGED <<row, sent, torn>>

-----------------------------------------------------------------------------
\* Progress, and the remaining requests

AfterRead(q, kind) ==
  CASE q.op = "percent" /\ kind \in {"percent", "linear"} -> "current"
    [] q.op = "boolean" /\ kind = "boolean" -> "meta"
    [] q.op = "project" /\ kind = "project" -> "list"
    [] q.op = "delete" -> "delete"
    [] OTHER -> "failed"

\* Mutant: linear key results are taken for percent ones.
ReadKindPercentOnly(r) ==
  /\ pc[r] = "read"
  /\ LET k == req[r].kr
         next == IF Alive(k) THEN AfterRead(req[r], row[k].kind) ELSE "failed"
     IN IF next = "failed" THEN Finish(r, "failed") ELSE GoTo(r, next)
  /\ UNCHANGED <<data, sent, torn, disturbed>>

\* GetKeyResult: the kind decides what a progress report writes, or refuses it.
\* (A page's deletion reads the goal's id for its redirect.)
ReadKind(r) ==
  /\ pc[r] = "read"
  /\ LET k == req[r].kr
         next == IF Alive(k) THEN AfterRead(req[r], row[k].kind) ELSE "failed"
     IN IF next = "failed"
        THEN Finish(r, "failed")
        ELSE /\ pc' = [pc EXCEPT ![r] = next]
             /\ req' = [req EXCEPT ![r].kind = row[k].kind]
             /\ UNCHANGED <<listed, idx>>
  /\ UNCHANGED <<data, sent, torn, disturbed>>

\* UPDATE of current_value, which finds no row where there are no metadata.
UpdateCurrent(r) ==
  /\ pc[r] = "current"
  /\ LET k == req[r].kr  t == req[r].kind
     IN /\ row' = IF row[k].meta[t] # NoValue
                  THEN [row EXCEPT ![k].meta[t] = req[r].value] ELSE row
        /\ Wrote(r, k)
  /\ Finish(r, "done")
  /\ UNCHANGED <<stages, lastStage, sent, torn>>

\* Mutant: the stages named are taken as they come, of whatever key result.
ListAnyStages(r) ==
  /\ pc[r] = "list"
  /\ LET wanted == {s \in stages : s.id \in req[r].ids}
     IN IF wanted = {}
        THEN Finish(r, "done")
        ELSE /\ listed' = [listed EXCEPT ![r] = {[id |-> s.id, ord |-> s.ord] : s \in wanted}]
             /\ pc' = [pc EXCEPT ![r] = "mark"]
             /\ UNCHANGED <<req, idx>>
  /\ UNCHANGED <<data, sent, torn, disturbed>>

\* The stages of the key result that the request names, others are ignored.
ListStages(r) ==
  /\ pc[r] = "list"
  /\ LET wanted == {s \in StagesOf(req[r].kr) : s.id \in req[r].ids}
     IN IF wanted = {}
        THEN Finish(r, "done")
        ELSE /\ listed' = [listed EXCEPT ![r] = {[id |-> s.id, ord |-> s.ord] : s \in wanted}]
             /\ pc' = [pc EXCEPT ![r] = "mark"]
             /\ UNCHANGED <<req, idx>>
  /\ UNCHANGED <<data, sent, torn, disturbed>>

Marked(S, id, done) == {IF s.id = id THEN [s EXCEPT !.done = done] ELSE s : s \in S}

WroteStage(r, id) ==
  disturbed' = [q \in Req |-> disturbed[q] \/ (q # r /\ \E s \in StagesOf(req[q].kr) : s.id = id)]

\* UpdateProjectStageDone, in the order of the list: no row where a stage has gone.
MarkStage(r) ==
  /\ pc[r] = "mark"
  /\ \E s \in listed[r] :
       /\ \A t \in listed[r] : s.ord <= t.ord
       /\ stages' = Marked(stages, s.id, req[r].value)
       /\ WroteStage(r, s.id)
       /\ IF listed[r] = {s}
          THEN Finish(r, "done")
          ELSE listed' = [listed EXCEPT ![r] = @ \ {s}] /\ UNCHANGED <<pc, req, idx>>
  /\ UNCHANGED <<row, lastStage, sent, torn>>

\* Mutant: the INSERT leaves is_done open.
AddStageUnmarked(r) ==
  /\ pc[r] = "add"
  /\ LET k == req[r].kr
     IN IF Alive(k)
        THEN /\ stages' = stages \cup
                  {[id |-> lastStage + 1, kr |-> k, ord |-> 0, done |-> NoValue]}
             /\ lastStage' = lastStage + 1
             /\ Wrote(r, k)
             /\ Finish(r, "done")
        ELSE Finish(r, "failed") /\ UNCHANGED <<stages, lastStage, disturbed>>
  /\ UNCHANGED <<row, sent, torn>>

\* HandleAddStage: a stage that is not done, its sort_order left out.
AddStage(r) ==
  /\ pc[r] = "add"
  /\ LET k == req[r].kr
     IN IF Alive(k)
        THEN /\ stages' = stages \cup
                  {[id |-> lastStage + 1, kr |-> k, ord |-> 0, done |-> NotDone]}
             /\ lastStage' = lastStage + 1
             /\ Wrote(r, k)
             /\ Finish(r, "done")
        ELSE Finish(r, "failed") /\ UNCHANGED <<stages, lastStage, disturbed>>
  /\ UNCHANGED <<row, sent, torn>>

\* DeleteKeyResult: metadata and stages go by ON DELETE CASCADE.
DeleteRow(r) ==
  /\ pc[r] = "delete"
  /\ LET k == req[r].kr
     IN /\ row' = [row EXCEPT ![k] = Gone]
        /\ stages' = stages \ StagesOf(k)
        /\ Wrote(r, k)
  /\ Finish(r, "done")
  /\ UNCHANGED <<lastStage, sent, torn>>

\* The handler ends without its remaining statements; what it wrote stays.
Abort(r) ==
  /\ Interruptible
  /\ pc[r] \notin Finished
  /\ IF pc[r] = "update" THEN UNCHANGED torn ELSE Tear(r)
  /\ Finish(r, "failed")
  /\ UNCHANGED <<data, sent, disturbed>>

\* A goal without key results.
Init ==
  /\ row = << >>
  /\ stages = {}
  /\ lastStage = 0
  /\ pc = [r \in Req |-> "done"]
  /\ req = [r \in Req |-> NoRequest]
  /\ listed = [r \in Req |-> {}]
  /\ idx = [r \in Req |-> 1]
  /\ sent = 0
  /\ torn = {}
  /\ disturbed = [r \in Req |-> FALSE]

Step(r) ==
  \/ Start(r)
  \/ CreateRow(r)
  \/ UpdateRow(r)
  \/ UpsertMeta(r)
  \/ ClearStages(r)
  \/ InsertStage(r)
  \/ ReadKind(r)
  \/ UpdateCurrent(r)
  \/ ListStages(r)
  \/ MarkStage(r)
  \/ AddStage(r)
  \/ DeleteRow(r)
  \/ Abort(r)

Next == \E r \in Req : Step(r)

Spec == Init /\ [][Next]_vars

-----------------------------------------------------------------------------
\* Properties

Row == [kind : Kind \cup {"deleted"}, meta : [Measured -> Value \cup {NoValue}]]

Stage == [id : Nat, kr : Nat, ord : Nat, done : Value]

\* Every variable has its type.
TypeOK ==
  /\ row \in Seq(Row)
  /\ stages \subseteq Stage
  /\ lastStage \in Nat
  /\ pc \in [Req -> Label]
  /\ req \in [Req -> Request \cup {NoRequest}]
  /\ listed \in [Req -> SUBSET [id : Nat, ord : Nat]]
  /\ idx \in [Req -> Nat \ {0}]
  /\ sent \in 0..MaxSent
  /\ torn \subseteq Nat
  /\ disturbed \in [Req -> BOOLEAN]

\* Key result k has what its page shows for this kind: metadata, or a stage.
Present(k, kind) ==
  IF kind = "project" THEN StagesOf(k) # {} ELSE row[k].meta[kind] # NoValue

\* A create or an edit of k that has written the row and not yet all its data.
Writing(r, k) ==
  req[r].op \in EditOp /\ req[r].kr = k /\ pc[r] \in {"meta", "clear", "insert"}

\* A key result has the data of its kind, whatever edits have overlapped, once
\* they are over: unless one of them ended halfway.
DataOfItsKind ==
  \A k \in DOMAIN row : Alive(k) /\ k \notin torn /\ (\A r \in Req : ~Writing(r, k))
                          => Present(k, row[k].kind)

\* The pages' own message: a project key result needs at least one stage.
ProjectHasStages ==
  \A k \in DOMAIN row : row[k].kind = "project" /\ (\A r \in Req : ~Writing(r, k))
                          => StagesOf(k) # {}

Succeeds(r) == pc[r] \notin Finished /\ pc'[r] = "done"

\* The stages in S are those of the form, in its order.
AsSubmitted(S, flags) ==
  /\ Cardinality(S) = Len(flags)
  /\ \A i \in DOMAIN flags : \E s \in S : s.ord = i /\ s.done = flags[i]

\* A create or an edit that succeeds, while nobody else wrote to its key
\* result, leaves it as the form says, whatever it was before.
EditTakesEffect ==
  [][\A r \in Req : \A k \in {req[r].kr} :
        Succeeds(r) /\ req[r].op \in EditOp /\ ~disturbed[r]
        => /\ row'[k].kind = req[r].kind
           /\ \/ req[r].kind = "project" /\ AsSubmitted({s \in stages' : s.kr = k}, req[r].flags)
              \/ req[r].kind # "project" /\ row'[k].meta[req[r].kind] = req[r].value]_vars

\* What the page of key result k shows as measured.
ShownValue(k) == row[k].meta[row[k].kind]

\* A progress report that succeeds is the progress shown, while nobody else
\* wrote to the key result or is about to write its data.
ProgressTakesEffect ==
  [][\A r \in Req : \A k \in {req[r].kr} \ torn :
        /\ Succeeds(r) /\ ~disturbed[r]
        /\ req[r].op \in {"percent", "boolean", "project"}
        /\ \A q \in Req : ~Writing(q, k)
        => \/ /\ req[r].op = "project"
              /\ \A s \in StagesOf(k)' : s.id \in req[r].ids => s.done = req[r].value
           \/ req[r].op # "project" /\ ShownValue(k)' = req[r].value]_vars

Touched(k) == StagesOf(k)' # StagesOf(k) \/ (k \in DOMAIN row /\ row'[k] # row[k])

\* A request changes only the key result it is about (a toggle is about a
\* stage), although it may name stages of others, or stages since replaced.
OnlyItsKeyResult ==
  [][\A r \in Req : \A k \in 1..Len(row') :
        /\ <<pc[r], idx[r], listed[r]>>' # <<pc[r], idx[r], listed[r]>>
        /\ pc[r] \notin Finished /\ req[r].op \notin {"create", "toggle"} /\ req[r].kr # k
        => ~Touched(k)]_vars

=============================================================================
