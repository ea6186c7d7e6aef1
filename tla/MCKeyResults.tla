---------------------------- MODULE MCKeyResults ----------------------------
(***************************************************************************)
(* Requests and constants under which TLC checks KeyResults.               *)
(***************************************************************************)
EXTENDS KeyResults, TLC

CONSTANTS r1, r2

Ask(op, k, kind, valid, flags, ids) ==
  [op |-> op, kr |-> k, kind |-> kind, valid |-> valid, value |-> 1,
   flags |-> flags, ids |-> ids]

\* Forms of one kind.  New values are 0 and edited ones 1.
CreateRequests ==
  {[Ask("create", 0, kind, valid, <<0>>, {}) EXCEPT !.value = 0] :
      kind \in {"linear", "boolean", "project"}, valid \in BOOLEAN}
    \cup {Ask("create", 0, "project", TRUE, <<0, 0>>, {})}

EditRequests ==
  {Ask("edit", 1, kind, TRUE, <<1>>, {}) : kind \in {"linear", "boolean", "project"}}
    \cup {Ask("edit", 1, "linear", FALSE, << >>, {}), Ask("edit", 2, "project", TRUE, <<1, 0>>, {})}

ProgressRequests ==
  {Ask("percent", 1, "percent", TRUE, << >>, {}), Ask("boolean", 1, "boolean", TRUE, << >>, {}),
   Ask("project", 1, "project", TRUE, << >>, {1, 2}), Ask("stages", 2, "project", TRUE, << >>, {1, 2}),
   Ask("direct", 1, "linear", TRUE, << >>, {}), Ask("direct", 1, "boolean", TRUE, << >>, {})}

StageRequests ==
  {Ask("toggle", 1, "project", TRUE, << >>, {1}), Ask("addStage", 1, "project", TRUE, << >>, {})}

AllRequests ==
  CreateRequests \cup EditRequests \cup ProgressRequests \cup StageRequests
    \cup {Ask("delete", 1, "project", TRUE, << >>, {})}

\* The pages' forms for a project key result.
ProjectForms ==
  {Ask("create", 0, kind, valid, <<0>>, {}) : kind \in {"boolean", "project"}, valid \in BOOLEAN}
    \cup {Ask("edit", 1, kind, valid, <<1>>, {}) : kind \in {"boolean", "project"}, valid \in BOOLEAN}

Slots == Permutations({r1, r2})

=============================================================================
