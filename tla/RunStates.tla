----------------------------- MODULE RunStates -----------------------------
(***************************************************************************)
(* The vocabulary of a test run: the status enumerations of                *)
(* backend/app/modules/runs/enums.py and the pure functions of             *)
(* backend/app/modules/runs/service.py that decide which status may follow *)
(* which, and what status a parent takes from its children.  There is no   *)
(* state here.                                                             *)
(***************************************************************************)

RunType == {"API_CASE", "SCENARIO", "WEB_CASE"}

RunStatus == {"CREATED", "QUEUED", "ASSIGNED", "RUNNING", "CANCELLING",
              "SUCCESS", "FAILED", "CANCELLED", "TIMEOUT"}

RunNodeStatus == {"CREATED", "ASSIGNED", "RUNNING", "CANCELLING", "SUCCESS",
                  "FAILED", "REVIEW", "CANCELLED", "TIMEOUT", "SKIPPED"}

TerminalRun == {"SUCCESS", "FAILED", "CANCELLED", "TIMEOUT"}

TerminalNode == {"SUCCESS", "FAILED", "REVIEW", "CANCELLED", "TIMEOUT",
                 "SKIPPED"}

DispatchOutboxStatus == {"PENDING", "PUBLISHED", "FAILED"}

\* Variant: a run being cancelled may still end as its executor reports.
RunTransitionsLateReport(status) ==
    CASE status = "CREATED"    -> {"QUEUED", "CANCELLED", "FAILED"}
      [] status = "QUEUED"     -> {"ASSIGNED", "CANCELLED", "FAILED", "TIMEOUT"}
      [] status = "ASSIGNED"   -> {"RUNNING", "CANCELLING", "CANCELLED",
                                   "FAILED", "TIMEOUT"}
      [] status = "RUNNING"    -> {"SUCCESS", "FAILED", "CANCELLING", "TIMEOUT"}
      [] status = "CANCELLING" -> {"CANCELLED", "FAILED", "TIMEOUT"}
      [] OTHER                 -> {}

(***************************************************************************)
(* _RUN_TRANSITIONS and _NODE_TRANSITIONS.                                 *)
(***************************************************************************)
RunTransitions(status) ==
    CASE status = "CREATED"    -> {"QUEUED", "CANCELLED", "FAILED"}
      [] status = "QUEUED"     -> {"ASSIGNED", "CANCELLED", "FAILED", "TIMEOUT"}
      [] status = "ASSIGNED"   -> {"RUNNING", "CANCELLING", "CANCELLED",
                                   "FAILED", "TIMEOUT"}
      [] status = "RUNNING"    -> {"SUCCESS", "FAILED", "CANCELLING", "TIMEOUT"}
      [] status = "CANCELLING" -> {"CANCELLED"}
      [] OTHER                 -> {}

NodeTransitions(status) ==
    CASE status = "CREATED"    -> {"ASSIGNED", "RUNNING"} \cup TerminalNode
      [] status = "ASSIGNED"   -> {"RUNNING"} \cup TerminalNode
      [] status = "RUNNING"    -> {"CANCELLING"} \cup TerminalNode
      [] status = "CANCELLING" -> {"CANCELLED"}
      [] OTHER                 -> {}

(***************************************************************************)
(* _set_run_status and _set_node_status accept the current status again    *)
(* and otherwise only a transition of the table; anything else raises a    *)
(* RunStateConflictError, which rolls the whole request back.              *)
(***************************************************************************)
CanSetRun(current, requested) ==
    current = requested \/ requested \in RunTransitions(current)

CanSetNode(current, requested) ==
    current = requested \/ requested \in NodeTransitions(current)

\* Variant: finished nodes are not skipped.
CloseNodeRewrites(current, requested) == requested

\* What the closing loops make of one node: finished nodes are skipped.
CloseNode(current, requested) ==
    IF current \in TerminalNode THEN current ELSE requested

\* The closing loop does not raise on this node.
CanCloseNode(current, requested) ==
    current \in TerminalNode \/ CanSetNode(current, requested)

(***************************************************************************)
(* _aggregate_case_status: the status a case takes from the set of         *)
(* statuses of its steps.  A finished case keeps its status, and no case   *)
(* falls back to CREATED.                                                  *)
(***************************************************************************)
AggregateDesired(steps) ==
    IF "CANCELLING" \in steps THEN "CANCELLING"
    ELSE IF steps \cap {"ASSIGNED", "RUNNING"} # {} THEN "RUNNING"
    ELSE IF ~(steps \subseteq TerminalNode) THEN "CREATED"
    ELSE IF "CANCELLED" \in steps THEN "CANCELLED"
    ELSE IF "TIMEOUT" \in steps THEN "TIMEOUT"
    ELSE IF "FAILED" \in steps THEN "FAILED"
    ELSE IF "REVIEW" \in steps THEN "REVIEW"
    ELSE "SUCCESS"

AggregateCase(current, steps) ==
    IF current \in TerminalNode \/ AggregateDesired(steps) = "CREATED"
      THEN current
      ELSE AggregateDesired(steps)

(***************************************************************************)
(* The status complete_api_execution gives a run whose iterations have all *)
(* finished with the given set of statuses.                                *)
(***************************************************************************)
IterationVerdict(cases) ==
    IF cases \cap {"FAILED", "REVIEW"} # {} THEN "FAILED"
    ELSE IF "TIMEOUT" \in cases THEN "TIMEOUT"
    ELSE IF "CANCELLED" \in cases THEN "CANCELLED"
    ELSE "SUCCESS"

\* Variant: SUCCESS is not compared with the cases.
MatchesChildrenSuccessUnchecked(current, requested, cases) ==
    requested \in TerminalRun =>
        /\ cases # {}
        /\ cases \subseteq TerminalNode
        /\ requested = "FAILED" => cases \cap {"FAILED", "REVIEW"} # {}
        /\ requested = "TIMEOUT" => "TIMEOUT" \in cases
        /\ requested = "CANCELLED" => /\ current \in {"CANCELLING", "CANCELLED"}
                                      /\ "CANCELLED" \in cases

(***************************************************************************)
(* _ensure_terminal_run_matches_children does not raise: a run in status   *)
(* current, whose cases have the given set of statuses, may be closed as   *)
(* requested.                                                              *)
(***************************************************************************)
MatchesChildren(current, requested, cases) ==
    requested \in TerminalRun =>
        /\ cases # {}
        /\ cases \subseteq TerminalNode
        /\ requested = "SUCCESS" => cases \subseteq {"SUCCESS", "SKIPPED"}
        /\ requested = "FAILED" => cases \cap {"FAILED", "REVIEW"} # {}
        /\ requested = "TIMEOUT" => "TIMEOUT" \in cases
        /\ requested = "CANCELLED" => /\ current \in {"CANCELLING", "CANCELLED"}
                                      /\ "CANCELLED" \in cases

(***************************************************************************)
(* summarize_final_status over the AI nodes of a Web case or a scenario,   *)
(* given the set of statuses of their traces.                              *)
(***************************************************************************)
AiVerdict(traces) ==
    IF "REVIEW" \in traces THEN "REVIEW"
    ELSE IF "FAILED" \in traces THEN "FAIL"
    ELSE "PASS"
============================================================================
