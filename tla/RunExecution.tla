---------------------------- MODULE RunExecution ----------------------------
(***************************************************************************)
(* The runner executes the run: start, AI evaluation and completion of API *)
(* cases, Web cases and scenarios.  Every handler begins with              *)
(* _execution_context.  A repeated start or completion is answered from    *)
(* the stored state and changes nothing.                                   *)
(***************************************************************************)
EXTENDS RunRecord

Verdicts(c) == evaluation[c] \in Verdict

(***************************************************************************)
(* start_api_execution, start_web_execution, start_scenario_execution: the *)
(* steps, the case and (the first time) the run become RUNNING.  Only an   *)
(* API run, which has several iterations, is started again while RUNNING.  *)
(***************************************************************************)
StartCase(c) ==
    /\ ExecutionContext
    /\ case[c] \in {"CREATED", "ASSIGNED"}
    /\ \A s \in Steps : /\ step[c][s] \notin TerminalNode
                        /\ CanSetNode(step[c][s], "RUNNING")
    /\ case' = [case EXCEPT ![c] = "RUNNING"]
    /\ step' = [step EXCEPT ![c] = [s \in Steps |-> "RUNNING"]]
    /\ run' = "RUNNING"
    /\ started' = TRUE
    /\ UNCHANGED <<shape, forceRequested, forceStopped, summary, dispatchVars,
                   executionVars, environmentVars>>

StartApiExecution(c) ==
    /\ shape.type = "API_CASE"
    /\ run \in {"ASSIGNED", "RUNNING"}
    /\ StartCase(c)

StartWebExecution(c) ==
    /\ shape.type = "WEB_CASE"
    /\ run = "ASSIGNED"
    /\ StartCase(c)

StartScenarioExecution(c) ==
    /\ shape.type = "SCENARIO"
    /\ run = "ASSIGNED"
    /\ StartCase(c)

(***************************************************************************)
(* evaluate_api_execution, evaluate_web_execution and                      *)
(* evaluate_scenario_execution commit a PENDING reservation, which gives   *)
(* up the run's lock, ask the model, and store the verdict.  A request     *)
(* that dies in between leaves the reservation behind.                     *)
(***************************************************************************)
ReserveEvaluation(c) ==
    /\ ExecutionContext
    /\ run = "RUNNING" /\ case[c] = "RUNNING"
    /\ evaluation[c] = "NONE"
    /\ evaluation' = [evaluation EXCEPT ![c] = "PENDING"]
    /\ UNCHANGED <<shape, runVars, nodeVars, dispatchVars, result,
                   environmentVars>>

EvaluateApiExecution(c) ==
    shape.type = "API_CASE" /\ ReserveEvaluation(c)

EvaluateWebExecution(c) ==
    shape.type = "WEB_CASE" /\ shape.ai # {} /\ ReserveEvaluation(c)

EvaluateScenarioExecution(c) ==
    shape.type = "SCENARIO" /\ shape.ai # {} /\ ReserveEvaluation(c)

StoreEvaluation(c, verdict) ==
    /\ evaluation[c] = "PENDING"
    /\ evaluation' = [evaluation EXCEPT ![c] = verdict]
    /\ UNCHANGED <<shape, runVars, nodeVars, dispatchVars, result,
                   environmentVars>>

(***************************************************************************)
(* What the three completion handlers share.  A completion that finds the  *)
(* run being cancelled is turned into a cancellation (for a Web run also   *)
(* when it is already cancelled); a cancellation is accepted only then,    *)
(* and any other outcome only from a RUNNING run and case.                 *)
(***************************************************************************)
EffectiveOutcome(outcome) ==
    IF run = "CANCELLING" \/ (shape.type = "WEB_CASE" /\ run = "CANCELLED")
      THEN "CANCELLED"
      ELSE outcome

MayComplete(c, outcome) ==
    /\ ExecutionContext
    /\ result[c] = "NONE"
    /\ IF outcome = "CANCELLED" THEN run \in {"CANCELLING", "CANCELLED"}
                                ELSE run = "RUNNING" /\ case[c] = "RUNNING"

\* The tail of a handler: children written, summary, consistency check, run
\* status, result row.
StoreCompletion(c, cases, steps, status, requested) ==
    /\ WriteNodes(cases, steps)
    /\ MatchesChildren(run, requested, CaseStatuses(cases))
    /\ CanSetRun(run, requested)
    /\ run' = requested
    /\ result' = [result EXCEPT ![c] = status]
    /\ UNCHANGED <<shape, started, forceRequested, dispatchVars, evaluation,
                   environmentVars>>

(***************************************************************************)
(* complete_api_execution.  verdict is the outcome of the assertions on    *)
(* the response, forced the runner's report that it was stopped by force.  *)
(***************************************************************************)
ApiStatus(outcome, verdict) ==
    CASE outcome = "CANCELLED"       -> "CANCELLED"
      [] outcome = "TIMEOUT"         -> "TIMEOUT"
      [] outcome = "EXECUTION_ERROR" -> "FAILED"
      [] outcome = "HTTP_RESPONSE"   -> CASE verdict = "PASS"   -> "SUCCESS"
                                          [] verdict = "REVIEW" -> "REVIEW"
                                          [] verdict = "FAIL"   -> "FAILED"

\* Variant: what needs a review passes.
ApiNodeStatusReviewPasses(status) ==
    IF status \in {"FAILED", "TIMEOUT", "CANCELLED"} THEN status ELSE "SUCCESS"

\* A case has no REVIEW of its own here: it is stored as FAILED.
ApiNodeStatus(status) ==
    IF status \in {"SUCCESS", "TIMEOUT", "CANCELLED"} THEN status ELSE "FAILED"

\* A cancellation also closes the iterations that have not finished.
ApiCases(c, node) ==
    [x \in Cases |-> IF x = c THEN node
                     ELSE IF node = "CANCELLED" THEN CloseNode(case[x], node)
                     ELSE case[x]]

\* Variant: the steps of the other iterations are forgotten.
ApiStepsOfCaseOnly(c, node) ==
    [step EXCEPT ![c] = [s \in Steps |-> CloseNode(step[c][s], node)]]

ApiSteps(c, node) ==
    [x \in Cases |->
       IF x = c \/ (node = "CANCELLED" /\ case[x] \notin TerminalNode)
         THEN [s \in Steps |-> CloseNode(step[x][s], node)]
         ELSE step[x]]

CompleteApiExecution(c, outcome, verdict, token, forced) ==
    LET effective == EffectiveOutcome(outcome)
        status    == ApiStatus(effective, verdict)
        node      == ApiNodeStatus(status)
        statuses  == CaseStatuses(ApiCases(c, node))
    IN  /\ shape.type = "API_CASE"
        /\ MayComplete(c, effective)
        /\ token => Verdicts(c) /\ verdict = evaluation[c]
        /\ CanSetNode(case[c], node)
        /\ \A s \in Steps : CanCloseNode(step[c][s], node)
        /\ StoreCompletion(c, ApiCases(c, node), ApiSteps(c, node), status,
                           IF statuses \subseteq TerminalNode
                             THEN IterationVerdict(statuses)
                             ELSE run)
        /\ forceStopped' = (forceStopped \/ (/\ effective = "CANCELLED"
                                             /\ forced \/ forceRequested))

(***************************************************************************)
(* complete_web_execution.  A Web case has one CaseRun.  traces gives the  *)
(* reported status of every step; failure says that the evidence could not *)
(* be stored (WEB_EVIDENCE_ERROR) or the login could not be restored       *)
(* (WEB_SESSION_RECOVERY_FAILED), which fails the case whatever its steps  *)
(* did.  Only the first may be turned into a cancellation.                 *)
(***************************************************************************)
AiTraces(traces) == {traces[s] : s \in shape.ai}
TraceStatuses(traces) == {traces[s] : s \in Steps}

\* The token of an evaluation fixes the statuses of the AI steps; without one
\* they were not evaluated.
TokenFits(c, outcome, traces) ==
    /\ Verdicts(c)
    /\ outcome \notin {"CANCELLED", "TIMEOUT"}
    /\ AiTraces(traces) \subseteq {"SUCCESS", "FAILED", "REVIEW"}
    /\ AiVerdict(AiTraces(traces)) = evaluation[c]
    /\ evaluation[c] # "PASS" => outcome = "FAILED"

\* Variant: skipped AI assertions count as passed.
NoTokenFitsSuccess(outcome, traces) ==
    shape.ai # {} => AiTraces(traces) \subseteq {"SKIPPED", "NONE"}

NoTokenFits(outcome, traces) ==
    shape.ai # {} => /\ outcome # "SUCCESS"
                     /\ AiTraces(traces) \subseteq {"SKIPPED", "NONE"}

WebTracesFit(outcome, traces, failure) ==
    /\ outcome = "SUCCESS" =>
         TraceStatuses(traces) \cap {"FAILED", "TIMEOUT", "CANCELLED"} = {}
    /\ outcome = "FAILED" =>
         failure # "NONE" \/ TraceStatuses(traces) \cap {"FAILED", "REVIEW"} # {}
    /\ outcome = "TIMEOUT" => "TIMEOUT" \in TraceStatuses(traces)

WebCase(c, traces, failure) ==
    IF failure # "NONE" THEN "FAILED"
                        ELSE AggregateCase(case[c], TraceStatuses(traces))

CompleteWebExecution(c, outcome, traces, token, failure) ==
    LET effective == EffectiveOutcome(outcome)
    IN  /\ shape.type = "WEB_CASE"
        /\ MayComplete(c, effective)
        /\ IF token THEN TokenFits(c, effective, traces)
                    ELSE effective \in {"CANCELLED", "TIMEOUT"}
                           \/ NoTokenFits(effective, traces)
        /\ failure = "SESSION" => effective = "FAILED"
        /\ failure = "EVIDENCE" => effective \in {"FAILED", "CANCELLED"}
        /\ \/ /\ effective = "CANCELLED"
              /\ StoreCompletion(c, ClosedCases("CANCELLED"),
                                 ClosedSteps("CANCELLED"), effective, effective)
           \/ /\ effective # "CANCELLED"
              /\ WebTracesFit(effective, traces, failure)
              /\ \A s \in Steps : CanSetNode(step[c][s], traces[s])
              /\ StoreCompletion(c, [case EXCEPT ![c] = WebCase(c, traces, failure)],
                                 [step EXCEPT ![c] = traces], effective, effective)
        /\ UNCHANGED forceStopped

(***************************************************************************)
(* complete_scenario_execution.  A trace may be missing ("NONE").  If no   *)
(* trace explains a FAILED or TIMEOUT outcome, the first unfinished step   *)
(* does (the query has no order, so any unfinished one: mark).             *)
(***************************************************************************)
Unfinished(c) == {s \in Steps : step[c][s] \notin TerminalNode}

Unexplained(outcome, traces) ==
    \/ outcome = "FAILED" /\ TraceStatuses(traces) \cap {"FAILED", "REVIEW"} = {}
    \/ outcome = "TIMEOUT" /\ "TIMEOUT" \notin TraceStatuses(traces)

\* A step without a trace was not reached, or was running when time ran out.
ScenarioReport(outcome, traces, mark) ==
    LET missing == IF outcome = "FAILED" THEN "SKIPPED" ELSE "TIMEOUT"
        filled  == [s \in Steps |-> IF traces[s] = "NONE" THEN missing
                                                         ELSE traces[s]]
    IN  IF Unexplained(outcome, traces) THEN [filled EXCEPT ![mark] = outcome]
                                        ELSE filled

CompleteScenarioExecution(c, outcome, traces, token, mark) ==
    LET effective == EffectiveOutcome(outcome)
        report    == ScenarioReport(effective, traces, mark)
        steps     == [step EXCEPT ![c] =
                        [s \in Steps |-> CloseNode(step[c][s], report[s])]]
    IN  /\ shape.type = "SCENARIO"
        /\ MayComplete(c, effective)
        /\ outcome = "SUCCESS" => "NONE" \notin TraceStatuses(traces)
        /\ IF token THEN TokenFits(c, effective, traces)
                    ELSE NoTokenFits(effective, traces)
        /\ \/ /\ effective = "CANCELLED"
              /\ StoreCompletion(c, ClosedCases("CANCELLED"),
                                 ClosedSteps("CANCELLED"), effective, effective)
           \/ /\ effective # "CANCELLED"
              /\ effective = "SUCCESS" => TraceStatuses(traces)
                                   \cap {"FAILED", "TIMEOUT", "CANCELLED"} = {}
              /\ mark \in Unfinished(c) \/ Unfinished(c) = {}
              /\ \A s \in Steps : CanCloseNode(step[c][s], report[s])
              /\ StoreCompletion(c, [case EXCEPT ![c] =
                                       AggregateCase(case[c], StepStatuses(steps, c))],
                                 steps, effective, effective)
        /\ forceStopped' = (forceStopped
                              \/ (effective = "CANCELLED" /\ forceRequested))

ApiOutcome == {"HTTP_RESPONSE", "EXECUTION_ERROR", "TIMEOUT", "CANCELLED"}
Outcome == {"SUCCESS", "FAILED", "TIMEOUT", "CANCELLED"}

ExecutionNext ==
    \E c \in Cases :
      \/ StartApiExecution(c)
      \/ StartWebExecution(c)
      \/ StartScenarioExecution(c)
      \/ EvaluateApiExecution(c)
      \/ EvaluateWebExecution(c)
      \/ EvaluateScenarioExecution(c)
      \/ \E verdict \in Verdict : StoreEvaluation(c, verdict)
      \/ \E outcome \in ApiOutcome, verdict \in Verdict, token \in BOOLEAN,
            forced \in BOOLEAN :
           CompleteApiExecution(c, outcome, verdict, token, forced)
      \/ \E outcome \in Outcome, traces \in [Steps -> TerminalNode],
            token \in BOOLEAN, failure \in {"NONE", "EVIDENCE", "SESSION"} :
           CompleteWebExecution(c, outcome, traces, token, failure)
      \/ \E outcome \in Outcome, traces \in [Steps -> TerminalNode \cup {"NONE"}],
            token \in BOOLEAN, mark \in Steps :
           CompleteScenarioExecution(c, outcome, traces, token, mark)
============================================================================
