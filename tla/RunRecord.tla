----------------------------- MODULE RunRecord -----------------------------
(***************************************************************************)
(* One row of table runs together with everything its row lock protects:   *)
(* its CaseRuns and StepRuns, its dispatch outbox row, its execution       *)
(* results and evaluation reservations.  Every handler of                  *)
(* backend/app/modules/runs/service.py takes the run's row with SELECT ... *)
(* FOR UPDATE first and keeps it until it commits, so a handler that       *)
(* commits once is one atomic action of the modules that extend this one.  *)
(***************************************************************************)
EXTENDS RunStates, Naturals, FiniteSets

CONSTANTS
    Shapes,       \* what create_run may have built: run type, iterations, steps
    Dispatchers,  \* concurrent requests that may be dispatching the run
    MaxAttempts   \* _DISPATCH_MAX_ATTEMPTS

\* Only an API case with a data set has more than one iteration; a case has at
\* least one step; AI assertions are steps of Web cases and scenarios.
ASSUME ShapesAssumption ==
    \A s \in Shapes : /\ s.type \in RunType
                      /\ s.cases # {} /\ IsFiniteSet(s.cases)
                      /\ s.steps # {} /\ s.ai \subseteq s.steps
                      /\ s.type # "API_CASE" => \E c \in s.cases : s.cases = {c}

ASSUME MaxAttemptsAssumption == MaxAttempts \in Nat \ {0}

VARIABLES
    shape,           \* the run's type, its cases (iterations), the steps of a case
    run,             \* TestRun.status
    started,         \* TestRun.started_at is set
    forceRequested,  \* TestRun.force_stop_requested_at is set
    forceStopped,    \* TestRun.force_stopped
    summary,         \* TestRun.total, pass_count, fail_count, review_count, timeout_count
    case,            \* CaseRun.status of every case
    step,            \* StepRun.status of every step of every case
    outbox,          \* RunDispatchOutbox.status, "NONE" while there is no row
    attempts,        \* RunDispatchOutbox.attempt_count
    claimed,         \* RunDispatchOutbox.claimed_runner_id and claimed_at are set
    pc,              \* where each dispatching request is between its commits
    view,            \* the outbox columns its ORM session last loaded
    evaluation,      \* RunApiExecutionEvaluation.status of every case
    result,          \* status of the execution result row of every case
    overdue,         \* started_at + total timeout + grace has passed
    runner,          \* Runner.status of the runner the run is bound to
    online           \* Redis holds a live heartbeat of that runner

runVars == <<run, started, forceRequested, forceStopped>>
nodeVars == <<case, step, summary>>
dispatchVars == <<outbox, attempts, claimed, pc, view>>
executionVars == <<evaluation, result>>
environmentVars == <<overdue, runner, online>>
vars == <<shape, runVars, nodeVars, dispatchVars, executionVars, environmentVars>>

Cases == shape.cases
Steps == shape.steps

Verdict == {"PASS", "FAIL", "REVIEW"}
ResultStatus == {"SUCCESS", "FAILED", "REVIEW", "TIMEOUT", "CANCELLED"}

(***************************************************************************)
(* _recompute_summary                                                      *)
(***************************************************************************)
Count(cases, status) == Cardinality({c \in Cases : cases[c] = status})

Recount(cases) == [total   |-> Cardinality(Cases),
                   pass    |-> Count(cases, "SUCCESS"),
                   fail    |-> Count(cases, "FAILED"),
                   review  |-> Count(cases, "REVIEW"),
                   timeout |-> Count(cases, "TIMEOUT")]

CaseStatuses(cases) == {cases[c] : c \in Cases}
StepStatuses(steps, c) == {steps[c][s] : s \in Steps}

(***************************************************************************)
(* The loops that close every unfinished step and case of a run.           *)
(***************************************************************************)
ClosedCases(status) == [c \in Cases |-> CloseNode(case[c], status)]
ClosedSteps(status) ==
    [c \in Cases |-> [s \in Steps |-> CloseNode(step[c][s], status)]]

CanClose(status) ==
    \A c \in Cases : /\ CanCloseNode(case[c], status)
                     /\ \A s \in Steps : CanCloseNode(step[c][s], status)

\* Variant: the counters are not recomputed.
WriteNodesUncounted(cases, steps) ==
    /\ case' = cases
    /\ step' = steps
    /\ UNCHANGED summary

(***************************************************************************)
(* Every handler that changes a node ends with _recompute_summary.         *)
(***************************************************************************)
WriteNodes(cases, steps) ==
    /\ case' = cases
    /\ step' = steps
    /\ summary' = Recount(cases)

CloseNodes(status) ==
    /\ CanClose(status)
    /\ WriteNodes(ClosedCases(status), ClosedSteps(status))

(***************************************************************************)
(* _authenticate_runner_for_run, and _execution_context on top of it: the  *)
(* runner's credential is live and the published message is claimed by it. *)
(***************************************************************************)
RunnerAuthenticated == runner = "ACTIVE"

ExecutionContext ==
    /\ RunnerAuthenticated
    /\ outbox = "PUBLISHED"
    /\ claimed

(***************************************************************************)
(* create_run: the state its commit leaves behind.                         *)
(***************************************************************************)
Init ==
    /\ shape \in Shapes
    /\ run = "CREATED"
    /\ started = FALSE
    /\ forceRequested = FALSE
    /\ forceStopped = FALSE
    /\ case = [c \in Cases |-> "CREATED"]
    /\ step = [c \in Cases |-> [s \in Steps |-> "CREATED"]]
    /\ summary = [total |-> Cardinality(Cases), pass |-> 0, fail |-> 0,
                  review |-> 0, timeout |-> 0]
    /\ outbox = "NONE"
    /\ attempts = 0
    /\ claimed = FALSE
    /\ pc = [d \in Dispatchers |-> "idle"]
    /\ view = [d \in Dispatchers |-> [status |-> "PENDING", attempts |-> 0]]
    /\ evaluation = [c \in Cases |-> "NONE"]
    /\ result = [c \in Cases |-> "NONE"]
    /\ overdue = FALSE
    /\ runner = "ACTIVE"
    /\ online = TRUE

(***************************************************************************)
(* Every column holds a value its CHECK constraint allows.                 *)
(***************************************************************************)
TypeOK ==
    /\ shape \in Shapes
    /\ run \in RunStatus
    /\ started \in BOOLEAN /\ forceRequested \in BOOLEAN /\ forceStopped \in BOOLEAN
    /\ claimed \in BOOLEAN /\ overdue \in BOOLEAN /\ online \in BOOLEAN
    /\ case \in [Cases -> RunNodeStatus]
    /\ step \in [Cases -> [Steps -> RunNodeStatus]]
    /\ outbox \in {"NONE"} \cup DispatchOutboxStatus
    /\ attempts \in 0..MaxAttempts
    /\ pc \in [Dispatchers -> {"idle", "queued", "attempting", "publishing"}]
    /\ view \in [Dispatchers -> [status   : DispatchOutboxStatus,
                                 attempts : 0..MaxAttempts]]
    /\ evaluation \in [Cases -> {"NONE", "PENDING"} \cup Verdict]
    /\ result \in [Cases -> {"NONE"} \cup ResultStatus]
    /\ runner \in {"ACTIVE", "REVOKED"}
============================================================================
