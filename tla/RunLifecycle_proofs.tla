------------------------ MODULE RunLifecycle_proofs ------------------------
(***************************************************************************)
(* Proofs about RunLifecycle, for every set of run shapes (any number of   *)
(* iterations and steps), any number of dispatching requests and any bound *)
(* on the attempts.                                                        *)
(***************************************************************************)
EXTENDS RunLifecycle, FiniteSetTheorems, TLAPS

(***************************************************************************)
(* Facts about the pure functions of RunStates.                            *)
(***************************************************************************)

\* A closing loop leaves every node in a legal status.
LEMMA CloseNodeType ==
    ASSUME NEW current \in RunNodeStatus, NEW requested \in RunNodeStatus
    PROVE  CloseNode(current, requested) \in RunNodeStatus
BY DEF CloseNode

\* So does the loop of reconcile_overdue_run_core.
LEMMA TimedOutType ==
    ASSUME NEW current \in RunNodeStatus
    PROVE  TimedOut(current) \in RunNodeStatus
BY DEF TimedOut, CloseNode, RunNodeStatus

\* _aggregate_case_status yields a legal status.
LEMMA AggregateType ==
    ASSUME NEW current \in RunNodeStatus, NEW steps
    PROVE  AggregateCase(current, steps) \in RunNodeStatus
BY DEF AggregateCase, AggregateDesired, RunNodeStatus

\* A finished node is in a legal status.
LEMMA TerminalNodeType == TerminalNode \subseteq RunNodeStatus
BY DEF TerminalNode, RunNodeStatus

\* A finished run is in a legal status.
LEMMA TerminalRunType == TerminalRun \subseteq RunStatus
BY DEF TerminalRun, RunStatus

(***************************************************************************)
(* Type correctness.  A request reaches its reload only after the outbox   *)
(* row exists.                                                             *)
(***************************************************************************)
TypeInv == TypeOK /\ \A d \in Dispatchers : pc[d] = "queued" => outbox # "NONE"

\* The closing loops keep the types of the nodes.
LEMMA ClosedType ==
    ASSUME TypeOK, NEW status \in RunNodeStatus
    PROVE  /\ ClosedCases(status) \in [Cases -> RunNodeStatus]
           /\ ClosedSteps(status) \in [Cases -> [Steps -> RunNodeStatus]]
BY CloseNodeType DEF TypeOK, ClosedCases, ClosedSteps

\* Recording an attempt, from whatever copy of the row, keeps the outbox typed.
LEMMA RecordAttemptType ==
    ASSUME TypeInv, NEW d \in Dispatchers,
           NEW loaded \in [status : DispatchOutboxStatus, attempts : 0..MaxAttempts],
           RecordAttempt(d, loaded)
    PROVE  /\ outbox' \in {"NONE"} \cup DispatchOutboxStatus
           /\ attempts' \in 0..MaxAttempts
           /\ pc' \in [Dispatchers -> {"idle", "queued", "attempting", "publishing"}]
           /\ \A e \in Dispatchers : pc'[e] = "queued" => outbox' # "NONE"
<1> USE MaxAttemptsAssumption
<1>1. outbox' \in {"NONE"} \cup DispatchOutboxStatus
    BY DEF TypeInv, TypeOK, RecordAttempt, DispatchOutboxStatus
<1>2. attempts' \in 0..MaxAttempts
    BY DEF TypeInv, TypeOK, RecordAttempt
<1>3. pc' \in [Dispatchers -> {"idle", "queued", "attempting", "publishing"}]
    BY DEF TypeInv, TypeOK, RecordAttempt
<1>4. ASSUME NEW e \in Dispatchers, pc'[e] = "queued" PROVE outbox' # "NONE"
  <2>1. pc[e] = "queued"
    BY <1>4 DEF TypeInv, TypeOK, RecordAttempt
  <2>2. QED
    BY <2>1 DEF TypeInv, RecordAttempt
<1>5. QED
    BY <1>1, <1>2, <1>3, <1>4

\* The dispatching requests and the claim keep the types.
LEMMA DispatchType == TypeInv /\ DispatchNext => TypeInv'
<1> SUFFICES ASSUME TypeInv, DispatchNext PROVE TypeInv'
    OBVIOUS
<1> USE MaxAttemptsAssumption
<1>1. ASSUME NEW d \in Dispatchers, DispatchCreate(d) PROVE TypeInv'
    BY <1>1 DEF TypeInv, TypeOK, DispatchCreate, nodeVars, executionVars,
                environmentVars, Cases, Steps, RunStatus, DispatchOutboxStatus
<1>2. ASSUME NEW d \in Dispatchers, DispatchReload(d) PROVE TypeInv'
    BY <1>2 DEF TypeInv, TypeOK, DispatchReload, runVars, nodeVars, executionVars,
                environmentVars, Cases, Steps, RunStatus, DispatchOutboxStatus
<1>3. ASSUME NEW d \in Dispatchers, DispatchAttempt(d) PROVE TypeInv'
  <2>1. view[d] \in [status : DispatchOutboxStatus, attempts : 0..MaxAttempts]
    BY DEF TypeInv, TypeOK
  <2>2. RecordAttempt(d, view[d])
    BY <1>3 DEF DispatchAttempt
  <2>3. QED
    BY <1>3, <2>1, <2>2, RecordAttemptType
       DEF TypeInv, TypeOK, DispatchAttempt, runVars, nodeVars, executionVars,
           environmentVars, Cases, Steps
<1>4. ASSUME NEW d \in Dispatchers, DispatchRetry(d) PROVE TypeInv'
  <2> DEFINE row == [status |-> outbox, attempts |-> attempts]
  <2>1. row \in [status : DispatchOutboxStatus, attempts : 0..MaxAttempts]
    BY <1>4 DEF TypeInv, TypeOK, DispatchRetry, DispatchOutboxStatus
  <2>2. RecordAttempt(d, row)
    BY <1>4 DEF DispatchRetry
  <2> HIDE DEF row
  <2>3. QED
    BY <1>4, <2>1, <2>2, RecordAttemptType
       DEF TypeInv, TypeOK, DispatchRetry, runVars, nodeVars, executionVars,
           environmentVars, Cases, Steps
<1>5. ASSUME NEW d \in Dispatchers, DispatchCrash(d) PROVE TypeInv'
    BY <1>5 DEF TypeInv, TypeOK, DispatchCrash, runVars, nodeVars, executionVars,
                environmentVars, Cases, Steps, RunStatus, DispatchOutboxStatus
<1>6. ASSUME NEW d \in Dispatchers, NEW published \in BOOLEAN,
             RecordPublishResult(d, published) PROVE TypeInv'
    BY <1>6 DEF TypeInv, TypeOK, RecordPublishResult, runVars, nodeVars,
                executionVars, environmentVars, Cases, Steps, RunStatus,
                DispatchOutboxStatus
<1>7. ASSUME ClaimRun PROVE TypeInv'
    BY <1>7 DEF TypeInv, TypeOK, ClaimRun, nodeVars, executionVars,
                environmentVars, Cases, Steps, RunStatus
<1>8. ASSUME ClaimCancellingRun PROVE TypeInv'
  <2>1. /\ case' \in [Cases -> RunNodeStatus]
        /\ step' \in [Cases -> [Steps -> RunNodeStatus]]
    BY <1>8, ClosedType
       DEF TypeInv, ClaimCancellingRun, CloseNodes, WriteNodes, RunNodeStatus
  <2>2. forceStopped' \in BOOLEAN
    BY <1>8, Zenon DEF TypeInv, TypeOK, ClaimCancellingRun
  <2>3. QED
    BY <1>8, <2>1, <2>2
       DEF TypeInv, TypeOK, ClaimCancellingRun, executionVars, environmentVars,
           Cases, Steps, RunStatus
<1>9. QED
    BY <1>1, <1>2, <1>3, <1>4, <1>5, <1>6, <1>7, <1>8 DEF DispatchNext

\* The controlling requests, the reconciliations and the surroundings keep the
\* types.
LEMMA ControlType == TypeInv /\ ControlNext => TypeInv'
<1> SUFFICES ASSUME TypeInv, ControlNext PROVE TypeInv'
    OBVIOUS
<1> USE DEF runVars, nodeVars, dispatchVars, executionVars, environmentVars
<1>1. ASSUME CancelWaitingRun PROVE TypeInv'
  <2>1. /\ case' \in [Cases -> RunNodeStatus]
        /\ step' \in [Cases -> [Steps -> RunNodeStatus]]
    BY <1>1, ClosedType
       DEF TypeInv, CancelWaitingRun, CloseNodes, WriteNodes, RunNodeStatus
  <2>2. QED
    BY <1>1, <2>1 DEF TypeInv, TypeOK, CancelWaitingRun, Cases, Steps, RunStatus
<1>2. ASSUME CancelActiveRun PROVE TypeInv'
  <2>1. /\ case' \in [Cases -> RunNodeStatus]
        /\ step' \in [Cases -> [Steps -> RunNodeStatus]]
    BY <1>2 DEF TypeInv, TypeOK, CancelActiveRun, WriteNodes, Cancelling,
                RunNodeStatus
  <2>2. QED
    BY <1>2, <2>1 DEF TypeInv, TypeOK, CancelActiveRun, Cases, Steps, RunStatus
<1>3. ASSUME ForceStopRun PROVE TypeInv'
  <2>1. CASE CancelWaitingRun
    BY <1>1, <2>1
  <2>2. CASE ~CancelWaitingRun
    BY <1>3, <2>2 DEF TypeInv, TypeOK, ForceStopRun, Cases, Steps, RunStatus
  <2>3. QED
    BY <2>1, <2>2
<1>4. ASSUME UserCancelsCreated PROVE TypeInv'
    BY <1>4 DEF TypeInv, TypeOK, UserCancelsCreated, Cases, Steps, RunStatus
<1>5. ASSUME NEW requested \in RunStatus, RunnerReportsRun(requested)
      PROVE  TypeInv'
  <2>1. started' \in BOOLEAN
    BY <1>5, Zenon DEF RunnerReportsRun
  <2>2. QED
    BY <1>5, <2>1 DEF TypeInv, TypeOK, RunnerReportsRun, Cases, Steps
<1>6. ASSUME NEW c \in Cases, NEW s \in Steps, NEW requested \in RunNodeStatus,
             RunnerReportsStep(c, s, requested)
      PROVE  TypeInv'
  <2>1. /\ case' \in [Cases -> RunNodeStatus]
        /\ step' \in [Cases -> [Steps -> RunNodeStatus]]
    BY <1>6, AggregateType DEF TypeInv, TypeOK, RunnerReportsStep, WriteNodes
  <2>2. QED
    BY <1>6, <2>1 DEF TypeInv, TypeOK, RunnerReportsStep, Cases, Steps
<1>7. ASSUME ReconcileDisconnectedRun PROVE TypeInv'
  <2>1. /\ case' \in [Cases -> RunNodeStatus]
        /\ step' \in [Cases -> [Steps -> RunNodeStatus]]
    BY <1>7, ClosedType
       DEF TypeInv, ReconcileDisconnectedRun, CloseNodes, WriteNodes, RunNodeStatus
  <2>2. QED
    BY <1>7, <2>1
       DEF TypeInv, TypeOK, ReconcileDisconnectedRun, Cases, Steps, RunStatus
<1>8. ASSUME ReconcileOverdueRun PROVE TypeInv'
  <2>1. /\ case' \in [Cases -> RunNodeStatus]
        /\ step' \in [Cases -> [Steps -> RunNodeStatus]]
    <3>1. CASE run = "RUNNING"
      BY <1>8, <3>1, TimedOutType
         DEF TypeInv, TypeOK, ReconcileOverdueRun, WriteNodes
    <3>2. CASE run = "CANCELLING"
      BY <1>8, <3>2, ClosedType
         DEF TypeInv, ReconcileOverdueRun, CloseNodes, WriteNodes, RunNodeStatus
    <3>3. QED
      BY <1>8, <3>1, <3>2 DEF ReconcileOverdueRun
  <2>2. QED
    BY <1>8, <2>1 DEF TypeInv, TypeOK, ReconcileOverdueRun, Cases, Steps, RunStatus
<1>9. ASSUME DeadlinePasses PROVE TypeInv'
    BY <1>9 DEF TypeInv, TypeOK, DeadlinePasses, Cases, Steps
<1>10. ASSUME HeartbeatChanges PROVE TypeInv'
    BY <1>10 DEF TypeInv, TypeOK, HeartbeatChanges, Cases, Steps
<1>11. ASSUME RevokeRunner PROVE TypeInv'
    BY <1>11 DEF TypeInv, TypeOK, RevokeRunner, Cases, Steps
<1>12. QED
    BY <1>1, <1>2, <1>3, <1>4, <1>5, <1>6, <1>7, <1>8, <1>9, <1>10, <1>11
       DEF ControlNext

\* What StoreCompletion needs to keep the types.
LEMMA CompletionType ==
    ASSUME TypeInv,
           NEW c \in Cases, NEW cases, NEW steps, NEW status, NEW requested,
           StoreCompletion(c, cases, steps, status, requested),
           cases \in [Cases -> RunNodeStatus],
           steps \in [Cases -> [Steps -> RunNodeStatus]],
           status \in ResultStatus, requested \in RunStatus,
           forceStopped' \in BOOLEAN
    PROVE  TypeInv'
BY DEF TypeInv, TypeOK, StoreCompletion, WriteNodes, dispatchVars, environmentVars,
       Cases, Steps

\* The executing runner keeps the types.
LEMMA ExecutionType == TypeInv /\ ExecutionNext => TypeInv'
<1> SUFFICES ASSUME TypeInv, ExecutionNext PROVE TypeInv'
    OBVIOUS
<1> USE DEF runVars, nodeVars, dispatchVars, executionVars, environmentVars
<1>1. ASSUME NEW c \in Cases, StartCase(c) PROVE TypeInv'
    BY <1>1 DEF TypeInv, TypeOK, StartCase, Cases, Steps, RunStatus, RunNodeStatus
<1>2. ASSUME NEW c \in Cases, ReserveEvaluation(c) PROVE TypeInv'
    BY <1>2 DEF TypeInv, TypeOK, ReserveEvaluation, Cases, Steps
<1>3. ASSUME NEW c \in Cases, NEW verdict \in Verdict,
             StoreEvaluation(c, verdict)
      PROVE  TypeInv'
    BY <1>3 DEF TypeInv, TypeOK, StoreEvaluation, Cases, Steps
<1>4. ASSUME NEW c \in Cases, NEW outcome \in ApiOutcome, NEW verdict \in Verdict,
             NEW token \in BOOLEAN, NEW forced \in BOOLEAN,
             CompleteApiExecution(c, outcome, verdict, token, forced)
      PROVE  TypeInv'
  <2> DEFINE effective == EffectiveOutcome(outcome)
             status    == ApiStatus(effective, verdict)
             node      == ApiNodeStatus(status)
             statuses  == CaseStatuses(ApiCases(c, node))
             requested == IF statuses \subseteq TerminalNode
                            THEN IterationVerdict(statuses)
                            ELSE run
  <2>1. effective \in ApiOutcome
    BY DEF EffectiveOutcome, ApiOutcome
  <2>2. status \in ResultStatus
    BY <2>1 DEF ApiOutcome, ApiStatus, ResultStatus, Verdict
  <2>3. node \in RunNodeStatus
    BY <2>2 DEF ApiNodeStatus, RunNodeStatus
  <2>4. requested \in RunStatus
    BY DEF TypeInv, TypeOK, IterationVerdict, RunStatus
  <2>5. ApiCases(c, node) \in [Cases -> RunNodeStatus]
    BY <2>3, CloseNodeType DEF TypeInv, TypeOK, ApiCases
  <2>6. ApiSteps(c, node) \in [Cases -> [Steps -> RunNodeStatus]]
    BY <2>3, CloseNodeType DEF TypeInv, TypeOK, ApiSteps
  <2>7. StoreCompletion(c, ApiCases(c, node), ApiSteps(c, node), status, requested)
    BY <1>4 DEF CompleteApiExecution
  <2>8. forceStopped' \in BOOLEAN
    BY <1>4, Zenon DEF CompleteApiExecution
  <2>9. QED
    BY <2>2, <2>4, <2>5, <2>6, <2>7, <2>8, CompletionType
<1>5. ASSUME NEW c \in Cases, NEW outcome \in Outcome,
             NEW traces \in [Steps -> TerminalNode], NEW token \in BOOLEAN,
             NEW failure \in {"NONE", "EVIDENCE", "SESSION"},
             CompleteWebExecution(c, outcome, traces, token, failure)
      PROVE  TypeInv'
  <2> DEFINE effective == EffectiveOutcome(outcome)
             cases == [case EXCEPT ![c] = WebCase(c, traces, failure)]
             steps == [step EXCEPT ![c] = traces]
  <2>1. effective \in ResultStatus /\ effective \in RunStatus
    BY DEF EffectiveOutcome, Outcome, ResultStatus, RunStatus
  <2>2. forceStopped' \in BOOLEAN
    BY <1>5 DEF CompleteWebExecution, TypeInv, TypeOK
  <2>3. CASE StoreCompletion(c, ClosedCases("CANCELLED"), ClosedSteps("CANCELLED"),
                             effective, effective)
    <3>1. "CANCELLED" \in RunNodeStatus
      BY DEF RunNodeStatus
    <3>2. QED
      BY <2>1, <2>2, <2>3, <3>1, ClosedType, CompletionType DEF TypeInv
  <2>4. CASE StoreCompletion(c, cases, steps, effective, effective)
    <3>1. WebCase(c, traces, failure) \in RunNodeStatus
      BY AggregateType DEF WebCase, TypeInv, TypeOK, RunNodeStatus
    <3>2. cases \in [Cases -> RunNodeStatus]
      BY <3>1 DEF TypeInv, TypeOK
    <3>3. steps \in [Cases -> [Steps -> RunNodeStatus]]
      BY TerminalNodeType DEF TypeInv, TypeOK
    <3>4. QED
      BY <2>1, <2>2, <2>4, <3>2, <3>3, CompletionType
  <2>5. QED
    BY <1>5, <2>3, <2>4 DEF CompleteWebExecution
<1>6. ASSUME NEW c \in Cases, NEW outcome \in Outcome,
             NEW traces \in [Steps -> TerminalNode \cup {"NONE"}],
             NEW token \in BOOLEAN, NEW mark \in Steps,
             CompleteScenarioExecution(c, outcome, traces, token, mark)
      PROVE  TypeInv'
  <2> DEFINE effective == EffectiveOutcome(outcome)
             report == ScenarioReport(effective, traces, mark)
             steps == [step EXCEPT ![c] =
                         [s \in Steps |-> CloseNode(step[c][s], report[s])]]
             cases == [case EXCEPT ![c] =
                         AggregateCase(case[c], StepStatuses(steps, c))]
  <2>1. effective \in ResultStatus /\ effective \in RunStatus
        /\ effective \in RunNodeStatus
    BY DEF EffectiveOutcome, Outcome, ResultStatus, RunStatus, RunNodeStatus
  <2>2. forceStopped' \in BOOLEAN
    BY <1>6, Zenon DEF CompleteScenarioExecution
  <2>3. CASE StoreCompletion(c, ClosedCases("CANCELLED"), ClosedSteps("CANCELLED"),
                             effective, effective)
    <3>1. "CANCELLED" \in RunNodeStatus
      BY DEF RunNodeStatus
    <3>2. QED
      BY <2>1, <2>2, <2>3, <3>1, ClosedType, CompletionType DEF TypeInv
  <2>4. CASE StoreCompletion(c, cases, steps, effective, effective)
    <3>1. \A s \in Steps : report[s] \in RunNodeStatus
      BY <2>1, TerminalNodeType DEF ScenarioReport, RunNodeStatus
    <3>2. steps \in [Cases -> [Steps -> RunNodeStatus]]
      <4>1. [s \in Steps |-> CloseNode(step[c][s], report[s])]
              \in [Steps -> RunNodeStatus]
        BY <3>1, CloseNodeType DEF TypeInv, TypeOK
      <4>2. QED
        BY <4>1 DEF TypeInv, TypeOK
    <3>3. cases \in [Cases -> RunNodeStatus]
      BY AggregateType DEF TypeInv, TypeOK
    <3>4. QED
      BY <2>1, <2>2, <2>4, <3>2, <3>3, CompletionType
  <2>5. QED
    BY <1>6, <2>3, <2>4 DEF CompleteScenarioExecution
<1>7. QED
    BY <1>1, <1>2, <1>3, <1>4, <1>5, <1>6
       DEF ExecutionNext, StartApiExecution, StartWebExecution,
           StartScenarioExecution, EvaluateApiExecution, EvaluateWebExecution,
           EvaluateScenarioExecution

\* The inductive invariant of type correctness.
LEMMA TypeInvariant == Spec => []TypeInv
<1>1. Init => TypeInv
  <2> SUFFICES ASSUME Init PROVE TypeInv
    OBVIOUS
  <2>1. 0 \in 0..MaxAttempts
    BY MaxAttemptsAssumption
  <2>2. view \in [Dispatchers -> [status   : DispatchOutboxStatus,
                                  attempts : 0..MaxAttempts]]
    BY <2>1 DEF Init, DispatchOutboxStatus
  <2>3. /\ case \in [Cases -> RunNodeStatus]
        /\ step \in [Cases -> [Steps -> RunNodeStatus]]
    BY DEF Init, RunNodeStatus
  <2>4. QED
    BY <2>1, <2>2, <2>3 DEF Init, TypeInv, TypeOK, RunStatus
<1>2. TypeInv /\ [Next]_vars => TypeInv'
  <2>1. ASSUME TypeInv, UNCHANGED vars PROVE TypeInv'
    BY <2>1 DEF TypeInv, TypeOK, vars, runVars, nodeVars, dispatchVars,
                executionVars, environmentVars, Cases, Steps
  <2>2. QED
    BY <2>1, DispatchType, ControlType, ExecutionType DEF Next
<1>3. QED
    BY <1>1, <1>2, PTL DEF Spec

\* Every column of the run and of its rows always holds a legal value, and the
\* attempts recorded by dispatch_run never exceed _DISPATCH_MAX_ATTEMPTS.
THEOREM TypeCorrect == Spec => []TypeOK
<1>1. TypeInv => TypeOK
    BY DEF TypeInv
<1>2. QED
    BY <1>1, TypeInvariant, PTL

(***************************************************************************)
(* Recorded outcomes are final.                                            *)
(***************************************************************************)
OutcomesKept ==
    /\ shape' = shape
    /\ \A c \in Cases :
         /\ case[c] \in TerminalNode => case'[c] = case[c]
         /\ \A s \in Steps : step[c][s] \in TerminalNode => step'[c][s] = step[c][s]
         /\ result[c] # "NONE" => result'[c] = result[c]
         /\ evaluation[c] \in Verdict => evaluation'[c] = evaluation[c]

\* _set_node_status accepts nothing but the same status on a finished node.
LEMMA FinishedNodeFixed ==
    ASSUME NEW current \in TerminalNode, NEW requested, CanSetNode(current, requested)
    PROVE  requested = current
BY DEF CanSetNode, NodeTransitions, TerminalNode

\* The closing loops do not touch a finished node.
LEMMA ClosingKeepsFinished ==
    ASSUME NEW status, NEW c \in Cases
    PROVE  /\ case[c] \in TerminalNode => ClosedCases(status)[c] = case[c]
           /\ \A s \in Steps : step[c][s] \in TerminalNode =>
                                 ClosedSteps(status)[c][s] = step[c][s]
BY DEF ClosedCases, ClosedSteps, CloseNode

\* Dispatching and claiming rewrite no recorded outcome.
LEMMA DispatchKeeps == DispatchNext => OutcomesKept
<1> SUFFICES ASSUME DispatchNext PROVE OutcomesKept
    OBVIOUS
<1> USE DEF runVars, nodeVars, executionVars
<1>1. CASE ClaimCancellingRun
    BY <1>1, ClosingKeepsFinished
       DEF OutcomesKept, ClaimCancellingRun, CloseNodes, WriteNodes
<1>2. CASE ~ClaimCancellingRun
    BY <1>2 DEF DispatchNext, OutcomesKept, DispatchCreate, DispatchReload,
                DispatchAttempt, DispatchRetry, DispatchCrash,
                RecordPublishResult, ClaimRun
<1>3. QED
    BY <1>1, <1>2

\* Neither do the controlling requests and the reconciliations.
LEMMA ControlKeeps == TypeInv /\ ControlNext => OutcomesKept
<1> SUFFICES ASSUME TypeInv, ControlNext PROVE OutcomesKept
    OBVIOUS
<1> USE DEF runVars, nodeVars, dispatchVars, executionVars, environmentVars
<1>1. ASSUME CancelWaitingRun PROVE OutcomesKept
    BY <1>1, ClosingKeepsFinished
       DEF OutcomesKept, CancelWaitingRun, CloseNodes, WriteNodes
<1>2. ASSUME CancelActiveRun PROVE OutcomesKept
    BY <1>2 DEF OutcomesKept, CancelActiveRun, WriteNodes, Cancelling, TerminalNode
<1>3. ASSUME NEW c \in Cases, NEW s \in Steps, NEW requested \in RunNodeStatus,
             RunnerReportsStep(c, s, requested)
      PROVE  OutcomesKept
    BY <1>3, FinishedNodeFixed
       DEF TypeInv, TypeOK, OutcomesKept, RunnerReportsStep, WriteNodes
<1>4. ASSUME ReconcileDisconnectedRun PROVE OutcomesKept
    BY <1>4, ClosingKeepsFinished
       DEF OutcomesKept, ReconcileDisconnectedRun, CloseNodes, WriteNodes
<1>5. ASSUME ReconcileOverdueRun PROVE OutcomesKept
  <2>1. CASE run = "RUNNING"
    BY <1>5, <2>1
       DEF OutcomesKept, ReconcileOverdueRun, WriteNodes, TimedOut, CloseNode
  <2>2. CASE run = "CANCELLING"
    BY <1>5, <2>2, ClosingKeepsFinished
       DEF OutcomesKept, ReconcileOverdueRun, CloseNodes, WriteNodes
  <2>3. QED
    BY <1>5, <2>1, <2>2 DEF ReconcileOverdueRun
<1>6. QED
    BY <1>1, <1>2, <1>3, <1>4, <1>5
       DEF ControlNext, OutcomesKept, ForceStopRun, UserCancelsCreated,
           RunnerReportsRun, DeadlinePasses, HeartbeatChanges, RevokeRunner

\* What StoreCompletion needs to rewrite no recorded outcome.
LEMMA CompletionKeeps ==
    ASSUME TypeInv,
           NEW c \in Cases, NEW cases, NEW steps, NEW status, NEW requested,
           StoreCompletion(c, cases, steps, status, requested),
           result[c] = "NONE",
           \A x \in Cases :
             /\ case[x] \in TerminalNode => cases[x] = case[x]
             /\ \A s \in Steps : step[x][s] \in TerminalNode =>
                                   steps[x][s] = step[x][s]
    PROVE  OutcomesKept
BY DEF TypeInv, TypeOK, OutcomesKept, StoreCompletion, WriteNodes

\* The executing runner rewrites no recorded outcome.
LEMMA ExecutionKeeps == TypeInv /\ ExecutionNext => OutcomesKept
<1> SUFFICES ASSUME TypeInv, ExecutionNext PROVE OutcomesKept
    OBVIOUS
<1> USE DEF runVars, nodeVars, dispatchVars, executionVars, environmentVars
<1>1. ASSUME NEW c \in Cases, StartCase(c) PROVE OutcomesKept
    BY <1>1 DEF TypeInv, TypeOK, OutcomesKept, StartCase, TerminalNode
<1>2. ASSUME NEW c \in Cases, ReserveEvaluation(c) PROVE OutcomesKept
    BY <1>2 DEF TypeInv, TypeOK, OutcomesKept, ReserveEvaluation, Verdict
<1>3. ASSUME NEW c \in Cases, NEW verdict \in Verdict,
             StoreEvaluation(c, verdict)
      PROVE  OutcomesKept
    BY <1>3 DEF TypeInv, TypeOK, OutcomesKept, StoreEvaluation, Verdict
<1>4. ASSUME NEW c \in Cases, NEW outcome \in ApiOutcome, NEW verdict \in Verdict,
             NEW token \in BOOLEAN, NEW forced \in BOOLEAN,
             CompleteApiExecution(c, outcome, verdict, token, forced)
      PROVE  OutcomesKept
  <2> DEFINE effective == EffectiveOutcome(outcome)
             status    == ApiStatus(effective, verdict)
             node      == ApiNodeStatus(status)
             statuses  == CaseStatuses(ApiCases(c, node))
             requested == IF statuses \subseteq TerminalNode
                            THEN IterationVerdict(statuses)
                            ELSE run
  <2>1. /\ result[c] = "NONE"
        /\ CanSetNode(case[c], node)
        /\ StoreCompletion(c, ApiCases(c, node), ApiSteps(c, node), status,
                           requested)
    BY <1>4 DEF CompleteApiExecution, MayComplete
  <2>2. ASSUME NEW x \in Cases, case[x] \in TerminalNode
        PROVE  ApiCases(c, node)[x] = case[x]
    BY <2>1, <2>2, FinishedNodeFixed DEF ApiCases, CloseNode
  <2>3. ASSUME NEW x \in Cases, NEW s \in Steps, step[x][s] \in TerminalNode
        PROVE  ApiSteps(c, node)[x][s] = step[x][s]
    BY <2>3 DEF ApiSteps, CloseNode
  <2>4. QED
    BY <2>1, <2>2, <2>3, CompletionKeeps
<1>5. ASSUME NEW c \in Cases, NEW outcome \in Outcome,
             NEW traces \in [Steps -> TerminalNode], NEW token \in BOOLEAN,
             NEW failure \in {"NONE", "EVIDENCE", "SESSION"},
             CompleteWebExecution(c, outcome, traces, token, failure)
      PROVE  OutcomesKept
  <2> DEFINE effective == EffectiveOutcome(outcome)
             cases == [case EXCEPT ![c] = WebCase(c, traces, failure)]
             steps == [step EXCEPT ![c] = traces]
  <2>1. result[c] = "NONE"
    BY <1>5 DEF CompleteWebExecution, MayComplete
  <2>2. CASE StoreCompletion(c, ClosedCases("CANCELLED"), ClosedSteps("CANCELLED"),
                             effective, effective)
    BY <2>1, <2>2, ClosingKeepsFinished, CompletionKeeps
  <2>3. CASE /\ effective # "CANCELLED"
             /\ \A s \in Steps : CanSetNode(step[c][s], traces[s])
             /\ StoreCompletion(c, cases, steps, effective, effective)
    <3>1. case[c] = "RUNNING"
      BY <1>5, <2>3 DEF CompleteWebExecution, MayComplete
    <3>2. \A x \in Cases : case[x] \in TerminalNode => cases[x] = case[x]
      BY <3>1 DEF TypeInv, TypeOK, TerminalNode
    <3>3. \A x \in Cases, s \in Steps : step[x][s] \in TerminalNode =>
                                          steps[x][s] = step[x][s]
      BY <2>3, FinishedNodeFixed DEF TypeInv, TypeOK
    <3> HIDE DEF cases, steps, effective
    <3>4. QED
      BY <2>1, <2>3, <3>2, <3>3, CompletionKeeps
  <2>4. QED
    BY <1>5, <2>2, <2>3 DEF CompleteWebExecution
<1>6. ASSUME NEW c \in Cases, NEW outcome \in Outcome,
             NEW traces \in [Steps -> TerminalNode \cup {"NONE"}],
             NEW token \in BOOLEAN, NEW mark \in Steps,
             CompleteScenarioExecution(c, outcome, traces, token, mark)
      PROVE  OutcomesKept
  <2> DEFINE effective == EffectiveOutcome(outcome)
             report == ScenarioReport(effective, traces, mark)
             steps == [step EXCEPT ![c] =
                         [s \in Steps |-> CloseNode(step[c][s], report[s])]]
             cases == [case EXCEPT ![c] =
                         AggregateCase(case[c], StepStatuses(steps, c))]
  <2>1. result[c] = "NONE"
    BY <1>6 DEF CompleteScenarioExecution, MayComplete
  <2>2. CASE StoreCompletion(c, ClosedCases("CANCELLED"), ClosedSteps("CANCELLED"),
                             effective, effective)
    BY <2>1, <2>2, ClosingKeepsFinished, CompletionKeeps
  <2>3. CASE StoreCompletion(c, cases, steps, effective, effective)
    <3>1. \A x \in Cases : case[x] \in TerminalNode => cases[x] = case[x]
      BY DEF TypeInv, TypeOK, AggregateCase
    <3>2. \A x \in Cases, s \in Steps : step[x][s] \in TerminalNode =>
                                          steps[x][s] = step[x][s]
      BY DEF TypeInv, TypeOK, CloseNode
    <3> HIDE DEF cases, steps, effective
    <3>3. QED
      BY <2>1, <2>3, <3>1, <3>2, CompletionKeeps
  <2>4. QED
    BY <1>6, <2>2, <2>3 DEF CompleteScenarioExecution
<1>7. QED
    BY <1>1, <1>2, <1>3, <1>4, <1>5, <1>6
       DEF ExecutionNext, StartApiExecution, StartWebExecution,
           StartScenarioExecution, EvaluateApiExecution, EvaluateWebExecution,
           EvaluateScenarioExecution

\* No handler ever rewrites the status of a finished step or case, a stored
\* execution result or a stored AI verdict.
THEOREM OutcomesFinal == Spec => RecordedOutcomesFinal
<1>1. TypeInv /\ Next => OutcomesKept
    BY DispatchKeeps, ControlKeeps, ExecutionKeeps DEF Next
<1>2. TypeInv /\ [Next]_vars =>
        [\A c \in Cases :
           /\ case[c] \in TerminalNode => case'[c] = case[c]
           /\ \A s \in Steps : step[c][s] \in TerminalNode =>
                                 step'[c][s] = step[c][s]
           /\ result[c] # "NONE" => result'[c] = result[c]
           /\ evaluation[c] \in Verdict => evaluation'[c] = evaluation[c]]_vars
    BY <1>1 DEF OutcomesKept
<1>3. QED
    BY <1>2, TypeInvariant, PTL DEF Spec, RecordedOutcomesFinal
============================================================================
