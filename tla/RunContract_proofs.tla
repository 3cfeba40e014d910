------------------------- MODULE RunContract_proofs -------------------------
(***************************************************************************)
(* RunLifecycle implements RunContract.  Every action of RunLifecycle is   *)
(* first brought down to what it does to the run's status, its claim and   *)
(* its cases (RunStep); the rest of the argument is about RunStep alone.   *)
(***************************************************************************)
EXTENDS RunLifecycle_proofs

Waiting == {"CREATED", "QUEUED"}
Active == {"ASSIGNED", "RUNNING"}

Idles == run' = run /\ case' = case /\ claimed' = claimed

Queues == /\ run = "CREATED" /\ run' = "QUEUED"
          /\ case' = case /\ claimed' = claimed

Claims == run = "QUEUED" /\ run' = "ASSIGNED" /\ case' = case

Drops == run \in Waiting /\ run' = "CANCELLED" /\ claimed' = claimed

Works == /\ \/ run \in Active /\ run' \in Active
            \/ run = "CANCELLING" /\ run' = run
         /\ claimed' = claimed

Asks == /\ run \in Active /\ run' = "CANCELLING" /\ claimed' = claimed
        /\ \A c \in Cases : case'[c] \in TerminalNode => case'[c] = case[c]

Closes ==
    /\ \/ run \in Active /\ run' \in TerminalRun \ {"CANCELLED"}
       \/ run = "CANCELLING" /\ run' = "CANCELLED"
    /\ \A c \in Cases : case'[c] \in TerminalNode
    /\ run' = "SUCCESS" => \A c \in Cases : case'[c] \in {"SUCCESS", "SKIPPED"}
    /\ run' = "FAILED" => \E c \in Cases : case'[c] \in {"FAILED", "REVIEW"}

\* A completion that arrives for a cancelled run.
Repeats == run = "CANCELLED" /\ run' = run /\ claimed /\ claimed' = claimed

RunStep ==
    \/ Idles \/ Queues \/ Claims \/ Drops \/ Works \/ Asks \/ Closes \/ Repeats

\* The closing loops finish every case.
LEMMA ClosedCasesFinished ==
    ASSUME NEW status \in TerminalNode
    PROVE  \A c \in Cases : ClosedCases(status)[c] \in TerminalNode
BY DEF ClosedCases, CloseNode

\* _ensure_terminal_run_matches_children, said of the cases one by one.
LEMMA MatchingCases ==
    ASSUME NEW current, NEW requested \in TerminalRun, NEW cases,
           MatchesChildren(current, requested, CaseStatuses(cases))
    PROVE  /\ \A c \in Cases : cases[c] \in TerminalNode
           /\ requested = "SUCCESS" =>
                \A c \in Cases : cases[c] \in {"SUCCESS", "SKIPPED"}
           /\ requested = "FAILED" =>
                \E c \in Cases : cases[c] \in {"FAILED", "REVIEW"}
           /\ requested = "CANCELLED" => current \in {"CANCELLING", "CANCELLED"}
BY DEF MatchesChildren, CaseStatuses

\* The loop of reconcile_overdue_run_core finishes every node.
LEMMA TimedOutFinished == \A status : TimedOut(status) \in TerminalNode
BY DEF TimedOut, CloseNode, TerminalNode

\* _authorize_runner_run_transition.
LEMMA RunnerReports ==
    ASSUME NEW current, NEW requested \in RunnerMayReport(current)
    PROVE  \/ current = "ASSIGNED" /\ requested = "RUNNING"
           \/ current = "RUNNING" /\ requested \in TerminalRun \ {"CANCELLED"}
           \/ current = "CANCELLING" /\ requested = "CANCELLED"
<1>1. CASE current = "ASSIGNED"
    BY <1>1 DEF RunnerMayReport
<1>2. CASE current = "RUNNING"
    BY <1>2 DEF RunnerMayReport, TerminalRun
<1>3. CASE current = "CANCELLING"
    BY <1>3 DEF RunnerMayReport
<1>4. CASE current \notin {"ASSIGNED", "RUNNING", "CANCELLING"}
  <2>1. RunnerMayReport(current) = {}
    BY <1>4 DEF RunnerMayReport
  <2>2. QED
    BY <2>1
<1>5. QED
    BY <1>1, <1>2, <1>3, <1>4

\* What dispatching and claiming do to the run.
LEMMA DispatchSteps == TypeInv /\ DispatchNext => RunStep
<1> SUFFICES ASSUME TypeInv, DispatchNext PROVE RunStep
    OBVIOUS
<1> USE DEF runVars, nodeVars
<1>1. CASE ClaimCancellingRun
  <2>1. "CANCELLED" \in TerminalNode
    BY DEF TerminalNode
  <2>2. Closes
    BY <1>1, <2>1, ClosedCasesFinished
       DEF Closes, ClaimCancellingRun, CloseNodes, WriteNodes
  <2>3. QED
    BY <2>2 DEF RunStep
<1>2. CASE ClaimRun
    BY <1>2 DEF RunStep, Claims, ClaimRun
<1>3. ASSUME NEW d \in Dispatchers, DispatchCreate(d) PROVE RunStep
    BY <1>3 DEF RunStep, Queues, DispatchCreate
<1>4. QED
    BY <1>1, <1>2, <1>3
       DEF DispatchNext, RunStep, Idles, DispatchReload, DispatchAttempt,
           DispatchRetry, DispatchCrash, RecordPublishResult

\* What the controlling requests and the reconciliations do to the run.
LEMMA ControlSteps == TypeInv /\ ControlNext => RunStep
<1> SUFFICES ASSUME TypeInv, ControlNext PROVE RunStep
    OBVIOUS
<1> USE DEF runVars, nodeVars, dispatchVars, environmentVars
<1>1. ASSUME CancelWaitingRun PROVE RunStep
    BY <1>1 DEF RunStep, Drops, CancelWaitingRun, Waiting
<1>2. ASSUME CancelActiveRun PROVE RunStep
  <2>1. \A c \in Cases : case'[c] \in TerminalNode => case'[c] = case[c]
    BY <1>2 DEF CancelActiveRun, WriteNodes, Cancelling, TerminalNode
  <2>2. QED
    BY <1>2, <2>1 DEF RunStep, Asks, CancelActiveRun, Active
<1>3. ASSUME ForceStopRun PROVE RunStep
    BY <1>1, <1>3 DEF RunStep, Idles, Asks, ForceStopRun, Active
<1>4. ASSUME UserCancelsCreated PROVE RunStep
    BY <1>4 DEF RunStep, Drops, UserCancelsCreated, Waiting
<1>5. ASSUME NEW requested \in RunStatus, RunnerReportsRun(requested)
      PROVE  RunStep
  <2>1. /\ requested \in RunnerMayReport(run)
        /\ MatchesChildren(run, requested, CaseStatuses(case))
        /\ case' = case /\ run' = requested /\ claimed' = claimed
    BY <1>5 DEF RunnerReportsRun
  <2>2. CASE run = "ASSIGNED" /\ requested = "RUNNING"
    BY <2>1, <2>2 DEF RunStep, Works, Active
  <2>3. CASE \/ run = "RUNNING" /\ requested \in TerminalRun \ {"CANCELLED"}
             \/ run = "CANCELLING" /\ requested = "CANCELLED"
    <3>1. requested \in TerminalRun
      BY <2>3 DEF TerminalRun
    <3>2. /\ \A c \in Cases : case[c] \in TerminalNode
          /\ requested = "SUCCESS" =>
               \A c \in Cases : case[c] \in {"SUCCESS", "SKIPPED"}
          /\ requested = "FAILED" =>
               \E c \in Cases : case[c] \in {"FAILED", "REVIEW"}
      BY <2>1, <3>1, MatchingCases
    <3>3. Closes
      BY <2>1, <2>3, <3>2 DEF Closes, Active
    <3>4. QED
      BY <3>3 DEF RunStep
  <2>4. QED
    BY <2>1, <2>2, <2>3, RunnerReports
<1>6. ASSUME NEW c \in Cases, NEW s \in Steps, NEW requested \in RunNodeStatus,
             RunnerReportsStep(c, s, requested)
      PROVE  RunStep
    BY <1>6 DEF RunStep, Works, RunnerReportsStep, Active
<1>7. ASSUME ReconcileDisconnectedRun PROVE RunStep
  <2>1. "FAILED" \in TerminalRun
    BY DEF TerminalRun
  <2>2. MatchesChildren(run, "FAILED", CaseStatuses(ClosedCases("FAILED")))
    BY <1>7 DEF ReconcileDisconnectedRun
  <2>3. /\ run \in Active /\ run' = "FAILED"
        /\ case' = ClosedCases("FAILED")
    BY <1>7 DEF ReconcileDisconnectedRun, CloseNodes, WriteNodes, Active
  <2>4. /\ \A c \in Cases : ClosedCases("FAILED")[c] \in TerminalNode
        /\ \E c \in Cases : ClosedCases("FAILED")[c] \in {"FAILED", "REVIEW"}
    BY <2>1, <2>2, MatchingCases
  <2>5. Closes
    BY <2>1, <2>3, <2>4 DEF Closes
  <2>6. QED
    BY <2>5 DEF RunStep
<1>8. ASSUME ReconcileOverdueRun PROVE RunStep
  <2>1. CASE run = "RUNNING"
    <3>1. case' = [c \in Cases |-> TimedOut(case[c])] /\ run' = "TIMEOUT"
      BY <1>8, <2>1 DEF ReconcileOverdueRun, WriteNodes
    <3>2. Closes
      BY <2>1, <3>1, TimedOutFinished DEF Closes, TerminalRun, Active
    <3>3. QED
      BY <3>2 DEF RunStep
  <2>2. CASE run = "CANCELLING"
    <3>1. "CANCELLED" \in TerminalNode
      BY DEF TerminalNode
    <3>2. Closes
      BY <1>8, <2>2, <3>1, ClosedCasesFinished
         DEF Closes, ReconcileOverdueRun, CloseNodes, WriteNodes
    <3>3. QED
      BY <3>2 DEF RunStep
  <2>3. QED
    BY <1>8, <2>1, <2>2 DEF ReconcileOverdueRun
<1>9. QED
    BY <1>1, <1>2, <1>3, <1>4, <1>5, <1>6, <1>7, <1>8
       DEF ControlNext, RunStep, Idles, DeadlinePasses, HeartbeatChanges,
           RevokeRunner

\* What StoreCompletion does to the run.
LEMMA CompletionSteps ==
    ASSUME TypeInv, claimed,
           run \in {"RUNNING", "CANCELLING", "CANCELLED"},
           NEW c \in Cases, NEW cases, NEW steps, NEW status, NEW requested,
           StoreCompletion(c, cases, steps, status, requested),
           requested \in TerminalRun \/ requested = run
    PROVE  RunStep
<1>1. /\ case' = cases /\ run' = requested /\ claimed' = claimed
      /\ MatchesChildren(run, requested, CaseStatuses(cases))
      /\ CanSetRun(run, requested)
    BY DEF StoreCompletion, WriteNodes, dispatchVars
<1>2. CASE requested = run
    BY <1>1, <1>2 DEF RunStep, Works, Repeats, Active
<1>3. CASE requested # run
  <2>1. \/ run = "RUNNING" /\ requested \in TerminalRun \ {"CANCELLED"}
        \/ run = "CANCELLING" /\ requested = "CANCELLED"
    BY <1>1, <1>3 DEF CanSetRun, RunTransitions, TerminalRun
  <2>2. /\ \A x \in Cases : cases[x] \in TerminalNode
        /\ requested = "SUCCESS" =>
             \A x \in Cases : cases[x] \in {"SUCCESS", "SKIPPED"}
        /\ requested = "FAILED" =>
             \E x \in Cases : cases[x] \in {"FAILED", "REVIEW"}
    <3>1. requested \in TerminalRun
      BY <1>3
    <3>2. QED
      BY <1>1, <3>1, MatchingCases
  <2>3. Closes
    BY <1>1, <2>1, <2>2 DEF Closes, Active
  <2>4. QED
    BY <2>3 DEF RunStep
<1>4. QED
    BY <1>2, <1>3

\* What the executing runner does to the run.
LEMMA ExecutionSteps == TypeInv /\ ExecutionNext => RunStep
<1> SUFFICES ASSUME TypeInv, ExecutionNext PROVE RunStep
    OBVIOUS
<1> USE DEF runVars, nodeVars, dispatchVars
<1>1. ASSUME NEW c \in Cases, StartCase(c), run \in Active PROVE RunStep
    BY <1>1 DEF StartCase, RunStep, Works, Active
<1>2. ASSUME NEW c \in Cases, ReserveEvaluation(c) PROVE RunStep
    BY <1>2 DEF ReserveEvaluation, RunStep, Idles
<1>3. ASSUME NEW c \in Cases, NEW verdict \in Verdict, StoreEvaluation(c, verdict)
      PROVE  RunStep
    BY <1>3 DEF StoreEvaluation, RunStep, Idles
<1>4. ASSUME NEW c \in Cases, NEW outcome, MayComplete(c, outcome)
      PROVE  claimed /\ run \in {"RUNNING", "CANCELLING", "CANCELLED"}
    BY <1>4 DEF MayComplete, ExecutionContext
<1>5. ASSUME NEW c \in Cases, NEW outcome \in ApiOutcome, NEW verdict \in Verdict,
             NEW token \in BOOLEAN, NEW forced \in BOOLEAN,
             CompleteApiExecution(c, outcome, verdict, token, forced)
      PROVE  RunStep
  <2> DEFINE effective == EffectiveOutcome(outcome)
             status    == ApiStatus(effective, verdict)
             node      == ApiNodeStatus(status)
             statuses  == CaseStatuses(ApiCases(c, node))
             requested == IF statuses \subseteq TerminalNode
                            THEN IterationVerdict(statuses)
                            ELSE run
  <2>1. /\ MayComplete(c, effective)
        /\ StoreCompletion(c, ApiCases(c, node), ApiSteps(c, node), status,
                           requested)
    BY <1>5 DEF CompleteApiExecution
  <2>2. requested \in TerminalRun \/ requested = run
    BY DEF IterationVerdict, TerminalRun
  <2> HIDE DEF effective, status, node, statuses, requested
  <2>3. QED
    BY <1>4, <2>1, <2>2, CompletionSteps
<1>6. ASSUME NEW outcome \in Outcome PROVE EffectiveOutcome(outcome) \in TerminalRun
    BY DEF EffectiveOutcome, Outcome, TerminalRun
<1>7. ASSUME NEW c \in Cases, NEW outcome \in Outcome,
             NEW traces \in [Steps -> TerminalNode], NEW token \in BOOLEAN,
             NEW failure \in {"NONE", "EVIDENCE", "SESSION"},
             CompleteWebExecution(c, outcome, traces, token, failure)
      PROVE  RunStep
  <2>1. /\ MayComplete(c, EffectiveOutcome(outcome))
        /\ \E cases, steps :
             StoreCompletion(c, cases, steps, EffectiveOutcome(outcome),
                             EffectiveOutcome(outcome))
    BY <1>7, Zenon DEF CompleteWebExecution
  <2>2. QED
    BY <1>4, <1>6, <2>1, CompletionSteps
<1>8. ASSUME NEW c \in Cases, NEW outcome \in Outcome,
             NEW traces \in [Steps -> TerminalNode \cup {"NONE"}],
             NEW token \in BOOLEAN, NEW mark \in Steps,
             CompleteScenarioExecution(c, outcome, traces, token, mark)
      PROVE  RunStep
  <2>1. /\ MayComplete(c, EffectiveOutcome(outcome))
        /\ \E cases, steps :
             StoreCompletion(c, cases, steps, EffectiveOutcome(outcome),
                             EffectiveOutcome(outcome))
    BY <1>8, Zenon DEF CompleteScenarioExecution
  <2>2. QED
    BY <1>4, <1>6, <2>1, CompletionSteps
<1>9. QED
    BY <1>1, <1>2, <1>3, <1>5, <1>7, <1>8
       DEF ExecutionNext, StartApiExecution, StartWebExecution,
           StartScenarioExecution, EvaluateApiExecution, EvaluateWebExecution,
           EvaluateScenarioExecution, Active

(***************************************************************************)
(* A run is claimed exactly when it leaves its waiting states, and a       *)
(* closed run that was claimed has no open case: what arrives late finds   *)
(* nothing to change.                                                      *)
(***************************************************************************)
TakenInv ==
    /\ TypeInv
    /\ run \in Waiting => ~claimed
    /\ run \in TerminalRun /\ claimed => \A c \in Cases : case[c] \in TerminalNode

\* Every step of the system is a RunStep that keeps what was recorded.
LEMMA EveryStep == TypeInv /\ [Next]_vars => RunStep /\ OutcomesKept /\ TypeInv'
<1> SUFFICES ASSUME TypeInv, [Next]_vars PROVE RunStep /\ OutcomesKept /\ TypeInv'
    OBVIOUS
<1>1. CASE Next
    BY <1>1, DispatchSteps, ControlSteps, ExecutionSteps, DispatchKeeps,
       ControlKeeps, ExecutionKeeps, DispatchType, ControlType, ExecutionType
       DEF Next
<1>2. CASE UNCHANGED vars
  <2> USE DEF vars, runVars, nodeVars, dispatchVars, executionVars, environmentVars
  <2>1. RunStep
    BY <1>2 DEF RunStep, Idles
  <2>2. OutcomesKept
    BY <1>2 DEF OutcomesKept
  <2>3. TypeInv'
    BY <1>2 DEF TypeInv, TypeOK, Cases, Steps
  <2>4. QED
    BY <2>1, <2>2, <2>3
<1>3. QED
    BY <1>1, <1>2

\* TakenInv is inductive.
LEMMA TakenInvariant == Spec => []TakenInv
<1>1. Init => run \in Waiting /\ ~claimed
    BY DEF Init, Waiting
<1>2. TakenInv /\ [Next]_vars => TakenInv'
  <2> SUFFICES ASSUME TakenInv, [Next]_vars PROVE TakenInv'
    OBVIOUS
  <2>1. RunStep /\ OutcomesKept /\ TypeInv'
    BY EveryStep DEF TakenInv
  <2>2. Cases' = Cases
    BY <2>1 DEF OutcomesKept, Cases
  <2>3. (run \in Waiting => ~claimed)'
    BY <2>1 DEF TakenInv, RunStep, Idles, Queues, Claims, Drops, Works, Asks,
                Closes, Repeats, Waiting, Active, TerminalRun
  <2>4. (run \in TerminalRun /\ claimed => \A c \in Cases : case[c] \in TerminalNode)'
    BY <2>1, <2>2
       DEF TakenInv, OutcomesKept, RunStep, Idles, Queues, Claims, Drops, Works,
           Asks, Closes, Repeats, Waiting, Active, TerminalRun
  <2>5. QED
    BY <2>1, <2>3, <2>4 DEF TakenInv
<1>3. QED
  <2>1. TypeInv /\ run \in Waiting /\ ~claimed => TakenInv
    BY DEF TakenInv, Waiting, TerminalRun
  <2>2. Spec => TypeInv
    BY TypeInvariant, PTL
  <2>3. QED
    BY <1>1, <1>2, <2>1, <2>2, PTL DEF Spec

\* A finished run is never reopened or closed a second time, whatever arrives
\* late.
THEOREM FinishedRunFinal == Spec => TerminalRunFinal
<1>1. TypeInv /\ [Next]_vars => [(run \in TerminalRun) => run' = run]_vars
  <2> SUFFICES ASSUME TypeInv, [Next]_vars, run \in TerminalRun PROVE run' = run
    OBVIOUS
  <2>1. RunStep
    BY EveryStep
  <2>2. QED
    BY <2>1 DEF RunStep, Idles, Queues, Claims, Drops, Works, Asks, Closes,
                Repeats, Waiting, Active, TerminalRun
<1>2. QED
    BY <1>1, TypeInvariant, PTL DEF Spec, TerminalRunFinal

(***************************************************************************)
(* The refinement: the initial states map to initial states, and every     *)
(* RunStep to a step of the contract or to none.                           *)
(***************************************************************************)

\* The contract's phase, status by status.
LEMMA PhaseOf ==
    ASSUME run \in RunStatus
    PROVE  /\ run \in Waiting => Phase = "waiting"
           /\ run \in Active => Phase = "active"
           /\ run = "CANCELLING" => Phase = "stopping"
           /\ run \in TerminalRun => Phase = "closed"
BY DEF Phase, Waiting, Active, TerminalRun

\* The same in the next state.
LEMMA NextPhaseOf ==
    ASSUME run' \in RunStatus
    PROVE  /\ run' \in Waiting => Phase' = "waiting"
           /\ run' \in Active => Phase' = "active"
           /\ run' = "CANCELLING" => Phase' = "stopping"
           /\ run' \in TerminalRun => Phase' = "closed"
BY DEF Phase, Waiting, Active, TerminalRun

\* Cases only gain outcomes, so the contract's Conclude holds of every step.
LEMMA StepConcludes == OutcomesKept => Contract!Conclude
<1> SUFFICES ASSUME OutcomesKept PROVE Contract!Conclude
    OBVIOUS
<1>1. DOMAIN Concluded = Cases /\ Cases' = Cases
    BY DEF Concluded, OutcomesKept, Cases
<1>2. Concluded' \in [Cases -> {"OPEN"} \cup TerminalNode]
    BY <1>1 DEF Concluded
<1>3. \A c \in Cases : Concluded[c] # "OPEN" => Concluded'[c] = Concluded[c]
    BY <1>1 DEF Concluded, OutcomesKept
<1>4. QED
    BY <1>1, <1>2, <1>3 DEF Contract!Conclude, Contract!TerminalNode, TerminalNode

\* Every step of the system is a step of the contract.
LEMMA ContractStep == TakenInv /\ [Next]_vars => [Contract!ContractNext]_(Contract!contractVars)
<1> SUFFICES ASSUME TakenInv, [Next]_vars
             PROVE  [Contract!ContractNext]_(Contract!contractVars)
    OBVIOUS
<1>1. RunStep /\ OutcomesKept /\ TypeInv'
    BY EveryStep DEF TakenInv
<1>2. Contract!Conclude
    BY <1>1, StepConcludes
<1>3. /\ run \in RunStatus /\ run' \in RunStatus
      /\ Cases' = Cases /\ DOMAIN Concluded = Cases
    BY <1>1 DEF TakenInv, TypeInv, TypeOK, OutcomesKept, Cases, Concluded
<1>4. case' = case => Concluded' = Concluded
    BY <1>3 DEF Concluded
<1> USE DEF Contract!contractVars
<1>5. CASE Idles
    BY <1>4, <1>5 DEF Idles, Phase, ClosedAs
<1>6. CASE Queues
    BY <1>3, <1>4, <1>6, PhaseOf, NextPhaseOf DEF Queues, Waiting, ClosedAs, TerminalRun
<1>7. CASE Claims
  <2>1. Contract!TakeRun
    BY <1>3, <1>4, <1>7, PhaseOf, NextPhaseOf
       DEF Claims, Waiting, Active, ClosedAs, TerminalRun, Contract!TakeRun
  <2>2. QED
    BY <2>1 DEF Contract!ContractNext
<1>8. CASE Drops
  <2>1. Contract!DropRun
    BY <1>2, <1>3, <1>8, PhaseOf, NextPhaseOf
       DEF Drops, ClosedAs, TerminalRun, Contract!DropRun
  <2>2. QED
    BY <2>1 DEF Contract!ContractNext
<1>9. CASE Works
  <2>1. Contract!Progress
    BY <1>2, <1>3, <1>9, PhaseOf, NextPhaseOf
       DEF Works, Active, ClosedAs, TerminalRun, Contract!Progress
  <2>2. QED
    BY <2>1 DEF Contract!ContractNext
<1>10. CASE Asks
  <2>1. Concluded' = Concluded
    BY <1>1, <1>3, <1>10 DEF Asks, Concluded, OutcomesKept
  <2>2. Contract!AskToStop
    BY <1>3, <1>10, <2>1, PhaseOf, NextPhaseOf
       DEF Asks, Active, ClosedAs, TerminalRun, Contract!AskToStop
  <2>3. QED
    BY <2>2 DEF Contract!ContractNext
<1>11. CASE Closes
  <2>1. \A c \in Cases : Concluded'[c] = case'[c] /\ case'[c] # "OPEN"
    BY <1>3, <1>11 DEF Closes, Concluded, TerminalNode
  <2>2. ClosedAs' = run' /\ run' \in TerminalRun
    BY <1>11 DEF Closes, ClosedAs, TerminalRun
  <2>3. Contract!Justified(run', {Concluded'[c] : c \in Cases})
    BY <1>11, <2>1 DEF Closes, Contract!Justified
  <2>4. Contract!CloseRun
    BY <1>2, <1>3, <1>11, <2>1, <2>2, <2>3, PhaseOf, NextPhaseOf
       DEF Closes, Active, Contract!CloseRun, TerminalRun, Contract!TerminalRun
  <2>5. QED
    BY <2>4 DEF Contract!ContractNext
<1>12. CASE Repeats
  <2>1. \A c \in Cases : case[c] \in TerminalNode
    BY <1>12 DEF Repeats, TakenInv, TerminalRun
  <2>2. Concluded' = Concluded
    BY <1>1, <1>3, <2>1 DEF Concluded, OutcomesKept
  <2>3. QED
    BY <1>12, <2>2 DEF Repeats, Phase, ClosedAs
<1>13. QED
    BY <1>1, <1>5, <1>6, <1>7, <1>8, <1>9, <1>10, <1>11, <1>12 DEF RunStep

\* The run service implements the contract of a run, for every shape of run,
\* number of dispatching requests and bound on the attempts.
THEOREM ContractKept == Spec => KeepsContract
<1>1. Init => Contract!ContractInit
    BY DEF Init, Contract!ContractInit, Phase, ClosedAs, Concluded, TerminalRun,
           TerminalNode
<1>2. QED
    BY <1>1, ContractStep, TakenInvariant, PTL
       DEF Spec, KeepsContract, Contract!ContractSpec
============================================================================
