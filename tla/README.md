# A TLA+ model of the test orchestration platform

This directory specifies the part of the platform on which every test result
depends: the life of a **run**, from its creation through dispatch, claim,
execution, cancellation and reconciliation to its verdict, and the detection of
runners that have gone. TLC checks the specifications on small instances; TLAPS
proves the most important facts for all of them.

`PROJECT.json` is the machine-readable index: components, runs, the source lines
behind every definition, hazards, findings, theorems.

## 1. The system and its parts

| Part | Where | What it does | Here |
|---|---|---|---|
| run state machine | `backend/app/modules/runs/{enums,service}.py` | transition tables, aggregation of steps into cases and cases into runs | `RunStates`, `RunContract` |
| run records | `runs/{models,service}.py` | rows of runs, cases, steps, outbox, results, evaluations | `RunRecord`, `RunLifecycle` |
| dispatch and claim | `runs/service.py` | outbox, RabbitMQ publish, retries, batch, claim by a runner | `RunDispatch`, `DispatchAttempts`, `BatchDispatch` |
| control and reconciliation | `runs/service.py`, `runs/disconnect_coordinator.py` | cancel, force stop, status routes, overdue and disconnected runs | `RunControl` |
| execution reports | `runs/service.py` | start, AI evaluation, completion for API cases, Web cases, scenarios | `RunExecution` |
| heartbeats | `runners/service.py`, `infrastructure/redis/client.py` | MySQL and Redis heartbeat, revocation, online state | `RunnerPresence` |
| registration | `runners/service.py` | tokens, credentials | planned |
| the runner | `runner/runner/` | delivery loop, retries, timeouts, slots, isolation, executors, scenario interpreter | planned |
| performance runs, Web explorations, recordings | `performance`, `web_design`, `web_recordings` | task state machines of their own | planned |
| schedules, CI/CD, test plans | `schedules`, `ci_cd`, `test_plans` | create and dispatch runs | planned |
| AI gateway, model center, resource registry | same names | fallback and budgets, leases | planned in part |
| authoring (test cases, scenarios, data sets, requirements, prompts), auth, reports, dashboard, frontend, demo, deploy | | documents, read models, user interface, scripts | not modelled |

How the parts meet. A user creates a run and dispatches it: the backend commits
an outbox row, publishes a message to RabbitMQ and records the outcome. The
runner bound to the run receives the message, claims the run over HTTP, starts
each case, may ask for AI assertions to be evaluated, and completes it. Users may
cancel or force-stop at any time. A coordinator thread closes runs whose deadline
has passed or whose runner Redis and MySQL both report as gone. All of these
handlers take the run's row with `SELECT ... FOR UPDATE` first.

## 2. Modules

    RunStates ── RunRecord ─┬─ RunDispatch ──┐
        │                   ├─ RunControl ───┼─ RunLifecycle ─┬─ MCRunLifecycle
        │                   └─ RunExecution ─┘       │        ├─ DispatchAttempts ─ MCDispatchAttempts
        │                                            │        ├─ BatchDispatch ─ MCBatchDispatch
        └── RunContract ─────────(refined by)────────┘        └─ RunLifecycle_proofs ─ RunContract_proofs
    RunnerPresence

**RunStates** has no state: the enumerations, `_RUN_TRANSITIONS`,
`_NODE_TRANSITIONS`, `_aggregate_case_status`, the verdict of the iterations, and
`_ensure_terminal_run_matches_children`, as operators on statuses and sets of
statuses (the code never looks at more than which statuses occur).

**RunRecord** declares the variables: one run with its cases, steps, counters,
outbox row, evaluations and results, and what surrounds it (runner, heartbeat,
deadline). `Init` is the state `create_run` commits. `shape` fixes the run's type,
its cases (iterations of a data set), steps and AI assertions.

**RunDispatch** models `dispatch_run` as the separate transactions it is:

| Code | Action |
|---|---|
| insert outbox, `QUEUED`, commit | `DispatchCreate` |
| `session.refresh(run)`, which reloads the outbox too | `DispatchReload` |
| number the attempt or give up, commit | `DispatchAttempt` |
| the same on an existing row, in one transaction | `DispatchRetry` |
| publish, `_record_publish_result` | `RecordPublishResult` |
| the request dies in between | `DispatchCrash` |

The session is created with `expire_on_commit=False`, and a locking `SELECT` does
not refresh objects the session already holds. So `view` keeps what a request last
loaded, and only columns that differ from it are written. `ClaimRun` and
`ClaimCancellingRun` are `claim_run`.

**RunControl** has `cancel_run`, `force_stop_run`, `update_run_status`,
`update_step_run_status` and the two reconciliations, and the environment's steps.

**RunExecution** has start, evaluation and completion for the three run types.
Evaluation is two actions because `evaluate_*_execution` commits a reservation,
which gives up the lock, before it asks the model. A completion is one action:
effective outcome, evaluation token, closing loops, counters, consistency check,
run status, result row. The contents of requests and traces are reduced to the
status each step is reported with; TLC tries every combination.

**RunLifecycle** composes the three and states the properties. **RunContract** is
the abstract specification: what a reader of a run may rely on (`waiting`,
`active`, `stopping`, `closed`; a verdict given once; outcomes only added). The
refinement mapping is in `RunLifecycle` (`Phase`, `ClosedAs`, `Concluded`).

**DispatchAttempts** adds a history variable to `RunLifecycle`: `sends` counts the
publishes begun under each attempt number. The column `attempt_count` cannot serve
for that, since a request that works on a stale copy puts it back.

**BatchDispatch** adds `dispatch_runs_batch` as the last run of a batch sees it.

**RunnerPresence** models one runner and the runs it has claimed: the heartbeat's
MySQL commit and Redis write, expiry, outages, revocation, the reconciliation's two
looks and its one commit for all the runner's runs. Of a run it keeps only what
decides that commit (`work`): `assigned`, `running`, `jammed` (it is `RUNNING`, but a
node is `CANCELLING` or all cases have ended without a failure, so it cannot be made
`FAILED`), `stopping` (`CANCELLING`), `dropped` (`CANCELLING` and never started) or
`closed`. A jammed run makes `ReconcileCommit` roll back, and the scan meets it
again each time until its runner, a user or the overdue closing changes it. Time is counted in ticks, as an age and a remaining time to live, so
nothing grows. `RunLifecycle` uses its result in the weakest form: `online` may
change at any moment.

An exception that rolls a request back is a guard that does not hold. Repeated
requests that the code answers from stored state change nothing and are left out.
Two routes are left out because they cannot change state: `update_case_run_status`
refuses every case with steps, and every case has one; the
`TASK_ENVELOPE_INVALID` branches of `dispatch_run` need an outbox row that
contradicts its run, and only `dispatch_run` writes that row. `claim_run` stores a
total timeout where there was none, so every started run has a deadline.

Definitions introduced by a comment starting with *Variant* are deliberate
mistakes. No specification uses them; putting one in the place of its neighbour
must break the property `PROJECT.json` names, which shows that the property
depends on the code.

## 3. What is checked

| Run | Instance | Checks |
|---|---|---|
| `runs_executed` | API case with two iterations, Web case and scenario with an AI assertion; one dispatching request, one attempt | eight invariants, `RecordedOutcomesFinal`, refinement of `RunContract` |
| `runs_dispatched` | API case; two dispatching requests, two attempts | `QueuedRunHasOutbox`, `AttemptUsedAtMostTwice`, `TerminalRunFinal`, `StartedRunEnds` |
| `presence` | two runs of one runner; TTL 3, interval 2, two outages | `TypeOK`, `PunctualRunnerKeepsRuns`, `DeadRunnerRunsEnd` |
| `dispatch_repeated` | as `runs_dispatched` | fails: `ClaimedMessageStaysPublished` |
| `cancel_iterated` | API case with two iterations | fails: `LateCompletionIsAccepted` |
| `dispatch_batch` | API case, one request and one batch | fails: `TerminalRunFinal` |
| `presence_inflight` | two runs of one runner; TTL 2, interval 1, no outage | fails: `InflightHeartbeatProtects` |

What the passing runs show:

- `VerdictMatchesCases`: whoever closes a run, its verdict agrees with its cases.
  The overdue closing does not consult the consistency check, and a run can become
  `TIMEOUT` by it although every case had finished. The property allows exactly
  that.
- `RecordedOutcomesFinal`, `TerminalRunFinal`: late, repeated or racing reports
  never rewrite what was recorded.
- `ClosedCaseHasClosedSteps`, `SummaryMatchesCases`, `ResultMatchesCase`: the rows
  of a run agree with each other at every commit.
- `AiSuccessWasEvaluated`: however evaluation, cancel and completion interleave, a
  completion of a Web case or scenario with AI assertions is stored as `SUCCESS`
  only on a stored `PASS`. It speaks of stored results: the status routes
  (`update_step_run_status`, `update_run_status`) store none, and can bring such a
  case and its run to `SUCCESS` without an evaluation.
- `NothingRunsUnclaimed`, `ForceStoppedIsCancelled`, `QueuedRunHasOutbox`: order
  of dispatch, claim, execution and stop.
- `AttemptUsedAtMostTwice`: the request that created the outbox row numbers its
  attempt from a stale copy and can put the count back behind attempts that others
  recorded. It is the only one, and does so once, so each attempt number is used at
  most twice. The bound is met: with two attempts, four publishes happen.
- `StartedRunEnds`: a started run ends even if nobody reports again.
- `PunctualRunnerKeepsRuns`: lost keys and Redis outages never cost a punctual
  runner its runs.
- `DeadRunnerRunsEnd`: the runs of a dead runner end, although a jammed run blocks
  the closing of the others. The overdue closing removes the jammed one, which has
  started and so has a deadline; then a sibling still `ASSIGNED`, which has none,
  is failed by the next scan. Excepted are runs that never started and are being
  cancelled, or whose runner was revoked.

Bounds. Two iterations are enough for one to be finished, running or untouched
while another is completed or cancelled; two steps, one of them an AI assertion,
for every aggregation that mixes two statuses. Two requests and two attempts let
one request overtake the other at every commit and reach the attempt limit
(`_DISPATCH_MAX_ATTEMPTS` in the code is the constant `MaxAttempts`). The
heartbeat interval is below the TTL, as in the defaults (30 s and 90 s). `MaxOutages` bounds how
often Redis fails. Two runs of a runner are enough for one to block the other. None of the runs is symmetric: iterations and requests are few,
and liveness is checked.

Fairness. `RunLifecycle` assumes only that time passes (`DeadlinePasses`) and that
the coordinator reaches an overdue run (`ReconcileOverdueRun`): `run_forever` scans
in every interval, catches what a scan raises, and the closing of an overdue run
has no condition that another process could withdraw for ever. Nothing is assumed
of users, runners, RabbitMQ or the dispatching requests. `RunnerPresence` assumes
that time passes, Redis comes back, and the coordinator's steps happen. Its overdue
closing is assumed strongly fair: `scan_once` closes overdue runs in every round
before it looks at runners, and isolates what one run raises; the row it needs may
be locked by a reconciliation over and over, but each lock is given up, and a
request that waits for a row gets it.

## 4. Where code and documents differ

- `dispatch_batch`: a run cancelled between the batch's preflight and its own
  dispatch is put back to `QUEUED`. The product specification says that terminal
  states are not reverted.
- `dispatch_repeated`: the first of two dispatching requests is delayed after its
  first commit; the second publishes the message and the runner claims it; then the
  first writes `PENDING` or `FAILED` over `PUBLISHED`, and the runner's reports are
  refused from then on. The specification says
  that repeated dispatch is idempotent.
- `cancel_iterated`: after an iteration that failed, the completion that arrives
  for a cancelled run is refused; the run stays `CANCELLING` until it is overdue.
  The development plan says that it is recorded as `CANCELLED`.
- `presence_inflight`: the second look of the disconnect reconciliation compares
  the heartbeat time that the first look loaded. The docstring of
  `_disconnect_gate_blocks` says that an in-flight heartbeat cannot misfire.

## 5. What is proved

For every set of shapes, every set of dispatching requests and every
`MaxAttempts`, from `ShapesAssumption` and `MaxAttemptsAssumption`:

| Theorem | Statement | Argument |
|---|---|---|
| `TypeCorrect` | `Spec => []TypeOK` | `TypeInv` strengthens it: while a request is past its first commit (`pc = "queued"`) the outbox row exists, so what `DispatchReload` loads is a status of that row |
| `OutcomesFinal` | `Spec => RecordedOutcomesFinal` | no transition leaves a finished status (`FinishedNodeFixed`), the closing loops skip finished nodes, each handler writes results and verdicts only where there is none |
| `FinishedRunFinal` | `Spec => TerminalRunFinal` | every step is classified by what it does to the run and its cases (`RunStep`); no class leaves a terminal run |
| `ContractKept` | `Spec => KeepsContract` | `TakenInv`: a waiting run is not claimed, and a closed run that was claimed has no open case, so a late report finds nothing to change; each class of `RunStep` is then a step of `RunContract` or a stutter |

`RunLifecycle_proofs` has the first two, `RunContract_proofs` the others. In each,
one lemma per group of actions (dispatch, control, completion, execution) feeds
one temporal step. Fairness plays no part in these theorems. They are about `Spec`
of `RunLifecycle`, which leaves out `dispatch_runs_batch`: with it
`TerminalRunFinal` and the contract fail (`dispatch_batch`).

Only model-checked: `StartedRunEnds` and `DeadRunnerRunsEnd`, since liveness and
`ENABLED` are out of the prover's reach, and the other invariants, whose proofs are
planned.

## 6. Not modelled

- Authorization, validation of requests, the content of snapshots, requests,
  responses and evidence; a validation failure changes no state.
- Run events (Redis stream): sent after the commit, best effort, read by nobody
  who decides.
- The slots and capabilities a dispatch compares: `RunnerReady` is live or not.
- Several runs of one runner in full detail: `RunLifecycle` follows one run, and
  `RunnerPresence` several with only what their common closing depends on. The
  moment of a run's deadline is left open there, and no run is claimed later.
- A cancelled run that never started, and a run assigned to a revoked runner, have
  no deadline. The documents name the first as a known limit; `StartedRunEnds`
  therefore speaks of started runs.
- Everything marked *planned* above.

## 7. Plan

1. The runner: `RunnerDelivery` (claim, execute, retry, total timeout, polling for
   cancellation, ack or reject) composed with the server's side; slots and the
   heartbeat thread; the scenario interpreter's skips, retries and cleanup.
2. Task state machines beside runs: performance runs, Web explorations with their
   stale closing, recordings.
3. Triggers: schedules with several coordinators, CI/CD triggers with idempotency
   keys, test plans; registration tokens; resource leases.
4. Proofs: `SummaryMatchesCases`, `ClosedCaseHasClosedSteps`,
   `VerdictMatchesCases`, `NothingRunsUnclaimed`, `QueuedRunHasOutbox` for
   `RunLifecycle`; `PunctualRunnerKeepsRuns` for `RunnerPresence`, for every TTL
   and interval.
