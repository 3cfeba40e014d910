---------------------------- MODULE RunLifecycle ----------------------------
(***************************************************************************)
(* The life of one test run: dispatching requests, the runner that claims  *)
(* and executes it, users who cancel it and the coordinator that closes    *)
(* what was abandoned, interleaved in every order the run's row lock       *)
(* allows.                                                                 *)
(***************************************************************************)
EXTENDS RunDispatch, RunControl, RunExecution

Next == DispatchNext \/ ControlNext \/ ExecutionNext

(***************************************************************************)
(* Time passes, and the coordinator's scan comes round to every overdue    *)
(* run.  Nothing is assumed of users, runners and dispatching requests.    *)
(***************************************************************************)
Fairness == WF_vars(DeadlinePasses) /\ WF_vars(ReconcileOverdueRun)

Spec == Init /\ [][Next]_vars /\ Fairness

-----------------------------------------------------------------------------
\* A finished run keeps its status: a late report, a repeated dispatch, a
\* cancel or a reconciliation that lost the race for the row lock does not
\* reopen or rewrite it (_RUN_TRANSITIONS and the guards of every handler).
TerminalRunFinal == [][(run \in TerminalRun) => run' = run]_vars

\* What was recorded of a finished step, a finished case or a completed
\* execution is not rewritten by any later handler (the closing loops and
\* reconcile_overdue_run_core skip finished nodes).
RecordedOutcomesFinal ==
    [][\A c \in Cases :
         /\ case[c] \in TerminalNode => case'[c] = case[c]
         /\ \A s \in Steps : step[c][s] \in TerminalNode => step'[c][s] = step[c][s]
         /\ result[c] # "NONE" => result'[c] = result[c]
         /\ evaluation[c] \in Verdict => evaluation'[c] = evaluation[c]]_vars

\* The verdict of a run agrees with its cases whichever handler closed it: the
\* completion handlers and update_run_status ask
\* _ensure_terminal_run_matches_children, the disconnect closing too, and
\* reconcile_overdue_run_core is the one that does not ask.
VerdictMatchesCases ==
    /\ run = "SUCCESS" => \A c \in Cases : case[c] = "SUCCESS"
    /\ run = "FAILED"  => \E c \in Cases : case[c] \in {"FAILED", "REVIEW"}
    /\ run = "TIMEOUT" => overdue \/ \E c \in Cases : case[c] = "TIMEOUT"
    /\ run = "CANCELLED" /\ claimed => overdue \/ \E c \in Cases : case[c] = "CANCELLED"
    /\ run \in TerminalRun /\ claimed => \A c \in Cases : case[c] \in TerminalNode

\* No handler closes a case and leaves one of its steps open.
ClosedCaseHasClosedSteps ==
    \A c \in Cases : case[c] \in TerminalNode =>
                       \A s \in Steps : step[c][s] \in TerminalNode

\* The counters shown for a run are the counts of its cases' statuses at every
\* commit, start_*_execution included, which does not recount.
SummaryMatchesCases == summary = Recount(case)

\* A stored execution result agrees with the status of its case, and for a Web
\* case or scenario, which has one case, with the status of the run.
ResultMatchesCase ==
    \A c \in Cases :
      result[c] # "NONE" =>
        /\ case[c] \in TerminalNode
        /\ result[c] \in {"SUCCESS", "TIMEOUT", "CANCELLED"} => case[c] = result[c]
        /\ result[c] \in {"FAILED", "REVIEW"} => case[c] \in {"FAILED", "REVIEW"}
        /\ shape.type # "API_CASE" => run = result[c]

\* A Web case or scenario with AI assertions is completed with SUCCESS only
\* after its evaluation was stored as PASS, however the evaluation, cancels and
\* completions interleave.
AiSuccessWasEvaluated ==
    \A c \in Cases : /\ shape.type # "API_CASE" /\ shape.ai # {}
                     /\ result[c] = "SUCCESS"
                     => evaluation[c] = "PASS"

\* dispatch_run moves the run to QUEUED and creates its outbox row in one
\* transaction, so neither is ever seen without the other.
QueuedRunHasOutbox ==
    /\ run = "CREATED" => outbox = "NONE"
    /\ outbox = "NONE" => run \in {"CREATED", "CANCELLED"}

\* Nothing of a run executes before a runner has claimed its message.
NothingRunsUnclaimed ==
    \/ claimed
    \/ /\ run \in {"CREATED", "QUEUED", "CANCELLED"}
       /\ ~started
       /\ \A c \in Cases : /\ case[c] \in {"CREATED", "CANCELLED"}
                           /\ evaluation[c] = "NONE" /\ result[c] = "NONE"

\* A run is marked as stopped by force only when it has ended by cancellation.
ForceStoppedIsCancelled == forceStopped => run = "CANCELLED"

\* A run that has started ends, even if its runner dies, is revoked or never
\* answers a cancel: the coordinator closes it after its deadline.
StartedRunEnds == started ~> run \in TerminalRun

-----------------------------------------------------------------------------
(***************************************************************************)
(* The run as its readers see it (RunContract).                            *)
(***************************************************************************)
Phase == CASE run \in {"CREATED", "QUEUED"}   -> "waiting"
           [] run \in {"ASSIGNED", "RUNNING"} -> "active"
           [] run = "CANCELLING"              -> "stopping"
           [] run \in TerminalRun             -> "closed"

ClosedAs == IF run \in TerminalRun THEN run ELSE "OPEN"

Concluded ==
    [c \in Cases |-> IF case[c] \in TerminalNode THEN case[c] ELSE "OPEN"]

Contract == INSTANCE RunContract
            WITH phase <- Phase, verdict <- ClosedAs, outcome <- Concluded

\* Through all its handlers, retries and reconciliations the service keeps the
\* contract: a run is closed once, only as CANCELLED when it was asked to stop,
\* with every case of a taken run finished, and with a verdict its cases bear
\* out.
KeepsContract == Contract!ContractSpec

-----------------------------------------------------------------------------
\* A message that a runner has claimed stays PUBLISHED while the run is
\* executing, so that a repeated dispatch leaves the runner's reports
\* acceptable to _execution_context.
ClaimedMessageStaysPublished ==
    claimed /\ run \in {"ASSIGNED", "RUNNING"} => outbox = "PUBLISHED"

\* When a cancel is committed first, the ordinary completion that arrives later
\* for the iteration that was running is accepted and recorded as CANCELLED
\* (here: whenever every finished iteration was completed by its own report).
LateCompletionIsAccepted ==
    \A c \in Cases :
      /\ shape.type = "API_CASE" /\ run = "CANCELLING" /\ ExecutionContext
      /\ case[c] = "CANCELLING" /\ result[c] = "NONE"
      /\ \A x \in Cases : case[x] \in TerminalNode => result[x] # "NONE"
      => ENABLED CompleteApiExecution(c, "HTTP_RESPONSE", "PASS", FALSE, FALSE)
============================================================================
