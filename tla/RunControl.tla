----------------------------- MODULE RunControl -----------------------------
(***************************************************************************)
(* The ways to end or steer a run other than executing it: the users'      *)
(* cancel and force stop, the status routes, and the two reconciliations   *)
(* of the disconnect coordinator.                                          *)
(***************************************************************************)
EXTENDS RunRecord

\* cancel_run before a runner has the task.
CancelWaitingRun ==
    /\ run \in {"CREATED", "QUEUED"}
    /\ CloseNodes("CANCELLED")
    /\ run' = "CANCELLED"
    /\ UNCHANGED <<shape, started, forceRequested, forceStopped, dispatchVars,
                   executionVars, environmentVars>>

Cancelling(status) == IF status = "RUNNING" THEN "CANCELLING" ELSE status

\* cancel_run once a runner has the task: what is running is asked to stop.
CancelActiveRun ==
    /\ run \in {"ASSIGNED", "RUNNING"}
    /\ WriteNodes([c \in Cases |-> Cancelling(case[c])],
                  [c \in Cases |-> [s \in Steps |-> Cancelling(step[c][s])]])
    /\ run' = "CANCELLING"
    /\ UNCHANGED <<shape, started, forceRequested, forceStopped, dispatchVars,
                   executionVars, environmentVars>>

\* Variant: the request already counts as the stop.
ForceStopRunAtOnce ==
    \/ CancelWaitingRun
    \/ /\ run \in {"ASSIGNED", "RUNNING", "CANCELLING"}
       /\ run' = "CANCELLING"
       /\ forceRequested' = TRUE
       /\ forceStopped' = TRUE
       /\ UNCHANGED <<shape, started, nodeVars, dispatchVars, executionVars,
                      environmentVars>>

\* force_stop_run.  A waiting run is cancelled as above and no request is
\* recorded; once a runner has the task the nodes are left alone.
ForceStopRun ==
    \/ CancelWaitingRun
    \/ /\ run \in {"ASSIGNED", "RUNNING", "CANCELLING"}
       /\ run' = "CANCELLING"
       /\ forceRequested' = TRUE
       /\ UNCHANGED <<shape, started, forceStopped, nodeVars, dispatchVars,
                      executionVars, environmentVars>>

(***************************************************************************)
(* update_run_status.  A user may only cancel what was never dispatched,   *)
(* and this route leaves the nodes alone.  A runner may report the         *)
(* transitions of _authorize_runner_run_transition.                        *)
(***************************************************************************)
UserCancelsCreated ==
    /\ run = "CREATED"
    /\ run' = "CANCELLED"
    /\ UNCHANGED <<shape, started, forceRequested, forceStopped, nodeVars,
                   dispatchVars, executionVars, environmentVars>>

\* Variant: a runner may start what it has not claimed.
RunnerMayReportEarly(current) ==
    CASE current \in {"QUEUED", "ASSIGNED"} -> {"RUNNING"}
      [] current = "RUNNING"    -> {"SUCCESS", "FAILED", "TIMEOUT"}
      [] current = "CANCELLING" -> {"CANCELLED"}
      [] OTHER                  -> {}

RunnerMayReport(current) ==
    CASE current = "ASSIGNED"   -> {"RUNNING"}
      [] current = "RUNNING"    -> {"SUCCESS", "FAILED", "TIMEOUT"}
      [] current = "CANCELLING" -> {"CANCELLED"}
      [] OTHER                  -> {}

RunnerReportsRun(requested) ==
    /\ RunnerAuthenticated
    /\ requested \in RunnerMayReport(run)
    /\ MatchesChildren(run, requested, CaseStatuses(case))
    /\ run' = requested
    /\ started' = (started \/ requested = "RUNNING")
    /\ UNCHANGED <<shape, forceRequested, forceStopped, nodeVars, dispatchVars,
                   executionVars, environmentVars>>

(***************************************************************************)
(* update_step_run_status: the case follows by aggregation.  (The route of *)
(* a case, update_case_run_status, refuses every change of a case that has *)
(* steps, and every case has.)                                             *)
(***************************************************************************)
RunnerReportsStep(c, s, requested) ==
    LET steps == [step EXCEPT ![c][s] = requested]
    IN  /\ RunnerAuthenticated
        /\ run \in {"RUNNING", "CANCELLING"}
        /\ case[c] \notin TerminalNode
        /\ step[c][s] # requested
        /\ CanSetNode(step[c][s], requested)
        /\ WriteNodes([case EXCEPT ![c] =
                          AggregateCase(case[c], StepStatuses(steps, c))], steps)
        /\ UNCHANGED <<shape, runVars, dispatchVars, executionVars,
                       environmentVars>>

(***************************************************************************)
(* reconcile_disconnected_runner_runs_core, for this run.  The gate: the   *)
(* runner is not revoked and Redis positively reports it offline.  A node  *)
(* in CANCELLING makes _set_node_status raise.                             *)
(***************************************************************************)
ReconcileDisconnectedRun ==
    /\ runner = "ACTIVE"
    /\ ~online
    /\ run \in {"ASSIGNED", "RUNNING"}
    /\ CloseNodes("FAILED")
    /\ MatchesChildren(run, "FAILED", CaseStatuses(ClosedCases("FAILED")))
    /\ run' = "FAILED"
    /\ UNCHANGED <<shape, started, forceRequested, forceStopped, dispatchVars,
                   executionVars, environmentVars>>

(***************************************************************************)
(* reconcile_overdue_run_core.                                             *)
(***************************************************************************)
TimedOut(status) ==
    CloseNode(status, IF status = "CANCELLING" THEN "CANCELLED" ELSE "TIMEOUT")

\* Variant: an overdue run that is being cancelled is left to its runner.
ReconcileOverdueRunningOnly ==
    /\ overdue
    /\ run = "RUNNING"
    /\ WriteNodes([c \in Cases |-> TimedOut(case[c])],
                  [c \in Cases |-> [s \in Steps |-> TimedOut(step[c][s])]])
    /\ run' = "TIMEOUT"
    /\ UNCHANGED <<shape, started, forceRequested, forceStopped, dispatchVars,
                   executionVars, environmentVars>>

ReconcileOverdueRun ==
    /\ overdue
    /\ \/ /\ run = "RUNNING"
          /\ WriteNodes([c \in Cases |-> TimedOut(case[c])],
                        [c \in Cases |-> [s \in Steps |-> TimedOut(step[c][s])]])
          /\ run' = "TIMEOUT"
       \/ /\ run = "CANCELLING"
          /\ CloseNodes("CANCELLED")
          /\ run' = "CANCELLED"
    /\ UNCHANGED <<shape, started, forceRequested, forceStopped, dispatchVars,
                   executionVars, environmentVars>>

(***************************************************************************)
(* What happens around the run: its deadline passes, the runner's          *)
(* heartbeat key expires or is written again, an administrator revokes the *)
(* runner.                                                                 *)
(***************************************************************************)
DeadlinePasses ==
    /\ started
    /\ ~overdue
    /\ overdue' = TRUE
    /\ UNCHANGED <<shape, runVars, nodeVars, dispatchVars, executionVars, runner,
                   online>>

HeartbeatChanges ==
    /\ online' = ~online
    /\ UNCHANGED <<shape, runVars, nodeVars, dispatchVars, executionVars, overdue,
                   runner>>

RevokeRunner ==
    /\ runner = "ACTIVE"
    /\ runner' = "REVOKED"
    /\ online' = FALSE
    /\ UNCHANGED <<shape, runVars, nodeVars, dispatchVars, executionVars, overdue>>

ControlNext ==
    \/ CancelWaitingRun
    \/ CancelActiveRun
    \/ ForceStopRun
    \/ UserCancelsCreated
    \/ \E requested \in RunStatus : RunnerReportsRun(requested)
    \/ \E c \in Cases, s \in Steps, requested \in RunNodeStatus :
         RunnerReportsStep(c, s, requested)
    \/ ReconcileDisconnectedRun
    \/ ReconcileOverdueRun
    \/ DeadlinePasses
    \/ HeartbeatChanges
    \/ RevokeRunner
============================================================================
