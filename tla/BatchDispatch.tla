--------------------------- MODULE BatchDispatch ---------------------------
(***************************************************************************)
(* dispatch_runs_batch, seen from the last run of a batch of several.  The *)
(* preflight reads every run of the batch in one transaction; the first    *)
(* run's dispatch commits, which gives up the locks of all the others.     *)
(* The loop variable keeps the last run's object in the session, and the   *)
(* later SELECT ... FOR UPDATE does not overwrite its attributes: the run  *)
(* is dispatched on the status that the preflight saw.  Its outbox row was *)
(* not loaded before and is read afresh.                                   *)
(***************************************************************************)
EXTENDS RunLifecycle

CONSTANT Batch  \* the one of Dispatchers that is a batch

VARIABLE batch  \* "new", "preflighted" (the session holds a CREATED run), "done"

batchVars == <<vars, batch>>

BatchInit == Init /\ batch = "new"

BatchPreflight ==
    /\ batch = "new"
    /\ run = "CREATED"
    /\ RunnerReady
    /\ batch' = "preflighted"
    /\ UNCHANGED vars

\* dispatch_run with runner_prevalidated and the run the session holds: its
\* status is CREATED there, and QUEUED is written over whatever the row has.
BatchCreate ==
    /\ batch = "preflighted" /\ pc[Batch] = "idle"
    /\ outbox = "NONE"
    /\ outbox' = "PENDING"
    /\ attempts' = 0
    /\ run' = "QUEUED"
    /\ pc' = [pc EXCEPT ![Batch] = "queued"]
    /\ batch' = "done"
    /\ UNCHANGED <<shape, started, forceRequested, forceStopped, nodeVars,
                   claimed, view, executionVars, environmentVars>>

BatchRetry ==
    /\ batch = "preflighted" /\ pc[Batch] = "idle"
    /\ outbox \in {"PENDING", "FAILED"}
    /\ RecordAttempt(Batch, [status |-> outbox, attempts |-> attempts])
    /\ batch' = "done"
    /\ UNCHANGED <<shape, runVars, nodeVars, claimed, view, executionVars,
                   environmentVars>>

\* The message is already published, or the request dies before this run.
BatchSkip ==
    /\ batch = "preflighted"
    /\ batch' = "done"
    /\ UNCHANGED vars

BatchNext ==
    \/ BatchPreflight
    \/ BatchCreate
    \/ BatchRetry
    \/ BatchSkip
    \/ Next /\ UNCHANGED batch

BatchSpec == BatchInit /\ [][BatchNext]_batchVars /\ Fairness
============================================================================
