---------------------------- MODULE RunDispatch ----------------------------
(***************************************************************************)
(* From CREATED to ASSIGNED: dispatch_run, which commits up to three times *)
(* around the RabbitMQ publish, and claim_run, with which the runner takes *)
(* the message.                                                            *)
(*                                                                         *)
(* The ORM session is created with expire_on_commit=False, and a SELECT    *)
(* ... FOR UPDATE does not overwrite the attributes of an object that the  *)
(* session already holds.  What a dispatching request writes after its     *)
(* first commit is therefore computed from what it last loaded, view, and  *)
(* only columns it changes against that are written.                       *)
(***************************************************************************)
EXTENDS RunRecord

\* _dispatch_runner_issues finds nothing (tags, capabilities and the slot
\* snapshot of a runner that is live are taken to fit).
RunnerReady == runner = "ACTIVE" /\ online

\* Variant: the outbox row is committed before the run is moved to QUEUED.
DispatchCreateWithoutRun(d) ==
    /\ pc[d] = "idle"
    /\ outbox = "NONE"
    /\ run = "CREATED"
    /\ RunnerReady
    /\ outbox' = "PENDING"
    /\ attempts' = 0
    /\ pc' = [pc EXCEPT ![d] = "queued"]
    /\ UNCHANGED <<shape, runVars, nodeVars, claimed, view, executionVars,
                   environmentVars>>

\* dispatch_run up to its first commit: there is no outbox row yet.
DispatchCreate(d) ==
    /\ pc[d] = "idle"
    /\ outbox = "NONE"
    /\ run = "CREATED"
    /\ RunnerReady
    /\ outbox' = "PENDING"
    /\ attempts' = 0
    /\ run' = "QUEUED"
    /\ pc' = [pc EXCEPT ![d] = "queued"]
    /\ UNCHANGED <<shape, started, forceRequested, forceStopped, nodeVars,
                   claimed, view, executionVars, environmentVars>>

\* session.refresh(run) cascades to the outbox row, which is loaded again.
\* The run's status is loaded too and not looked at.
DispatchReload(d) ==
    /\ pc[d] = "queued"
    /\ view' = [view EXCEPT ![d] = [status |-> outbox, attempts |-> attempts]]
    /\ pc' = [pc EXCEPT ![d] = "attempting"]
    /\ UNCHANGED <<shape, runVars, nodeVars, outbox, attempts, claimed,
                   executionVars, environmentVars>>

\* Variant: one attempt too many.
RecordAttemptOneMore(d, loaded) ==
    \/ /\ loaded.attempts > MaxAttempts
       /\ outbox' = IF loaded.status = "FAILED" THEN outbox ELSE "FAILED"
       /\ attempts' = attempts
       /\ pc' = [pc EXCEPT ![d] = "idle"]
    \/ /\ loaded.attempts <= MaxAttempts
       /\ outbox' = IF loaded.status = "PENDING" THEN outbox ELSE "PENDING"
       /\ attempts' = loaded.attempts + 1
       /\ pc' = [pc EXCEPT ![d] = "publishing"]

\* The next attempt is numbered from the loaded row; the status column is
\* written only if it differs from the loaded one.
RecordAttempt(d, loaded) ==
    \/ /\ loaded.attempts >= MaxAttempts
       /\ outbox' = IF loaded.status = "FAILED" THEN outbox ELSE "FAILED"
       /\ attempts' = attempts
       /\ pc' = [pc EXCEPT ![d] = "idle"]
    \/ /\ loaded.attempts < MaxAttempts
       /\ outbox' = IF loaded.status = "PENDING" THEN outbox ELSE "PENDING"
       /\ attempts' = loaded.attempts + 1
       /\ pc' = [pc EXCEPT ![d] = "publishing"]

\* Variant: the second commit writes the run's status once more.
DispatchAttemptRequeues(d) ==
    /\ pc[d] = "attempting"
    /\ RecordAttempt(d, view[d])
    /\ run' = "QUEUED"
    /\ UNCHANGED <<shape, started, forceRequested, forceStopped, nodeVars, claimed,
                   view, executionVars, environmentVars>>

DispatchAttempt(d) ==
    /\ pc[d] = "attempting"
    /\ RecordAttempt(d, view[d])
    /\ UNCHANGED <<shape, runVars, nodeVars, claimed, view, executionVars,
                   environmentVars>>

\* Variant: a retry numbers its attempt from what its session loaded before.
DispatchRetryStale(d) ==
    /\ pc[d] = "idle"
    /\ outbox \in {"PENDING", "FAILED"}
    /\ run \in {"CREATED", "QUEUED"}
    /\ RunnerReady
    /\ RecordAttempt(d, view[d])
    /\ UNCHANGED <<shape, runVars, nodeVars, claimed, view, executionVars,
                   environmentVars>>

\* dispatch_run when the outbox row exists and is not PUBLISHED: a retry,
\* which reads the row and records the attempt under one lock.
DispatchRetry(d) ==
    /\ pc[d] = "idle"
    /\ outbox \in {"PENDING", "FAILED"}
    /\ run \in {"CREATED", "QUEUED"}
    /\ RunnerReady
    /\ RecordAttempt(d, [status |-> outbox, attempts |-> attempts])
    /\ UNCHANGED <<shape, runVars, nodeVars, claimed, view, executionVars,
                   environmentVars>>

\* The publish and _record_publish_result.  The guard against overwriting
\* PUBLISHED reads the session's own object, which the attempt left PENDING.
RecordPublishResult(d, published) ==
    /\ pc[d] = "publishing"
    /\ outbox' = IF published THEN "PUBLISHED" ELSE "FAILED"
    /\ pc' = [pc EXCEPT ![d] = "idle"]
    /\ UNCHANGED <<shape, runVars, nodeVars, attempts, claimed, view,
                   executionVars, environmentVars>>

\* The request dies between two commits: the process stops, or the publisher
\* or the database raises.
DispatchCrash(d) ==
    /\ pc[d] # "idle"
    /\ pc' = [pc EXCEPT ![d] = "idle"]
    /\ UNCHANGED <<shape, runVars, nodeVars, outbox, attempts, claimed, view,
                   executionVars, environmentVars>>

(***************************************************************************)
(* claim_run.  An outbox row that is still PENDING answers 503 and one     *)
(* that is FAILED answers 409; both leave the state alone, as does a claim *)
(* that was already made.                                                  *)
(***************************************************************************)
ClaimRun ==
    /\ RunnerAuthenticated
    /\ run = "QUEUED"
    /\ outbox = "PUBLISHED"
    /\ ~claimed
    /\ claimed' = TRUE
    /\ run' = "ASSIGNED"
    /\ UNCHANGED <<shape, started, forceRequested, forceStopped, nodeVars,
                   outbox, attempts, pc, view, executionVars, environmentVars>>

\* claim_run of a run that is being cancelled: a restarted runner gets the
\* message again and the run is closed (_finalize_cancelling_run_on_claim).
ClaimCancellingRun ==
    /\ RunnerAuthenticated
    /\ run = "CANCELLING"
    /\ outbox = "PUBLISHED"
    /\ claimed' = TRUE
    /\ CloseNodes("CANCELLED")
    /\ MatchesChildren(run, "CANCELLED", CaseStatuses(ClosedCases("CANCELLED")))
    /\ run' = "CANCELLED"
    /\ forceStopped' = (forceStopped \/ forceRequested)
    /\ UNCHANGED <<shape, started, forceRequested, outbox, attempts, pc, view,
                   executionVars, environmentVars>>

DispatchNext ==
    \/ \E d \in Dispatchers :
         \/ DispatchCreate(d) \/ DispatchReload(d) \/ DispatchAttempt(d)
         \/ DispatchRetry(d) \/ DispatchCrash(d)
         \/ \E published \in BOOLEAN : RecordPublishResult(d, published)
    \/ ClaimRun
    \/ ClaimCancellingRun
============================================================================
