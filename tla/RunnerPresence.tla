--------------------------- MODULE RunnerPresence ---------------------------
(***************************************************************************)
(* Is the runner there?  A heartbeat is committed to MySQL and then        *)
(* written to Redis under a key that expires; the coordinator fails the    *)
(* active runs of a runner when Redis reports the key gone and MySQL's     *)
(* heartbeat is older than the same TTL.  An administrator's request asks  *)
(* Redis only.  The model follows one runner and the runs it has claimed,  *)
(* which one transaction fails together, and counts time in ticks since    *)
(* the last heartbeat and until the key expires.                           *)
(***************************************************************************)
EXTENDS Naturals

CONSTANTS
    Runs,        \* the runs the runner has claimed
    Ttl,         \* runner_heartbeat_ttl_seconds, in ticks
    Interval,    \* a punctual runner sends a heartbeat this often
    MaxOutages   \* bound: how often Redis fails or loses the key

ASSUME PresenceAssumption ==
    /\ Ttl \in Nat \ {0}
    /\ Interval \in Nat \ {0}
    /\ Interval < Ttl
    /\ MaxOutages \in Nat

VARIABLES
    mode,       \* the runner is "punctual", "late" now and then, or "dead"
    status,     \* Runner.status
    age,        \* ticks since Runner.last_heartbeat_at; Ttl stands for more
    inflight,   \* a heartbeat request committed and has not written Redis
    deleting,   \* revoke_runner committed and has not deleted the key
    keyLeft,    \* ticks until the Redis key expires, 0 if there is none
    redisUp,    \* Redis answers
    outages,    \* how often Redis failed or lost the key
    reconcile,  \* where the reconciliation is: "idle", "gated", "confirmed"
    seen,       \* what it loaded of the runner, and for whom it works
    work        \* how far each of the runner's runs is, see WorkState

beatVars == <<status, age, inflight, deleting>>
redisVars == <<keyLeft, redisUp, outages>>
reconcileVars == <<reconcile, seen, work>>
vars == <<mode, beatVars, redisVars, reconcileVars>>

(***************************************************************************)
(* A run is ASSIGNED, RUNNING or CANCELLING, or it is closed.  A RUNNING   *)
(* run is jammed when its nodes do not let it be FAILED: one of them is    *)
(* CANCELLING, which _NODE_TRANSITIONS leaves only for CANCELLED, or every *)
(* case has ended and none is FAILED or REVIEW.  A CANCELLING run that was *)
(* never started is dropped: it has no deadline.                           *)
(***************************************************************************)
WorkState == {"assigned", "running", "jammed", "stopping", "dropped", "closed"}

\* _DISCONNECT_RUN_STATUSES
ActiveRuns == {r \in Runs : work[r] \in {"assigned", "running", "jammed"}}

\* The runner has just sent a heartbeat: it was online when it was given work.
Init ==
    /\ mode \in {"punctual", "late"}
    /\ status = "ACTIVE"
    /\ age = 0
    /\ inflight = FALSE
    /\ deleting = FALSE
    /\ keyLeft = Ttl
    /\ redisUp = TRUE
    /\ outages = 0
    /\ reconcile = "idle"
    /\ seen = [status |-> "ACTIVE", age |-> 0, auto |-> TRUE]
    /\ work = [r \in Runs |-> "assigned"]

\* The reconciliation holds the runner's row lock from its second look on.
RowFree == reconcile # "confirmed"

(***************************************************************************)
(* heartbeat_runner: commit, then Redis.  If Redis is down the request     *)
(* fails after the commit.                                                 *)
(***************************************************************************)
HeartbeatRunner ==
    /\ mode # "dead"
    /\ status = "ACTIVE"
    /\ RowFree
    /\ ~inflight
    /\ age' = 0
    /\ inflight' = TRUE
    /\ UNCHANGED <<mode, status, deleting, redisVars, reconcileVars>>

\* Variant: the key's time to live is extended instead of set.
SetHeartbeatExtends ==
    /\ inflight
    /\ inflight' = FALSE
    /\ keyLeft' = IF redisUp THEN keyLeft + Ttl ELSE keyLeft
    /\ UNCHANGED <<mode, status, age, deleting, redisUp, outages, reconcileVars>>

SetHeartbeat ==
    /\ inflight
    /\ inflight' = FALSE
    /\ keyLeft' = IF redisUp THEN Ttl ELSE keyLeft
    /\ UNCHANGED <<mode, status, age, deleting, redisUp, outages, reconcileVars>>

(***************************************************************************)
(* revoke_runner: commit, then delete the key, best effort.  A repeated    *)
(* request deletes it again.                                               *)
(***************************************************************************)
RevokeRunner ==
    /\ RowFree
    /\ ~deleting
    /\ status' = "REVOKED"
    /\ deleting' = TRUE
    /\ UNCHANGED <<mode, age, inflight, redisVars, reconcileVars>>

DeleteHeartbeat ==
    /\ deleting
    /\ deleting' = FALSE
    /\ keyLeft' = IF redisUp THEN 0 ELSE keyLeft
    /\ UNCHANGED <<mode, status, age, inflight, redisUp, outages, reconcileVars>>

(***************************************************************************)
(* _online_state of a runner whose status column was read as given.        *)
(***************************************************************************)
OnlineStatus(read) ==
    IF ~redisUp THEN "UNKNOWN"
    ELSE IF read = "ACTIVE" /\ keyLeft > 0 THEN "ONLINE"
    ELSE "OFFLINE"

\* _heartbeat_expired.  (last_heartbeat_at is never NULL here.)
HeartbeatExpired(ticks) == ticks >= Ttl

\* Variant: Redis alone decides.
GatePassesRedisOnly(look) ==
    /\ OnlineStatus(look.status) = "OFFLINE"
    /\ look.status = "ACTIVE"

\* _disconnect_gate_blocks lets the reconciliation pass.
GatePasses(look) ==
    /\ OnlineStatus(look.status) = "OFFLINE"
    /\ look.auto => HeartbeatExpired(look.age)
    /\ look.status = "ACTIVE"

(***************************************************************************)
(* reconcile_disconnected_runner_runs_core, called by the coordinator      *)
(* (auto) or by an administrator.  The first look is without locks.  The   *)
(* second comes after waiting for the locks of the runs; it selects the    *)
(* runner FOR UPDATE, which leaves the attributes the session already      *)
(* holds as they were, and asks Redis again.  The clock is read once.      *)
(***************************************************************************)
ReconcileLook(auto) ==
    LET look == [status |-> status, age |-> age, auto |-> auto]
    IN  /\ reconcile = "idle"
        /\ ActiveRuns # {}
        /\ GatePasses(look)
        /\ seen' = look
        /\ reconcile' = "gated"
        /\ UNCHANGED <<mode, beatVars, redisVars, work>>

ReconcileConfirm ==
    /\ reconcile = "gated"
    /\ reconcile' = IF GatePasses(seen) THEN "confirmed" ELSE "idle"
    /\ UNCHANGED <<mode, beatVars, redisVars, seen, work>>

\* One commit for all the runs: where one of them is jammed, _set_node_status
\* or _ensure_terminal_run_matches_children raises and nothing is written.
ReconcileCommit ==
    /\ reconcile = "confirmed"
    /\ reconcile' = "idle"
    /\ \/ /\ \E r \in Runs : work[r] = "jammed"
          /\ UNCHANGED work
       \/ /\ \A r \in Runs : work[r] # "jammed"
          /\ work' = [r \in Runs |-> IF r \in ActiveRuns THEN "closed" ELSE work[r]]
    /\ UNCHANGED <<mode, beatVars, redisVars, seen>>

(***************************************************************************)
(* What else happens to a run (RunControl and RunExecution in detail): its *)
(* runner reports, a user cancels it, the scan finds it overdue.  The      *)
(* confirmed reconciliation holds the rows of the active runs.             *)
(***************************************************************************)
MoveRun(r, from, to) ==
    /\ RowFree \/ r \notin ActiveRuns
    /\ work[r] \in from
    /\ work' = [work EXCEPT ![r] = to]
    /\ UNCHANGED <<mode, beatVars, redisVars, reconcile, seen>>

\* start_*_execution, update_step_run_status and complete_*_execution: the
\* runner's credential must be live.
RunnerReports(r) ==
    /\ mode # "dead"
    /\ status = "ACTIVE"
    /\ \/ MoveRun(r, {"assigned"}, "running")
       \/ MoveRun(r, {"running"}, "jammed")
       \/ MoveRun(r, {"jammed"}, "running")
       \/ MoveRun(r, {"running", "jammed", "stopping", "dropped"}, "closed")

\* cancel_run and force_stop_run of a run that a runner has.
CancelRun(r) ==
    \/ MoveRun(r, {"running", "jammed"}, "stopping")
    \/ MoveRun(r, {"assigned"}, "dropped")

\* Variant: a run whose nodes were cancelled or have ended is left alone.
CloseOverdueRunUnlessJammed(r) == MoveRun(r, {"running", "stopping"}, "closed")

\* reconcile_overdue_run_core: a started run is closed whatever its nodes are.
\* The moment of its deadline is left open.
CloseOverdueRun(r) == MoveRun(r, {"running", "jammed", "stopping"}, "closed")

(***************************************************************************)
(* The surroundings.  A punctual runner does not let more than Interval go *)
(* by between two heartbeats; another may be late and may die.             *)
(***************************************************************************)
Tick ==
    /\ mode = "punctual" /\ status = "ACTIVE" => age < Interval
    /\ age' = IF age < Ttl THEN age + 1 ELSE age
    /\ keyLeft' = IF keyLeft > 0 THEN keyLeft - 1 ELSE 0
    /\ UNCHANGED <<mode, status, inflight, deleting, redisUp, outages, reconcileVars>>

RunnerDies ==
    /\ mode = "late"
    /\ mode' = "dead"
    /\ UNCHANGED <<beatVars, redisVars, reconcileVars>>

RedisFails ==
    /\ outages < MaxOutages
    /\ outages' = outages + 1
    /\ \/ redisUp /\ redisUp' = FALSE /\ UNCHANGED keyLeft
       \/ keyLeft > 0 /\ keyLeft' = 0 /\ UNCHANGED redisUp
    /\ UNCHANGED <<mode, beatVars, reconcileVars>>

RedisRecovers ==
    /\ ~redisUp
    /\ redisUp' = TRUE
    /\ UNCHANGED <<mode, beatVars, keyLeft, outages, reconcileVars>>

Next ==
    \/ HeartbeatRunner \/ SetHeartbeat
    \/ RevokeRunner \/ DeleteHeartbeat
    \/ \E auto \in BOOLEAN : ReconcileLook(auto)
    \/ ReconcileConfirm \/ ReconcileCommit
    \/ \E r \in Runs : RunnerReports(r) \/ CancelRun(r) \/ CloseOverdueRun(r)
    \/ Tick \/ RunnerDies \/ RedisFails \/ RedisRecovers

(***************************************************************************)
(* Time passes, Redis comes back, and run_forever scans in every interval: *)
(* scan_once closes the overdue runs first, and a request for a row that   *)
(* is locked again and again is served in its turn.                        *)
(***************************************************************************)
Fairness ==
    /\ WF_vars(Tick) /\ WF_vars(RedisRecovers)
    /\ WF_vars(ReconcileLook(TRUE))
    /\ WF_vars(ReconcileConfirm) /\ WF_vars(ReconcileCommit)
    /\ \A r \in Runs : SF_vars(CloseOverdueRun(r))

Spec == Init /\ [][Next]_vars /\ Fairness

TypeOK ==
    /\ mode \in {"punctual", "late", "dead"}
    /\ status \in {"ACTIVE", "REVOKED"}
    /\ age \in 0..Ttl
    /\ inflight \in BOOLEAN /\ deleting \in BOOLEAN
    /\ keyLeft \in 0..Ttl
    /\ redisUp \in BOOLEAN
    /\ outages \in 0..MaxOutages
    /\ reconcile \in {"idle", "gated", "confirmed"}
    /\ seen \in [status : {"ACTIVE", "REVOKED"}, age : 0..Ttl, auto : BOOLEAN]
    /\ work \in [Runs -> WorkState]

\* The coordinator never fails the runs of a runner that sends its heartbeats
\* in time, whatever Redis loses and whenever it is down: the second condition
\* of _disconnect_gate_blocks protects it.  (An administrator's request may.)
PunctualRunnerKeepsRuns ==
    mode = "punctual" /\ status = "ACTIVE" /\ seen.auto => reconcile # "confirmed"

\* Every run of a runner that died ends, also when one of them makes the
\* transaction that fails them all roll back in scan after scan, when Redis is
\* down for a while and when a last heartbeat was still on its way to Redis.
\* Left over are runs that were never started and so have no deadline: one that
\* is being cancelled, and one whose runner was revoked.
DeadRunnerRunsEnd ==
    (mode = "dead") ~>
        \A r \in Runs : \/ work[r] \in {"closed", "dropped"}
                        \/ work[r] = "assigned" /\ status = "REVOKED"

\* When the coordinator decides to fail the runs it holds the runner's row, and
\* the heartbeat in that row is older than the TTL: a heartbeat whose Redis
\* write is still in flight stops it (the promise of _disconnect_gate_blocks).
InflightHeartbeatProtects ==
    reconcile = "confirmed" /\ seen.auto => HeartbeatExpired(age)
============================================================================
