-------------------------- MODULE DispatchAttempts --------------------------
(***************************************************************************)
(* RunLifecycle with a count of the publishes begun under each attempt     *)
(* number.  attempt_count itself does not tell: the request that created   *)
(* the outbox row numbers its attempt from what it loaded, and may put the *)
(* column back behind attempts that other requests have recorded.          *)
(***************************************************************************)
EXTENDS RunLifecycle

VARIABLE sends   \* sends[n]: how often a publish was begun as attempt n

allVars == <<vars, sends>>

InitSends == Init /\ sends = [n \in 1..MaxAttempts |-> 0]

\* The envelope that goes to the broker carries the attempt just recorded.
CountSend ==
    sends' = IF \E d \in Dispatchers : pc[d] # "publishing" /\ pc'[d] = "publishing"
             THEN [sends EXCEPT ![attempts'] = @ + 1]
             ELSE sends

SpecSends == InitSends /\ [][Next /\ CountSend]_allVars /\ Fairness

\* However the requests interleave, crash and overtake one another, a number
\* is used at most twice, so a run is published at most twice as often as
\* _DISPATCH_MAX_ATTEMPTS says: only the request that created the row ever
\* counts from a stale copy, every retry counts under the row lock.
AttemptUsedAtMostTwice == \A n \in 1..MaxAttempts : sends[n] <= 2
=============================================================================
