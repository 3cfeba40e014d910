---------------------------- MODULE RunContract ----------------------------
(***************************************************************************)
(* What a test run promises to whoever reads it.  It waits, is taken by a  *)
(* runner, may be asked to stop, and is closed once.  Each case reaches an *)
(* outcome at most once.  The verdict is given in the step that closes the *)
(* run, and is borne out by the outcomes of the cases.                     *)
(***************************************************************************)
EXTENDS RunStates

VARIABLES
    phase,    \* "waiting", "active", "stopping" or "closed"
    verdict,  \* the status of the closed run, "OPEN" before
    outcome   \* the outcome of every case, "OPEN" while it has none

contractVars == <<phase, verdict, outcome>>

ContractInit ==
    /\ phase = "waiting"
    /\ verdict = "OPEN"
    /\ outcome = [c \in DOMAIN outcome |-> "OPEN"]

\* Outcomes are only ever added.
Conclude ==
    /\ outcome' \in [DOMAIN outcome -> {"OPEN"} \cup TerminalNode]
    /\ \A c \in DOMAIN outcome : outcome[c] # "OPEN" => outcome'[c] = outcome[c]

\* The outcomes bear the verdict out.  TIMEOUT only says that time ran out.
Justified(status, outcomes) ==
    /\ status = "SUCCESS" => outcomes \subseteq {"SUCCESS", "SKIPPED"}
    /\ status = "FAILED"  => outcomes \cap {"FAILED", "REVIEW"} # {}

TakeRun ==
    /\ phase = "waiting"
    /\ phase' = "active"
    /\ UNCHANGED <<verdict, outcome>>

Progress ==
    /\ phase \in {"active", "stopping"}
    /\ Conclude
    /\ UNCHANGED <<phase, verdict>>

AskToStop ==
    /\ phase = "active"
    /\ phase' = "stopping"
    /\ UNCHANGED <<verdict, outcome>>

\* A run nobody has taken may be closed with cases that never ran.
DropRun ==
    /\ phase = "waiting"
    /\ phase' = "closed"
    /\ verdict' = "CANCELLED"
    /\ Conclude

CloseRun ==
    /\ phase \in {"active", "stopping"}
    /\ phase' = "closed"
    /\ verdict' \in IF phase = "stopping" THEN {"CANCELLED"}
                                          ELSE TerminalRun \ {"CANCELLED"}
    /\ Conclude
    /\ \A c \in DOMAIN outcome : outcome'[c] # "OPEN"
    /\ Justified(verdict', {outcome'[c] : c \in DOMAIN outcome})

ContractNext == TakeRun \/ Progress \/ AskToStop \/ DropRun \/ CloseRun

ContractSpec == ContractInit /\ [][ContractNext]_contractVars
============================================================================
