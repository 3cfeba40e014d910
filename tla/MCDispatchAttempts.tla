------------------------- MODULE MCDispatchAttempts -------------------------
(***************************************************************************)
(* An instance of DispatchAttempts for TLC: the smallest run.              *)
(***************************************************************************)
EXTENDS DispatchAttempts

DispatchedShapes == {[type |-> "API_CASE", cases |-> {1}, steps |-> {1}, ai |-> {}]}
=============================================================================
