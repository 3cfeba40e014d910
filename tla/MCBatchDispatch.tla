-------------------------- MODULE MCBatchDispatch --------------------------
(***************************************************************************)
(* An instance of BatchDispatch for TLC: a single API case, one batch.     *)
(***************************************************************************)
EXTENDS BatchDispatch

BatchShapes == {[type |-> "API_CASE", cases |-> {1}, steps |-> {1}, ai |-> {}]}
============================================================================
