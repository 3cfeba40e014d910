--------------------------- MODULE MCRunLifecycle ---------------------------
(***************************************************************************)
(* Instances of RunLifecycle for TLC.                                      *)
(***************************************************************************)
EXTENDS RunLifecycle

\* A data-driven API case with two iterations.
ApiShape == [type |-> "API_CASE", cases |-> {1, 2}, steps |-> {1}, ai |-> {}]

\* A Web case and a scenario with an ordinary step and an AI assertion.
WebShape == [type |-> "WEB_CASE", cases |-> {1}, steps |-> {1, 2}, ai |-> {2}]
ScenarioShape == [type |-> "SCENARIO", cases |-> {1}, steps |-> {1, 2}, ai |-> {2}]

ExecutedShapes == {ApiShape, WebShape, ScenarioShape}
IteratedShapes == {ApiShape}
============================================================================
