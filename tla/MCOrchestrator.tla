--------------------------- MODULE MCOrchestrator ---------------------------
(* Two workflow requests and two DoIP endpoints: one bound after the other. *)
EXTENDS Orchestrator

CONSTANTS t1, t2, e1, e2

MCTasks == {t1, t2}
MCEndpoints == {e1, e2}
=============================================================================
