---------------------------- MODULE MCOrchestrator ----------------------------
(* Orchestrator on every graph of a few nodes, cyclic ones included.       *)
EXTENDS Orchestrator
===============================================================================
