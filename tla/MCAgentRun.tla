----------------------------- MODULE MCAgentRun -----------------------------
(* A small instance of AgentRun for TLC. *)
EXTENDS AgentRun
=============================================================================
