-------------------------- MODULE MCAgentTerminals --------------------------
(* Small instances of AgentTerminals for TLC. *)
EXTENDS AgentTerminals

CONSTANTS v1, v2

OneViewer == {v1}
TwoViewers == {v1, v2}
TwoSizes == {80, 132}
=============================================================================
