--------------------------- MODULE MC_AgentKeystone ---------------------------
(* Instantiation of AgentKeystone for TLC. *)
EXTENDS AgentKeystone

CONSTANTS t1, t2
=============================================================================
