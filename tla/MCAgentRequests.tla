--------------------------- MODULE MCAgentRequests ---------------------------
(* Model-checking definitions for AgentRequests. *)
EXTENDS AgentRequests

CONSTANTS c1, c2, s1, s2
=============================================================================
