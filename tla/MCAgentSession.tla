--------------------------- MODULE MCAgentSession ---------------------------
(* Model-checking definitions for AgentSession. *)
EXTENDS AgentSession, TLC

\* The connections of an agent are interchangeable until they are opened.
SocketSymmetry == Permutations(Sockets)
=============================================================================
