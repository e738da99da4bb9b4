-------------------------- MODULE MCTriggerDispatch --------------------------
(* Model-checking definitions for TriggerDispatch. *)
EXTENDS TriggerDispatch

CONSTANTS c1, c2
=============================================================================
