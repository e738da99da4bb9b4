--------------------------- MODULE MCTaskLifecycle ---------------------------
(* Model-checking definitions for TaskLifecycle. *)
EXTENDS TaskLifecycle, TLC

\* API calls are interchangeable.
ClientSymmetry == Permutations(Clients)
=============================================================================
