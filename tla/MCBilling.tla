------------------------------- MODULE MCBilling -------------------------------
(* Model-checking definitions for Billing. *)
EXTENDS Billing, TLC

\* Webhook requests are interchangeable, and so are transfers.
RequestSymmetry == Permutations(Hooks) \cup Permutations(Transfers)
=============================================================================
