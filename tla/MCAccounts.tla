----------------------------- MODULE MCAccounts -----------------------------
(* Model-checking definitions for Accounts: the tabs of one browser. *)
EXTENDS Accounts, TLC

CONSTANTS e1, e2, r1, r2, r3, b1, t1, t2

TabBrowser == t1 :> b1 @@ t2 :> b1

Symmetry ==
  Permutations({r1, r2, r3}) \cup Permutations({e1, e2}) \cup Permutations({t1, t2})
=============================================================================
