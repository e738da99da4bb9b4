--------------------------- MODULE MCBrowserBridge ---------------------------
(* Model-checking definitions for BrowserBridge. *)
EXTENDS BrowserBridge
=============================================================================
