----------------------------- MODULE MCBrowserLink -----------------------------
(* Instances of BrowserLink for TLC. *)
EXTENDS BrowserLink
================================================================================
