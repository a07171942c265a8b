--------------------------- MODULE MCWorldTransport ---------------------------
(* Instances of WorldTransport for TLC. *)
EXTENDS WorldTransport
===============================================================================
