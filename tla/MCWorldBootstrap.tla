--------------------------- MODULE MCWorldBootstrap ---------------------------
(* Instance of WorldBootstrap for TLC. *)
EXTENDS WorldBootstrap
CONSTANTS w1, w2
===============================================================================
