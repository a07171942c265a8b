--------------------------- MODULE MCFoundrySessions ---------------------------
(* Instance of FoundrySessions for TLC: two sessions of one user. *)
EXTENDS FoundrySessions
CONSTANTS s1, s2, u1, w1, w2

CommonOwner == [s \in {s1, s2} |-> u1]
===============================================================================
