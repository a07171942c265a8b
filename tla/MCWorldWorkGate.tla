--------------------------- MODULE MCWorldWorkGate ---------------------------
(* Instance of WorldWorkGate for TLC. *)
EXTENDS WorldWorkGate
CONSTANTS k1, k2, w1, w2, d1, d2
=============================================================================
