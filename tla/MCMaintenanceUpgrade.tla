------------------------- MODULE MCMaintenanceUpgrade -------------------------
(* Instances of MaintenanceUpgrade for TLC. *)
EXTENDS MaintenanceUpgrade
===============================================================================
