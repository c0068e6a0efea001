-------------------------- MODULE MCMaintenanceGate --------------------------
(* A small instance of MaintenanceGate for TLC. *)
EXTENDS MaintenanceGate
CONSTANTS u1, w1, c1, c2, p1, p2, k1
=============================================================================
