---------------------------- MODULE MCMonitorHub ----------------------------
(* Small instances of MonitorHub.                                          *)
EXTENDS MonitorHub, TLC

Symmetry == Permutations(Clients)
=============================================================================
