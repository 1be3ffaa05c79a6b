--------------------------- MODULE MCAlertMonitor ---------------------------
(* TLC instances of the alert monitor.                                       *)
EXTENDS AlertMonitor, TLC
Replicas == Permutations(Pollers)
=============================================================================
