----------------------------- MODULE MCBilling -----------------------------
(* Instances of Billing; the timers of two processes are alike. *)
EXTENDS Billing, TLC

Symmetry == Permutations(Daemons)
=============================================================================
