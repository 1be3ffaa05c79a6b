------------------------ MODULE MCLinearResolution ------------------------
(* TLC instances of the issue clean-up: two incidents of two rules, and for  *)
(* the liveness properties one incident and two workers.                     *)
EXTENDS LinearResolution, TLC
CONSTANTS e1, e2, r1, r2
TwoIncidents == {e1, e2}
OneIncident == {e1}
TwoRules == {r1, r2}
OneRule == {r1}
RuleOfEach == [e \in TwoIncidents |-> IF e = e1 THEN r1 ELSE r2]
RuleOfAll == [e \in Events |-> r1]
Replicas == Permutations(Workers)
===========================================================================
