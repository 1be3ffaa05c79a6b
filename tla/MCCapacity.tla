----------------------------- MODULE MCCapacity -----------------------------
(* An organization with two connections, the founding owner and a member,    *)
(* and a rule on each connection.                                            *)
EXTENDS Capacity

ThreeKeys == {"connections.enabled", "members.reserved", "alerts.enabled"}
Windowed  == {"connections.enabled", "members.reserved"}
SixResources == 1..6
Kind == <<"connections.enabled", "connections.enabled", "members.reserved", "members.reserved",
          "alerts.enabled", "alerts.enabled">>
RuleOn == <<0, 0, 0, 0, 1, 2>>
Chosen == {{2}, {6}}
FoundingOwner == {4}
Limited ==
  [free |-> [k \in ThreeKeys |-> 1],
   grace |-> [k \in ThreeKeys |-> 2],
   paid |-> [k \in ThreeKeys |-> 2]]
=============================================================================
