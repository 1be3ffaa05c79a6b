-------------------------- MODULE MCAlertDelivery --------------------------
(* A TLC instance of the delivery outbox: one incident with one Linear row.  *)
EXTENDS AlertDelivery
CONSTANTS e1, linear
OneIncident == {e1}
OnlyLinear == {linear}
EventOfLinear == [d \in OnlyLinear |-> e1]
=============================================================================
