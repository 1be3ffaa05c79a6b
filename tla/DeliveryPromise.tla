-------------------------- MODULE DeliveryPromise --------------------------
(***************************************************************************)
(* What the notification outbox promises of each delivery, with no claim,  *)
(* worker, lease or clock in sight: a delivery is enqueued once, is tried  *)
(* any number of times, is written down as delivered only after the        *)
(* provider has taken the message, and then never changes again; given up  *)
(* deliveries may be revived; an incident is announced as notified only    *)
(* when every delivery of it is delivered.                                 *)
(***************************************************************************)
CONSTANTS Events, Deliveries, EventOf,
          Shared  \* deliveries whose message another one may stand for

VARIABLES
  fate,       \* what the product shows of a delivery
  taken,      \* the deliveries whose message a provider has taken
  announced   \* the incidents known to be notified

vars == <<fate, taken, announced>>

Fates == {"absent", "waiting", "trying", "delivered", "abandoned"}

Init ==
  /\ fate = [d \in Deliveries |-> "absent"]
  /\ taken = {}
  /\ announced = {}

\* The deliveries of ds, each in one of the states of `from', move to `to'.
Move(ds, from, to) ==
  /\ \A d \in ds : fate[d] \in from
  /\ fate' = [d \in Deliveries |-> IF d \in ds THEN to ELSE fate[d]]
  /\ UNCHANGED <<taken, announced>>

Enqueue(ds) == Move(ds, {"absent"}, "waiting")
Try(ds)     == Move(ds, {"waiting", "trying"}, "trying")
Deliver(d)  == d \in taken /\ Move({d}, {"trying"}, "delivered")
PutBack(d)  == Move({d}, {"trying"}, "waiting")
GiveUp(d)   == Move({d}, {"trying"}, "abandoned")
Revive(d)   == Move({d}, {"abandoned"}, "waiting")

\* The provider takes the message: an attempt that was overtaken may come late,
\* so nothing is said of the delivery's fate but that it was enqueued, and not
\* even that when another delivery can stand for it.
Take(d) ==
  /\ fate[d] # "absent" \/ d \in Shared
  /\ taken' = taken \cup {d}
  /\ UNCHANGED <<fate, announced>>

Announce(e) ==
  /\ \A d \in Deliveries : EventOf[d] = e => fate[d] = "delivered"
  /\ announced' = announced \cup {e}
  /\ UNCHANGED <<fate, taken>>

Next ==
  \/ \E ds \in SUBSET Deliveries : Enqueue(ds) \/ Try(ds)
  \/ \E d \in Deliveries : Take(d) \/ Deliver(d) \/ PutBack(d) \/ GiveUp(d) \/ Revive(d)
  \/ \E e \in Events : Announce(e)

Spec == Init /\ [][Next]_vars
=============================================================================
