------------------------------ MODULE Capacity ------------------------------
(***************************************************************************)
(* The capacity of an organization: which of its resources the plan keeps, *)
(* which are suspended, and for how long an excess may stay.               *)
(*                                                                         *)
(* Every trigger of billing (a webhook, a deadline, a request that finds a *)
(* deadline passed) ends in a materialization: under the organization lock *)
(* it compares usage with the limits of the plan that now applies, grants  *)
(* or ends the adjustment window, suspends and restores resources and      *)
(* saves the row.  The owner's choice of what to keep reallocates without  *)
(* the lock, and people switch resources on and off at any time, where a   *)
(* database trigger checks the saved limits.                               *)
(*                                                                         *)
(* Resources are numbered by kind, then by age.  The organization has a    *)
(* Stripe customer, so the scheduled reconciliation reaches it; the unit   *)
(* of time is longer than its interval, so no unit passes without a        *)
(* materialization.                                                        *)
(***************************************************************************)
EXTENDS Integers, FiniteSets, Sequences

CONSTANTS
  Keys, WindowedKeys,  \* capacity limits; those whose excess gets a window
  Resources, KeyOf,    \* resources, and the limit each counts against
  Watches,             \* the connection an alert rule is on, 0 for none
  Founder,             \* the founding owner's membership, pinned
  Changing,            \* bound: resources that are switched on and off
  Choosable,           \* bound: what the owner may choose to keep
  Plans, LimitOf,      \* plans and their limits
  Lenient,             \* payment grace and the beta grant: time was given already
  Jobs,                \* timers, webhooks and requests that materialize
  Owners,              \* the owner's requests to keep certain resources
  WindowLength,        \* CAPACITY_ADJUSTMENT_WINDOW_MS
  Cooldown,            \* CAPACITY_ADJUSTMENT_COOLDOWN_MS
  MaxTime,             \* bound: time
  MaxFaults            \* bound: jobs that fail half-way

ASSUME CapacityAssumption ==
  /\ Resources \subseteq Nat \ {0} /\ IsFiniteSet(Resources)
  /\ WindowedKeys \subseteq Keys /\ KeyOf \in [Resources -> Keys]
  /\ Watches \in [Resources -> Resources \cup {0}]
  \* Rules watch connections, and a connection watches nothing.
  /\ \A r, s \in Resources : Watches[r] # 0 /\ KeyOf[s] = KeyOf[Watches[r]] => Watches[s] = 0
  /\ Founder \subseteq Resources \ Changing /\ Changing \subseteq Resources
  /\ Choosable \subseteq SUBSET Resources /\ 0 \notin Jobs \cup Owners
  /\ Jobs \cap Owners = {}
  /\ LimitOf \in [Plans -> [Keys -> Nat]] /\ Lenient \subseteq Plans
  /\ WindowLength \in Nat \ {0} /\ Cooldown \in Nat /\ MaxTime \in Nat \ {0} /\ MaxFaults \in Nat

Never == 0

VARIABLES
  enabled,    \* the resources that exist and are switched on
  suspended,  \* billing_resource_suspension
  row,        \* organization_entitlement: plan, window, end of the last window
  lock,       \* the organization lock
  now,
  pc, todo,   \* where each worker is, and the allocations it has still to do
  restore, drop,  \* what its current allocation will restore and suspend
  result,     \* the row it will save, and the instant it works with
  settled,    \* the instant of the last materialization that was saved
  over,       \* history: since when each limit is exceeded and not added to, or Never
  calm,       \* history: nobody disturbed the materialization that runs or ran last
  faults

locals == <<pc, todo, restore, drop, result>>
vars == <<enabled, suspended, row, lock, now, locals, settled, over, calm, faults>>

Workers == Jobs \cup Owners
Times == 0..(MaxTime + WindowLength)
Row   == [plan : Plans, window : Times, ended : Times]
NoOne == 0

Allocation == [keys : SUBSET Keys, restoreOnly : BOOLEAN,
               chosen : SUBSET Resources, for : SUBSET Keys]

TypeOK ==
  /\ enabled \in SUBSET Resources /\ suspended \in SUBSET Resources
  /\ row \in Row /\ lock \in Workers \cup {NoOne} /\ now \in 1..MaxTime
  /\ pc \in [Workers -> {"idle", "lock", "read", "restore", "save"}]
  /\ todo \in [Workers -> Seq(Allocation)]
  /\ restore \in [Workers -> SUBSET Resources] /\ drop \in [Workers -> SUBSET Resources]
  /\ result \in [Workers -> [row : Row, at : Times]]
  /\ settled \in Times /\ over \in [Keys -> Times] /\ calm \in BOOLEAN
  /\ faults \in 0..MaxFaults

-----------------------------------------------------------------------------
(* Counting and choosing *)

OfKey == [k \in Keys |-> {r \in Resources : KeyOf[r] = k}]

Candidates(on, k) == on \cap OfKey[k]

\* durabull_capacity_usage
Usage(on, susp, k) == Cardinality(Candidates(on, k) \ susp)

\* Fault variant: the founding owner is a member like the others.
Before_NotPinned(s, r, preferred) ==
  \/ s \in preferred /\ r \notin preferred
  \/ (s \in preferred) = (r \in preferred) /\ s < r

\* Pinned first, then preferred, then the oldest.
Before(s, r, preferred) ==
  LET pinned(x) == x \in Founder
      liked(x)  == x \in preferred
  IN \/ pinned(s) /\ ~pinned(r)
     \/ /\ pinned(s) = pinned(r)
        /\ \/ liked(s) /\ ~liked(r)
           \/ liked(s) = liked(r) /\ s < r

Pinned == [k \in Keys |-> Cardinality(Candidates(Founder, k))]

Allowed(limits, k) == IF limits[k] < Pinned[k] THEN Pinned[k] ELSE limits[k]

\* selectResourcesWithinLimit
Select(on, k, limits, preferred) ==
  {r \in Candidates(on, k) :
     Cardinality({s \in Candidates(on, k) : Before(s, r, preferred)}) < Allowed(limits, k)}

\* Fault variant: without a choice the suspended resources are preferred.
Preferred_Inverted(on, susp, k, limits, a) == IF k \in a.for THEN a.chosen ELSE susp

\* The owner's choice; without one, what is active, and for a rule whose
\* connection stays.
Preferred(on, susp, k, limits, a) ==
  LET watched == {Watches[r] : r \in Candidates(on, k)} \ {0}
      stays == UNION {Select(on, j, limits, IF j \in a.for THEN a.chosen ELSE Resources \ susp) :
                        j \in {KeyOf[c] : c \in watched}}
  IN IF k \in a.for THEN a.chosen
     ELSE {r \in Resources \ susp : Watches[r] \in stays \cup {0}}

Keep(on, susp, k, limits, a) == Select(on, k, limits, Preferred(on, susp, k, limits, a))

\* allocateCapacity: what an allocation will restore and suspend.
ToRestore(on, susp, limits, a) ==
  UNION {Keep(on, susp, k, limits, a) \cap susp : k \in a.keys}

ToSuspend(on, susp, limits, a) ==
  IF a.restoreOnly THEN {}
  ELSE UNION {Candidates(on, k) \ (Keep(on, susp, k, limits, a) \cup susp) : k \in a.keys}

All == [keys |-> Keys, restoreOnly |-> FALSE, chosen |-> {}, for |-> {}]

-----------------------------------------------------------------------------
(* evaluateCapacityTransition *)

Limits == LimitOf[row.plan]

OverLimit(p) == {k \in Keys : Usage(enabled, suspended, k) > LimitOf[p][k]}

\* Fault variant: a window that ended is kept like one that runs.
SuspendNow_NoExpiry(p, at) ==
  \/ OverLimit(p) # {} /\ row.plan \in Lenient /\ row.window = Never
  \/ /\ OverLimit(p) \cap WindowedKeys # {}
     /\ row.window = Never /\ row.ended # Never /\ at - row.ended < Cooldown

SuspendNow(p, at) ==
  LET windowed == OverLimit(p) \cap WindowedKeys
  IN \/ OverLimit(p) # {} /\ row.plan \in Lenient /\ row.window = Never
     \/ windowed # {} /\ row.window \in 1..at
     \/ windowed # {} /\ row.window = Never /\ row.ended # Never /\ at - row.ended < Cooldown

Window(p, at) ==
  IF SuspendNow(p, at) \/ OverLimit(p) \cap WindowedKeys = {} THEN Never
  ELSE IF row.window # Never THEN row.window ELSE at + WindowLength

Ended(p, at) ==
  IF row.window # Never /\ (SuspendNow(p, at) \/ OverLimit(p) = {}) THEN at ELSE row.ended

\* Fault variant: what is over at once is all that is suspended.
Allocations_OnlyImmediate(p, at) ==
  <<[All EXCEPT !.keys = OverLimit(p) \ WindowedKeys], [All EXCEPT !.restoreOnly = TRUE]>>

\* Fault variant: nothing is restored with the immediate suspensions.
Allocations_NoRestore(p, at) ==
  IF SuspendNow(p, at) THEN <<All>>
  ELSE IF OverLimit(p) \ WindowedKeys # {}
       THEN <<[All EXCEPT !.keys = OverLimit(p) \ WindowedKeys]>>
       ELSE <<[All EXCEPT !.restoreOnly = TRUE]>>

Allocations(p, at) ==
  LET immediate == OverLimit(p) \ WindowedKeys
      only == [All EXCEPT !.keys = immediate]
      back == [All EXCEPT !.restoreOnly = TRUE]
  IN IF SuspendNow(p, at) THEN <<All>>
     ELSE IF immediate # {} THEN <<only, back>> ELSE <<back>>

-----------------------------------------------------------------------------

NoResult == [row |-> [plan |-> CHOOSE p \in Plans : TRUE, window |-> Never, ended |-> Never],
             at |-> Never]

Init ==
  /\ \E p \in Plans : row = [plan |-> p, window |-> Never, ended |-> Never]
  /\ enabled \in {on \in SUBSET Resources :
        /\ Resources \ Changing \subseteq on
        /\ \A k \in Keys : Usage(on, {}, k) <= Allowed(Limits, k)}
  /\ suspended = {}
  /\ lock = NoOne /\ now = 1 /\ settled = Never
  /\ pc = [w \in Workers |-> "idle"]
  /\ todo = [w \in Workers |-> <<>>]
  /\ restore = [w \in Workers |-> {}] /\ drop = [w \in Workers |-> {}]
  /\ result = [w \in Workers |-> NoResult]
  /\ over = [k \in Keys |-> Never] /\ calm = FALSE /\ faults = 0

\* Does what is kept of a kind depend on no other kind?
Independent(k) == \A r \in OfKey[k] : Watches[r] = 0

\* The history of the excess follows every change; in the kinds grown, where a
\* resource was added to what may be an excess, it starts anew.
Observe(grown) ==
  over' = [k \in Keys |->
    IF Usage(enabled', suspended', k) <= Allowed(LimitOf[row'.plan], k) THEN Never
    ELSE IF over[k] = Never \/ k \in grown THEN now ELSE over[k]]

Quiet(w) == \A v \in Workers \ {w} : pc[v] \in {"idle", "lock"}

-----------------------------------------------------------------------------
(* People *)

\* durabull_assert_capacity, in the transaction that enables or inserts.
Enable(r) ==
  /\ r \in Changing \ enabled
  /\ Usage(enabled, suspended, KeyOf[r]) < Limits[KeyOf[r]]
  /\ enabled' = enabled \cup {r}
  /\ calm' = FALSE
  /\ UNCHANGED <<suspended, row, lock, now, locals, settled, faults>> /\ Observe({})

Disable(r) ==
  /\ r \in Changing \cap enabled
  /\ enabled' = enabled \ {r}
  /\ calm' = FALSE
  /\ UNCHANGED <<suspended, row, lock, now, locals, settled, faults>> /\ Observe({})

\* PUT /allocation: the owner's choice for one limit, checked against the row.
Choose(w) ==
  /\ w \in Owners /\ pc[w] = "idle"
  /\ \E k \in Keys, chosen \in Choosable :
       /\ chosen \subseteq OfKey[k]
       /\ Cardinality(chosen) <= Limits[k]
       /\ todo' = [todo EXCEPT ![w] =
            <<[keys |-> Keys, restoreOnly |-> FALSE, chosen |-> chosen, for |-> {k}]>>]
  /\ result' = [result EXCEPT ![w] = [row |-> row, at |-> Never]]
  /\ pc' = [pc EXCEPT ![w] = "read"]
  /\ calm' = FALSE
  /\ UNCHANGED <<enabled, suspended, row, lock, now, restore, drop, settled, over, faults>>

-----------------------------------------------------------------------------
(* materializeEntitlementLocked *)

\* The plan that applies, usage and what follows from them.
Materialize(w) ==
  /\ pc[w] = (IF w \in Jobs THEN "idle" ELSE "lock") /\ lock = NoOne
  /\ lock' = w
  /\ \E p \in Plans :
       /\ todo' = [todo EXCEPT ![w] = Allocations(p, now)]
       /\ result' = [result EXCEPT ![w] =
            [row |-> [plan |-> p, window |-> Window(p, now), ended |-> Ended(p, now)],
             at |-> now]]
  /\ pc' = [pc EXCEPT ![w] = "read"]
  /\ calm' = Quiet(w)
  /\ UNCHANGED <<enabled, suspended, row, now, restore, drop, settled, over, faults>>

\* buildPlans reads candidates and suspensions; what is to be done follows.
ReadPlans(w) ==
  /\ pc[w] = "read"
  /\ LET a == Head(todo[w])
         limits == LimitOf[result[w].row.plan]
     IN /\ restore' = [restore EXCEPT ![w] = ToRestore(enabled, suspended, limits, a)]
        /\ drop' = [drop EXCEPT ![w] = ToSuspend(enabled, suspended, limits, a)]
  /\ todo' = [todo EXCEPT ![w] = Tail(@)]
  /\ pc' = [pc EXCEPT ![w] = "restore"]
  /\ UNCHANGED <<enabled, suspended, row, lock, now, result, settled, over, calm, faults>>

Disturbs(w) == IF result[w].at = Never THEN calm' = FALSE ELSE UNCHANGED calm

\* unsuspend deletes one suspension after the other, in the order of the kinds.
RestoreOne(w) ==
  /\ pc[w] = "restore"
  /\ UNCHANGED <<enabled, row, lock, now, pc, todo, drop, result, settled, faults>>
  /\ \E r \in restore[w] :
       /\ \A s \in restore[w] : KeyOf[s] = KeyOf[r] \/ r < s
       /\ suspended' = suspended \ {r}
       /\ restore' = [restore EXCEPT ![w] = @ \ {r}]
       /\ Observe(IF result[w].at = Never \/ ~Independent(KeyOf[r]) THEN {KeyOf[r]} ELSE {})
  /\ Disturbs(w)

\* suspend inserts all at once.
SuspendAll(w) ==
  /\ pc[w] = "restore" /\ restore[w] = {}
  /\ suspended' = suspended \cup drop[w]
  /\ drop' = [drop EXCEPT ![w] = {}]
  /\ pc' = [pc EXCEPT ![w] =
       IF todo[w] # <<>> THEN "read" ELSE IF result[w].at = Never THEN "lock" ELSE "save"]
  /\ Disturbs(w)
  /\ UNCHANGED <<enabled, row, lock, now, todo, restore, result, settled, faults>> /\ Observe({})

SaveEntitlement(w) ==
  /\ pc[w] = "save"
  /\ row' = result[w].row
  /\ settled' = result[w].at
  /\ lock' = NoOne
  /\ pc' = [pc EXCEPT ![w] = "idle"]
  /\ result' = [result EXCEPT ![w] = NoResult]
  /\ UNCHANGED <<enabled, suspended, now, todo, restore, drop, calm, faults>> /\ Observe({})

\* A statement fails or the process dies: what was done stays.
Fails(w) ==
  /\ pc[w] # "idle" /\ faults < MaxFaults /\ faults' = faults + 1
  /\ lock' = IF lock = w THEN NoOne ELSE lock
  /\ pc' = [pc EXCEPT ![w] = "idle"]
  /\ todo' = [todo EXCEPT ![w] = <<>>]
  /\ restore' = [restore EXCEPT ![w] = {}] /\ drop' = [drop EXCEPT ![w] = {}]
  /\ result' = [result EXCEPT ![w] = NoResult]
  /\ calm' = FALSE
  /\ UNCHANGED <<enabled, suspended, row, now, settled, over>>

\* A unit passes: jobs are much shorter, and the timers ran in it.
Tick ==
  /\ now < MaxTime /\ settled = now
  /\ \A w \in Workers : pc[w] = "idle"
  /\ now' = now + 1
  /\ UNCHANGED <<enabled, suspended, row, lock, locals, settled, over, calm, faults>>

Next ==
  \/ \E r \in Resources : Enable(r) \/ Disable(r)
  \/ \E w \in Workers :
       \/ Choose(w) \/ Materialize(w) \/ ReadPlans(w) \/ RestoreOne(w)
       \/ SuspendAll(w) \/ SaveEntitlement(w) \/ Fails(w)
  \/ Tick

Spec == Init /\ [][Next]_vars

-----------------------------------------------------------------------------
(* Properties *)

\* The founding owner is never suspended, whatever the plan and the choice.
FounderStays == suspended \cap Founder = {}

\* An excess of connections or members ends with its window, an excess of the
\* rest at once: no sequence of upgrades and downgrades, choices, switches and
\* failed jobs keeps it past the first materialization that is due to end it.
\* It starts anew when an owner's choice, which takes no lock, restores into it
\* while a materialization suspends, and when rules are restored (SettledFits).
ExcessEnds ==
  \A k \in Keys : over[k] # Never =>
    now - over[k] <= (IF k \in WindowedKeys THEN WindowLength ELSE 0)
                       + (IF settled = now THEN 0 ELSE 1)

Settled == calm /\ lock = NoOne

Fits(k) ==
  \/ Usage(enabled, suspended, k) <= Allowed(Limits, k)
  \/ k \in WindowedKeys /\ row.window # Never

\* After a materialization that nobody disturbed nothing is suspended that there
\* is room for, whatever was suspended before and why.
RoomIsUsed ==
  Settled => \A k \in Keys :
    Candidates(enabled, k) \cap suspended # {} => Usage(enabled, suspended, k) >= Allowed(Limits, k)

\* After one every limit is kept or has its window, where the choice of what is
\* kept depends on no other limit.
IndependentFits == Settled => \A k \in Keys : Independent(k) => Fits(k)

\* The same of every limit, that of the rules included.  The code violates it:
\* the restoring allocation prefers other rules than the one before it did.
SettledFits == Settled => \A k \in Keys : Fits(k)

\* After one the suspended set is stable: evaluated again for the same plan, each
\* allocation of the next materialization finds nothing to restore, and nothing
\* to suspend but what a window that is over was granted for; again of the
\* limits that depend on no other, as rules do come and go (SettledFits).
StableSet ==
  Settled => \A i \in DOMAIN Allocations(row.plan, now), k \in Keys :
    LET a == Allocations(row.plan, now)[i]
    IN Independent(k) =>
         /\ ToRestore(enabled, suspended, Limits, a) \cap OfKey[k] = {}
         /\ ToSuspend(enabled, suspended, Limits, a) \cap OfKey[k] # {} =>
              k \in WindowedKeys /\ row.window \in 1..now
=============================================================================
