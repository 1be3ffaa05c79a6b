--------------------------- MODULE Billing_proofs ---------------------------
(***************************************************************************)
(* Proofs about the inbox and the projection of subscriptions, for any     *)
(* numbers of people, timers, purchases, events, tries and faults.         *)
(*                                                                         *)
(* Beside the types (Typed): a customer who was never bound has nothing at *)
(* Stripe (Strangers); nothing in hand is newer than Stripe (Received);    *)
(* who is between the lock and the entitlement holds the lock, unless it   *)
(* was lost (Locked).  What a worker has read is then at least as new as   *)
(* what is projected, and as the events it works on (Applied).             *)
(***************************************************************************)
EXTENDS Billing, FiniteSetTheorems, WellFoundedInduction, TLAPS

-----------------------------------------------------------------------------
(* Choices *)

LEMMA HasLeast ==
  ASSUME NEW T \in SUBSET Nat, T # {}
  PROVE  \E x \in T : \A y \in T : x <= y
<1>1. \E x \in T : \A y \in T : <<y, x>> \notin OpToRel(<, Nat)
  BY NatLessThanWellFounded, WFMin
<1>2. \A x, y \in Nat : <<y, x>> \notin OpToRel(<, Nat) => x <= y
  BY DEF OpToRel
<1> QED BY <1>1, <1>2

\* A claimed batch that is not empty has a first event.
LEMMA FirstOne ==
  ASSUME TypeOK, NEW w \in Workers, batch[w] # {}
  PROVE  First(w) \in batch[w]
<1> DEFINE T == {b.turn : b \in batch[w]}
<1>1. batch[w] \in SUBSET [of : Events, try : Nat, turn : Nat]
  BY DEF TypeOK
<1>2. T \in SUBSET Nat /\ T # {}
  BY <1>1, BillingAssumption DEF Events
<1>3. PICK x \in T : \A y \in T : x <= y
  BY <1>2, HasLeast
<1>4. PICK b \in batch[w] : x = b.turn
  BY <1>3
<1>5. \A c \in batch[w] : b.turn <= c.turn
  BY <1>3, <1>4
<1> QED BY <1>4, <1>5 DEF First

\* Of finitely many numbers one is the greatest.
LEMMA HasGreatest ==
  ASSUME NEW n \in Nat, NEW T, T # {}, \A x \in T : x \in Nat /\ x <= n
  PROVE  \E x \in T : \A y \in T : y <= x
<1> DEFINE S == {x \in Nat : \A y \in T : y <= x}
<1>1. S \in SUBSET Nat /\ S # {}
  <2>1. n \in S
    OBVIOUS
  <2> QED BY <2>1
<1>2. PICK x \in S : \A y \in S : x <= y
  BY <1>1, HasLeast
<1>3. x \in Nat /\ \A y \in T : y <= x
  BY <1>2
<1>4. SUFFICES ASSUME x \notin T PROVE FALSE
  BY <1>3
<1>5. PICK z \in T : TRUE
  OBVIOUS
<1>6. \A y \in T : y \in Nat /\ y <= x - 1
  BY <1>3, <1>4
<1>7. x - 1 \in Nat
  BY <1>3, <1>5, <1>6
<1>8. x - 1 \in S
  BY <1>6, <1>7
<1> QED BY <1>2, <1>3, <1>8

\* Of several subscriptions one is the newest.
LEMMA Newest ==
  ASSUME since \in [Attempts -> 0..MaxAttempts], NEW among \in SUBSET Attempts, among # {}
  PROVE  \E a \in among : \A b \in among : since[b] < since[a] \/ (since[b] = since[a] /\ b <= a)
<1>0. /\ MaxAttempts \in Nat
      /\ \A a \in among : a \in Nat /\ a <= MaxAttempts /\ since[a] \in Nat /\ since[a] <= MaxAttempts
  BY BillingAssumption DEF Attempts
<1> DEFINE T == {since[a] : a \in among}
<1>1. T # {} /\ \A x \in T : x \in Nat /\ x <= MaxAttempts
  BY <1>0
<1>2. PICK s \in T : \A y \in T : y <= s
  BY <1>0, <1>1, HasGreatest
<1>3. \A b \in among : since[b] <= s
  BY <1>2
<1> DEFINE last == {a \in among : since[a] = s}
<1>4. last # {} /\ \A x \in last : x \in Nat /\ x <= MaxAttempts
  BY <1>0, <1>2
<1>5. PICK a \in last : \A b \in last : b <= a
  BY <1>0, <1>4, HasGreatest
<1>6. a \in among /\ since[a] = s
  BY <1>5
<1>7. ASSUME NEW b \in among PROVE since[b] < since[a] \/ (since[b] = since[a] /\ b <= a)
  <2>1. CASE since[b] = s
    BY <1>5, <1>6, <2>1
  <2>2. CASE since[b] # s
    BY <1>0, <1>3, <1>6, <2>2
  <2> QED BY <2>1, <2>2
<1> QED BY <1>6, <1>7

LEMMA CurrentType ==
  ASSUME TypeOK, NEW subs \in [Attempts -> SubStatus]
  PROVE  ChooseCurrent(subs) \in 0..MaxAttempts
<1> DEFINE with(status) == {a \in Attempts : subs[a] = status}
           newest(among) == CHOOSE a \in among : \A b \in among :
                           since[b] < since[a] \/ (since[b] = since[a] /\ b <= a)
<1>1. ASSUME NEW among \in SUBSET Attempts, among # {} PROVE newest(among) \in 0..MaxAttempts
  <2>1. \E a \in among : \A b \in among : since[b] < since[a] \/ (since[b] = since[a] /\ b <= a)
    BY <1>1, Newest DEF TypeOK
  <2>2. newest(among) \in among
    BY <2>1
  <2>3. Attempts \subseteq 0..MaxAttempts
    BY BillingAssumption DEF Attempts
  <2> HIDE DEF newest
  <2> QED BY <2>2, <2>3
<1>2. 0 \in 0..MaxAttempts
  BY BillingAssumption
<1>3. \A status : with(status) \in SUBSET Attempts
  OBVIOUS
<1> HIDE DEF with
<1>4. ChooseCurrent(subs) =
        IF with("active") # {} THEN newest(with("active"))
        ELSE IF with("past_due") # {} THEN newest(with("past_due"))
        ELSE IF with("canceled") # {} THEN newest(with("canceled"))
        ELSE 0
  BY DEF ChooseCurrent, with
<1> HIDE DEF newest
<1> QED BY <1>1, <1>2, <1>3, <1>4

\* There are no more attempts than there may be.
LEMMA CreatedType == Created \in 0..MaxAttempts
<1>1. IsFiniteSet(Attempts) /\ Cardinality(Attempts) = MaxAttempts
  BY BillingAssumption, FS_Interval DEF Attempts
<1>2. Cardinality({a \in Attempts : attempt[a] # "none"}) <= MaxAttempts
  BY <1>1, FS_Subset
<1>3. Cardinality({a \in Attempts : attempt[a] # "none"}) \in Nat
  BY <1>1, FS_Subset, FS_CardinalityType
<1> QED BY <1>2, <1>3, BillingAssumption DEF Created

-----------------------------------------------------------------------------
(* Types *)

\* Which jobs get where, and that whoever works on an attempt or on events has
\* one.
Placed ==
  \A w \in Workers :
    /\ pc[w] = "guard" => job[w] = "start"
    /\ pc[w] \in {"checkout", "find"} => job[w] \in {"start", "cancel"}
    /\ pc[w] = "expire" => job[w] \in {"start", "cancel", "sweep"} /\ target[w] \in attached
    /\ pc[w] = "lookup" =>
         job[w] \in {"start", "cancel", "return", "sweep"} /\ target[w] \in attached
    /\ pc[w] \in {"session", "attach", "abort"} => target[w] \in Attempts
    /\ pc[w] \in {"event", "processed", "failed"} => job[w] = "inbox"
    /\ job[w] = "inbox" => batch[w] # {}

Typed ==
  /\ TypeOK /\ Placed
  /\ \A a \in attached : session[a] # "none"
  /\ \A w \in Workers : pc[w] = "attach" => session[target[w]] # "none"

LEMMA TypedInit == Init => Typed
<1> SUFFICES ASSUME Init PROVE Typed
  OBVIOUS
<1> USE BillingAssumption DEF Init, Attempts, Events
<1>1. /\ session \in [Attempts -> {"none", "open", "complete", "expired"}]
      /\ sub \in [Attempts -> SubStatus] /\ known \in [Attempts -> SubStatus]
      /\ since \in [Attempts -> 0..MaxAttempts]
      /\ attempt \in [Attempts -> {"none", "open", "completed", "expired", "failed"}]
  BY DEF SubStatus
<1>2. /\ expiryOf \in [Events -> 0..MaxAttempts] /\ tries \in [Events -> Nat]
      /\ row \in [Events -> {"absent", "pending", "processing", "failed", "dead", "processed"}]
  OBVIOUS
<1>3. /\ pc \in [Workers -> Steps] /\ job \in [Workers -> Jobs]
      /\ todo \in [Workers -> SUBSET Attempts]
      /\ batch \in [Workers -> SUBSET [of : Events, try : Nat, turn : Nat]]
      /\ target \in [Workers -> 0..MaxAttempts]
      /\ seen \in [Workers -> {"none", "open", "complete", "expired"}]
  BY DEF Steps, Jobs
<1>4. snap \in [Workers -> Listing]
  BY DEF Nothing, Listing, SubStatus
<1>5. /\ version \in 0..MaxEvents /\ current \in 0..MaxAttempts /\ granted \in SubStatus
      /\ seenUpTo \in [projected : 0..MaxEvents, granted : 0..MaxEvents]
      /\ lock \in Workers \cup {NoOne} /\ faults \in 0..MaxFaults
      /\ attached \in SUBSET Attempts /\ writtenOff \in SUBSET Attempts
  BY DEF SubStatus
<1>7. bound \in BOOLEAN /\ lockLost \in BOOLEAN
  BY Zenon
<1>6. attached = {} /\ \A w \in Workers : pc[w] = "idle"
  OBVIOUS
<1> QED BY <1>1, <1>2, <1>3, <1>4, <1>5, <1>6, <1>7 DEF Typed, Placed, TypeOK

\* A worker that is done or dead.
LEMMA ReturnTypes ==
  ASSUME Typed, NEW w \in Workers, Return(w)
  PROVE  /\ pc' \in [Workers -> Steps] /\ job' \in [Workers -> Jobs]
         /\ snap' \in [Workers -> Listing] /\ todo' \in [Workers -> SUBSET Attempts]
         /\ batch' \in [Workers -> SUBSET [of : Events, try : Nat, turn : Nat]]
         /\ target' \in [Workers -> 0..MaxAttempts]
         /\ seen' \in [Workers -> {"none", "open", "complete", "expired"}]
         /\ pc'[w] = "idle" /\ job'[w] = "none"
         /\ \A v \in Workers \ {w} :
              pc'[v] = pc[v] /\ job'[v] = job[v] /\ target'[v] = target[v] /\ batch'[v] = batch[v]
<1>1. Nothing \in Listing /\ 0 \in 0..MaxAttempts /\ "idle" \in Steps /\ "none" \in Jobs
  BY BillingAssumption DEF Nothing, Listing, SubStatus, Steps, Jobs, Events
<1> QED BY <1>1 DEF Return, Forget, Typed, TypeOK

LEMMA ForgetTypes ==
  ASSUME Typed, NEW w \in Workers, Forget(w)
  PROVE  /\ snap' \in [Workers -> Listing] /\ todo' \in [Workers -> SUBSET Attempts]
         /\ target' \in [Workers -> 0..MaxAttempts]
         /\ seen' \in [Workers -> {"none", "open", "complete", "expired"}]
         /\ \A v \in Workers \ {w} : target'[v] = target[v]
<1>1. Nothing \in Listing /\ 0 \in 0..MaxAttempts
  BY BillingAssumption DEF Nothing, Listing, SubStatus, Events
<1> QED BY <1>1 DEF Forget, Typed, TypeOK

\* A session that ends unpaid, with its event or without.
LEMMA EndSessionTypes ==
  ASSUME Typed, NEW a \in Attempts, EndSession(a)
  PROVE  /\ session' \in [Attempts -> {"none", "open", "complete", "expired"}]
         /\ version' \in 0..MaxEvents /\ expiryOf' \in [Events -> 0..MaxAttempts]
         /\ \A b \in Attempts : session[b] # "none" => session'[b] # "none"
         /\ version <= version'
<1>1. MaxEvents \in Nat /\ version \in 0..MaxEvents /\ a \in 0..MaxAttempts
  BY BillingAssumption DEF Typed, TypeOK, Attempts
<1>2. CASE version < MaxEvents
  <2>1. version' = version + 1 /\ expiryOf' = [expiryOf EXCEPT ![version + 1] = a]
    BY <1>2 DEF EndSession
  <2>2. version + 1 \in 1..MaxEvents
    BY <1>1, <1>2
  <2>3. expiryOf' \in [Events -> 0..MaxAttempts]
    BY <1>1, <2>1 DEF Typed, TypeOK
  <2>4. /\ session' \in [Attempts -> {"none", "open", "complete", "expired"}]
        /\ \A b \in Attempts : session[b] # "none" => session'[b] # "none"
    BY DEF EndSession, Typed, TypeOK
  <2> QED BY <1>1, <2>1, <2>2, <2>3, <2>4
<1>3. CASE ~(version < MaxEvents)
  BY <1>1, <1>3 DEF EndSession, Typed, TypeOK
<1> QED BY <1>2, <1>3

\* What is not a worker's own.
Shared ==
  /\ session \in [Attempts -> {"none", "open", "complete", "expired"}]
  /\ sub \in [Attempts -> SubStatus] /\ since \in [Attempts -> 0..MaxAttempts]
  /\ version \in 0..MaxEvents /\ expiryOf \in [Events -> 0..MaxAttempts]
  /\ row \in [Events -> {"absent", "pending", "processing", "failed", "dead", "processed"}]
  /\ tries \in [Events -> Nat]
  /\ attempt \in [Attempts -> {"none", "open", "completed", "expired", "failed"}]
  /\ attached \in SUBSET Attempts /\ writtenOff \in SUBSET Attempts
  /\ known \in [Attempts -> SubStatus]
  /\ current \in 0..MaxAttempts /\ granted \in SubStatus /\ bound \in BOOLEAN
  /\ seenUpTo \in [projected : 0..MaxEvents, granted : 0..MaxEvents]
  /\ lock \in Workers \cup {NoOne} /\ lockLost \in BOOLEAN /\ faults \in 0..MaxFaults

Sold == \A a \in attached : session[a] # "none"

\* A worker that is done leaves the types as they are, if nothing else breaks them.
LEMMA DoneTyped ==
  ASSUME Typed, NEW w \in Workers, Return(w), Shared', Sold', UNCHANGED session, attached \subseteq attached'
  PROVE  Typed'
<1>1. TypeOK'
  BY ReturnTypes DEF Shared, TypeOK
<1>2. Placed'
  BY ReturnTypes DEF Placed, Typed
<1>3. \A v \in Workers : pc'[v] = "attach" => session'[target'[v]] # "none"
  BY ReturnTypes DEF Typed
<1> QED BY <1>1, <1>2, <1>3 DEF Typed, Sold

\* Likewise one that goes on with nothing in hand but its claims.
LEMMA ForgotTyped ==
  ASSUME Typed, NEW w \in Workers, NEW step \in {"checkout", "processed", "failed"},
         Go(w, step), Forget(w), UNCHANGED batch, Shared', Sold', UNCHANGED <<session, attached>>,
         step = "checkout" => job[w] \in {"start", "cancel"},
         step \in {"processed", "failed"} => job[w] = "inbox"
  PROVE  Typed'
<1>1. /\ pc' = [pc EXCEPT ![w] = step] /\ job' = job
      /\ step \in Steps /\ pc' \in [Workers -> Steps]
  BY DEF Go, Steps, Typed, TypeOK
<1>2. TypeOK'
  BY <1>1, ForgetTypes DEF Shared, Typed, TypeOK
<1>3. Placed'
  BY <1>1, ForgetTypes DEF Placed, Typed, TypeOK
<1>4. \A v \in Workers : pc'[v] = "attach" => session'[target'[v]] # "none"
  BY <1>1, ForgetTypes DEF Typed, TypeOK
<1> QED BY <1>2, <1>3, <1>4 DEF Typed, Sold

\* And one that becomes a reconciliation like any other.
LEMMA ReconcileTyped ==
  ASSUME Typed, NEW w \in Workers, Reconcile(w), Shared', Sold', UNCHANGED <<session, attached>>
  PROVE  Typed'
<1>1. /\ pc' = [pc EXCEPT ![w] = "reconcile"] /\ job' = [job EXCEPT ![w] = "scheduled"]
      /\ Forget(w) /\ batch' = batch
  BY DEF Reconcile
<1>2. /\ "reconcile" \in Steps /\ pc' \in [Workers -> Steps]
      /\ "scheduled" \in Jobs /\ job' \in [Workers -> Jobs]
  BY <1>1 DEF Steps, Jobs, Typed, TypeOK
<1>3. TypeOK'
  BY <1>1, <1>2, ForgetTypes DEF Shared, Typed, TypeOK
<1>4. Placed'
  BY <1>1, ForgetTypes DEF Placed, Typed, TypeOK
<1>5. \A v \in Workers : pc'[v] = "attach" => session'[target'[v]] # "none"
  BY <1>1, ForgetTypes DEF Typed, TypeOK
<1> QED BY <1>3, <1>4, <1>5 DEF Typed, Sold

\* Or one that moves on within its request.
LEMMA WentTyped ==
  ASSUME Typed, NEW w \in Workers, NEW step \in {"find", "create", "close", "event"},
         Go(w, step), step = "find" => job[w] \in {"start", "cancel"},
         step = "event" => job[w] = "inbox",
         \A v \in Workers : batch'[v] # {} \/ batch'[v] = batch[v],
         UNCHANGED <<snap, todo, target>>, Shared', Sold', UNCHANGED <<session, attached>>,
         seen' \in [Workers -> {"none", "open", "complete", "expired"}],
         batch' \in [Workers -> SUBSET [of : Events, try : Nat, turn : Nat]]
  PROVE  Typed'
<1>1. /\ pc' = [pc EXCEPT ![w] = step] /\ job' = job
      /\ step \in Steps /\ pc' \in [Workers -> Steps]
  BY DEF Go, Steps, Typed, TypeOK
<1>2. TypeOK'
  BY <1>1 DEF Shared, Typed, TypeOK
<1>3. Placed'
  BY <1>1 DEF Placed, Typed, TypeOK
<1>4. \A v \in Workers : pc'[v] = "attach" => session'[target'[v]] # "none"
  BY <1>1 DEF Typed, TypeOK
<1> QED BY <1>2, <1>3, <1>4 DEF Typed, Sold

LEMMA UnlockType ==
  ASSUME Typed, NEW w \in Workers, Unlock(w)
  PROVE  lock' \in Workers \cup {NoOne} /\ lockLost' \in BOOLEAN
BY DEF Unlock, Typed, TypeOK

LEMMA StatusType ==
  ASSUME Typed, NEW a, NEW to \in {"completed", "expired", "failed"}, SetStatus(a, to)
  PROVE  attempt' \in [Attempts -> {"none", "open", "completed", "expired", "failed"}]
BY DEF SetStatus, Typed, TypeOK

LEMMA TypedStep == Typed /\ [Next]_vars => Typed'
<1> SUFFICES ASSUME Typed, [Next]_vars PROVE Typed'
  OBVIOUS
<1> USE DEF Typed, TypeOK, Placed
<1>1. ASSUME NEW w \in Workers, AcquireLock(w) PROVE Typed'
  BY <1>1 DEF AcquireLock, Steps, stripe, inbox, ledger, plan, local
<1>2. ASSUME NEW w \in Workers, LoseLock(w) PROVE Typed'
  BY <1>2, BillingAssumption DEF LoseLock, Fault, stripe, inbox, ledger, plan, local
<1>3. ASSUME NEW w \in Workers, ListSubscriptions(w) PROVE Typed'
  BY <1>3 DEF ListSubscriptions, Steps, Listing, stripe, inbox, ledger, plan, mutex
<1>4. ASSUME NEW w \in Workers, Upsert(w) PROVE Typed'
  BY <1>4 DEF Upsert, Steps, Listing, stripe, inbox, ledger, mutex
<1>5. ASSUME NEW w \in Workers, SetCurrent(w) PROVE Typed'
  BY <1>5, CurrentType DEF SetCurrent, Steps, Listing, stripe, inbox, ledger, mutex, local
<1>6. ASSUME NEW w \in Workers, CompleteAttempt(w) PROVE Typed'
  BY <1>6 DEF CompleteAttempt, Open, Steps, stripe, inbox, plan, mutex, local
<1>7. ASSUME NEW w \in Workers, Materialize(w) PROVE Typed'
  <2>1. Shared' /\ Sold' /\ UNCHANGED <<session, attached>>
    <3>1. granted' \in SubStatus
      BY <1>7, BillingAssumption DEF Materialize, SubStatus, Attempts
    <3>2. seenUpTo' \in [projected : 0..MaxEvents, granted : 0..MaxEvents]
      BY <1>7 DEF Materialize
    <3> QED BY <1>7, <3>1, <3>2, UnlockType DEF Materialize, Shared, Sold, stripe, inbox, ledger
  <2>2. CASE job[w] = "start"
    BY <1>7, <2>1, <2>2, ForgotTyped DEF Materialize
  <2>3. CASE job[w] = "inbox"
    BY <1>7, <2>1, <2>3, ForgotTyped DEF Materialize
  <2>4. CASE job[w] \notin {"start", "inbox"}
    BY <1>7, <2>1, <2>4, DoneTyped DEF Materialize
  <2> QED BY <2>2, <2>3, <2>4
<1>8. ASSUME NEW w \in Workers, NEW j \in Jobs, Schedule(w, j) PROVE Typed'
  BY <1>8 DEF Schedule, Begin, Steps, Jobs, stripe, inbox, ledger, plan, mutex, local
<1>9. ASSUME NEW w \in Workers, NEW ks \in SUBSET Events, ClaimEvents(w, ks) PROVE Typed'
  <2>1. PICK turn \in Orders(ks) :
        /\ pc' = [pc EXCEPT ![w] = "event"] /\ job' = [job EXCEPT ![w] = "inbox"]
        /\ batch' = [batch EXCEPT ![w] =
             {[of |-> k, try |-> tries[k] + 1, turn |-> turn[k]] : k \in ks}]
        /\ UNCHANGED <<stripe, ledger, plan, mutex, snap, todo, target, seen>>
    BY <1>9 DEF ClaimEvents, Begin
  <2>2. /\ {[of |-> k, try |-> tries[k] + 1, turn |-> turn[k]] : k \in ks}
             \in SUBSET [of : Events, try : Nat, turn : Nat]
        /\ ks # {}
    BY <1>9 DEF ClaimEvents, Orders
  <2>3. /\ row' \in [Events -> {"absent", "pending", "processing", "failed", "dead", "processed"}]
        /\ tries' \in [Events -> Nat] /\ faults' \in 0..MaxFaults
    BY <1>9, BillingAssumption DEF ClaimEvents, Fault
  <2>4. TypeOK'
    BY <2>1, <2>2, <2>3 DEF Steps, Jobs, stripe, ledger, plan, mutex
  <2>5. /\ attached' = attached /\ batch'[w] # {} /\ pc'[w] = "event" /\ job'[w] = "inbox"
        /\ \A v \in Workers \ {w} :
             pc'[v] = pc[v] /\ job'[v] = job[v] /\ batch'[v] = batch[v] /\ target'[v] = target[v]
    <3>1. batch'[w] = {[of |-> k, try |-> tries[k] + 1, turn |-> turn[k]] : k \in ks}
      BY <2>1
    <3>2. PICK k \in ks : TRUE
      BY <2>2
    <3>3. [of |-> k, try |-> tries[k] + 1, turn |-> turn[k]] \in batch'[w]
      BY <3>1
    <3> QED BY <2>1, <3>3 DEF ledger
  <2>6. Placed'
    BY <2>5
  <2> QED BY <2>1, <2>4, <2>5, <2>6 DEF stripe, ledger
<1>10. ASSUME NEW w \in Workers, NextEvent(w) PROVE Typed'
  BY <1>10 DEF NextEvent, Open, Steps, stripe, inbox, plan, mutex, local
<1>11. ASSUME NEW w \in Workers, MarkProcessed(w) PROVE Typed'
  <2>1. PICK to \in {"processed", "dead", "failed"} : SettleEvent(w, to)
    BY <1>11 DEF MarkProcessed
  <2>2. row' \in [Events -> {"absent", "pending", "processing", "failed", "dead", "processed"}]
    BY <2>1 DEF SettleEvent
  <2>3. Shared' /\ Sold' /\ UNCHANGED <<session, attached>>
    BY <2>1, <2>2 DEF SettleEvent, Shared, Sold, stripe, ledger, plan, mutex
  <2>4. CASE batch[w] = {First(w)}
    BY <2>1, <2>3, <2>4, DoneTyped DEF SettleEvent
  <2>5. CASE batch[w] # {First(w)}
    <3>1. batch' \in [Workers -> SUBSET [of : Events, try : Nat, turn : Nat]]
      BY <2>1, <2>5 DEF SettleEvent
    <3>2. \A v \in Workers : batch'[v] # {} \/ batch'[v] = batch[v]
      BY <1>11, <2>1, <2>5 DEF MarkProcessed, MarkFailed, SettleEvent
    <3> QED BY <1>11, <2>1, <2>3, <2>5, <3>1, <3>2, WentTyped DEF MarkProcessed, MarkFailed, SettleEvent
  <2> QED BY <2>4, <2>5
<1>12. ASSUME NEW w \in Workers, MarkFailed(w) PROVE Typed'
  <2>1. PICK to \in {"processed", "dead", "failed"} : SettleEvent(w, to)
    BY <1>12 DEF MarkFailed
  <2>2. row' \in [Events -> {"absent", "pending", "processing", "failed", "dead", "processed"}]
    BY <2>1 DEF SettleEvent
  <2>3. Shared' /\ Sold' /\ UNCHANGED <<session, attached>>
    BY <2>1, <2>2 DEF SettleEvent, Shared, Sold, stripe, ledger, plan, mutex
  <2>4. CASE batch[w] = {First(w)}
    BY <2>1, <2>3, <2>4, DoneTyped DEF SettleEvent
  <2>5. CASE batch[w] # {First(w)}
    <3>1. batch' \in [Workers -> SUBSET [of : Events, try : Nat, turn : Nat]]
      BY <2>1, <2>5 DEF SettleEvent
    <3>2. \A v \in Workers : batch'[v] # {} \/ batch'[v] = batch[v]
      BY <1>12, <2>1, <2>5 DEF MarkProcessed, MarkFailed, SettleEvent
    <3> QED BY <1>12, <2>1, <2>3, <2>5, <3>1, <3>2, WentTyped DEF MarkProcessed, MarkFailed, SettleEvent
  <2> QED BY <2>4, <2>5
<1>13. ASSUME NEW w \in Workers, CheckCurrent(w) PROVE Typed'
  <2>1. Shared' /\ Sold' /\ UNCHANGED <<session, attached>>
    BY <1>13, UnlockType DEF CheckCurrent, Shared, Sold, stripe, inbox, ledger, plan, mutex
  <2>2. CASE Return(w)
    BY <2>1, <2>2, DoneTyped
  <2>3. CASE Go(w, "find") /\ UNCHANGED local
    BY <1>13, <2>1, <2>3, WentTyped DEF CheckCurrent, local
  <2> QED BY <1>13, <2>2, <2>3 DEF CheckCurrent
<1>14. ASSUME NEW w \in Workers, FindNone(w) PROVE Typed'
  <2>1. Shared' /\ Sold' /\ UNCHANGED <<session, attached>>
    BY <1>14, UnlockType DEF FindNone, Shared, Sold, stripe, inbox, ledger, plan, mutex
  <2>2. CASE job[w] = "start"
    BY <1>14, <2>1, <2>2, WentTyped DEF FindNone, local
  <2>3. CASE job[w] # "start"
    BY <1>14, <2>1, <2>3, DoneTyped DEF FindNone
  <2> QED BY <2>2, <2>3
<1>15. ASSUME NEW w \in Workers, ReuseAttempt(w) PROVE Typed'
  <2>1. Shared' /\ Sold' /\ UNCHANGED <<session, attached>>
    BY <1>15, UnlockType DEF ReuseAttempt, Shared, Sold, stripe, inbox, ledger, plan
  <2> QED BY <1>15, <2>1, DoneTyped DEF ReuseAttempt
<1>16. ASSUME NEW w \in Workers, CloseOpen(w) PROVE Typed'
  BY <1>16, BillingAssumption DEF CloseOpen, Steps, Attempts, stripe, inbox, ledger, plan, mutex
<1>17. ASSUME NEW w \in Workers, ExpireSession(w) PROVE Typed'
  BY <1>17, EndSessionTypes DEF ExpireSession, Steps, inbox, ledger, plan, mutex, local
<1>18. ASSUME NEW w \in Workers, LookupSession(w) PROVE Typed'
  <2>1. Shared' /\ Sold' /\ UNCHANGED <<session, attached>>
    BY <1>18 DEF LookupSession, Shared, Sold, stripe, inbox, ledger, plan, mutex
  <2>2. session[target[w]] \in {"open", "complete", "expired"}
    BY <1>18 DEF LookupSession
  <2> DEFINE keep == /\ seen' = [seen EXCEPT ![w] = session[target[w]]]
                     /\ UNCHANGED <<snap, todo, batch, target>>
  <2>3. CASE Go(w, "close") /\ keep
    <3>1. seen' \in [Workers -> {"none", "open", "complete", "expired"}]
      BY <2>2, <2>3
    <3> QED BY <2>1, <2>3, <3>1, WentTyped
  <2>4. CASE Reconcile(w)
    BY <2>1, <2>4, ReconcileTyped
  <2>5. CASE Return(w)
    BY <2>1, <2>5, DoneTyped
  <2>6. CASE Go(w, "expire") /\ keep /\ job[w] = "sweep"
    BY <1>18, <2>1, <2>2, <2>6 DEF LookupSession, Go, Steps, Shared, Sold
  <2>7. job[w] \in {"start", "cancel", "return", "sweep"}
    BY <1>18 DEF LookupSession
  <2> QED BY <1>18, <2>2, <2>3, <2>4, <2>5, <2>6, <2>7 DEF LookupSession
<1>19. ASSUME NEW w \in Workers, CloseAttempt(w) PROVE Typed'
  <2>1. Shared' /\ Sold' /\ UNCHANGED <<session, attached>>
    <3>1. attempt' \in [Attempts -> {"none", "open", "completed", "expired", "failed"}]
      BY <1>19, StatusType DEF CloseAttempt
    <3>2. lock' \in Workers \cup {NoOne} /\ lockLost' \in BOOLEAN
      BY <1>19, UnlockType DEF CloseAttempt, mutex
    <3>3. writtenOff' \in SUBSET Attempts
      BY <1>19 DEF CloseAttempt
    <3> QED BY <1>19, <3>1, <3>2, <3>3 DEF CloseAttempt, Shared, Sold, stripe, inbox, plan
  <2>2. CASE Go(w, "create") /\ UNCHANGED local
    BY <2>1, <2>2, WentTyped DEF local
  <2>3. CASE Reconcile(w)
    BY <2>1, <2>3, ReconcileTyped
  <2>4. CASE Return(w)
    BY <2>1, <2>4, DoneTyped
  <2> QED BY <1>19, <2>2, <2>3, <2>4 DEF CloseAttempt
<1>20. ASSUME NEW w \in Workers, CreateAttempt(w) PROVE Typed'
  <2>1. CASE (\E a \in Attempts : Open(a)) \/ Created = MaxAttempts
    <3>1. Shared' /\ Sold' /\ UNCHANGED <<session, attached>>
      BY <1>20, <2>1, UnlockType DEF CreateAttempt, Shared, Sold, stripe, inbox
    <3> QED BY <1>20, <2>1, <3>1, DoneTyped DEF CreateAttempt
  <2>2. CASE ~((\E a \in Attempts : Open(a)) \/ Created = MaxAttempts)
    <3>1. Created + 1 \in Attempts /\ Attempts \subseteq 0..MaxAttempts
      BY <2>2, CreatedType, BillingAssumption DEF Attempts
    <3>2. attempt' \in [Attempts -> {"none", "open", "completed", "expired", "failed"}]
      BY <1>20, <2>2 DEF CreateAttempt
    <3>3. /\ target' = [target EXCEPT ![w] = Created + 1] /\ target' \in [Workers -> 0..MaxAttempts]
          /\ seen' \in [Workers -> {"none", "open", "complete", "expired"}]
          /\ pc' = [pc EXCEPT ![w] = "session"] /\ job' = job /\ pc' \in [Workers -> Steps]
      <4>1. /\ target' = [target EXCEPT ![w] = Created + 1]
            /\ seen' = [seen EXCEPT ![w] = "none"] /\ Go(w, "session")
        BY <1>20, <2>2 DEF CreateAttempt
      <4> QED BY <3>1, <4>1 DEF Go, Steps
    <3>4. UNCHANGED <<stripe, inbox, attached, writtenOff, known, current, granted, seenUpTo, mutex, snap, todo,
                      batch, faults>> /\ bound' \in BOOLEAN
      BY <1>20, <2>2 DEF CreateAttempt
    <3>5. TypeOK'
      BY <3>2, <3>3, <3>4 DEF stripe, inbox, mutex
    <3>6. Placed'
      BY <3>1, <3>3, <3>4
    <3> QED BY <3>3, <3>4, <3>5, <3>6 DEF stripe
  <2> QED BY <2>1, <2>2
<1>21. ASSUME NEW w \in Workers, CreateSession(w) PROVE Typed'
  BY <1>21 DEF CreateSession, Steps, inbox, ledger, plan, mutex, local
<1>22. ASSUME NEW w \in Workers, AttachSession(w) PROVE Typed'
  <2>1. Shared' /\ Sold' /\ UNCHANGED session /\ attached \subseteq attached'
    BY <1>22, UnlockType DEF AttachSession, Shared, Sold, stripe, inbox, plan
  <2> QED BY <1>22, <2>1, DoneTyped DEF AttachSession
<1>23. ASSUME NEW w \in Workers, AbortAttempt(w) PROVE Typed'
  <2>1. Shared' /\ Sold' /\ UNCHANGED <<session, attached>>
    BY <1>23, UnlockType, StatusType DEF AbortAttempt, Shared, Sold, stripe, inbox, plan
  <2> QED BY <1>23, <2>1, DoneTyped DEF AbortAttempt
<1>24. ASSUME NEW w \in Workers, CreateFails(w) PROVE Typed'
  BY <1>24, BillingAssumption DEF CreateFails, Fault, Steps, inbox, ledger, plan, mutex, local
<1>25. ASSUME NEW w \in Workers, Fails(w) PROVE Typed'
  <2>1. Shared' /\ Sold' /\ UNCHANGED <<session, attached>>
    BY <1>25, UnlockType, BillingAssumption DEF Fails, Fault, Shared, Sold, stripe, inbox, ledger, plan
  <2>2. CASE job[w] = "inbox"
    BY <1>25, <2>1, <2>2, ForgotTyped DEF Fails
  <2>3. CASE job[w] # "inbox"
    BY <1>25, <2>1, <2>3, DoneTyped DEF Fails
  <2> QED BY <2>2, <2>3
<1>26. ASSUME NEW w \in Workers, Crash(w) PROVE Typed'
  <2>1. Shared' /\ Sold' /\ UNCHANGED <<session, attached>>
    BY <1>26, UnlockType, BillingAssumption DEF Crash, Fault, Shared, Sold, stripe, inbox, ledger, plan
  <2> QED BY <1>26, <2>1, DoneTyped DEF Crash
<1>27. ASSUME NEW w \in Workers, StartCheckout(w) PROVE Typed'
  BY <1>27 DEF StartCheckout, Begin, Steps, Jobs, stripe, inbox, ledger, plan, mutex, local
<1>28. ASSUME NEW w \in Workers, CancelCheckout(w) PROVE Typed'
  BY <1>28 DEF CancelCheckout, Begin, Steps, Jobs, stripe, inbox, ledger, plan, mutex, local
<1>29. ASSUME NEW w \in Workers, NEW a \in Attempts, ConfirmReturn(w, a) PROVE Typed'
  BY <1>29, BillingAssumption DEF ConfirmReturn, Begin, Steps, Jobs, Attempts, stripe, inbox, ledger, plan, mutex
<1>30. ASSUME NEW w \in Workers, NEW a \in Attempts, Sweep(w, a) PROVE Typed'
  <2>1. /\ pc[w] = "idle" /\ job' = [job EXCEPT ![w] = "sweep"]
        /\ pc' = [pc EXCEPT ![w] = IF a \in attached THEN "lookup" ELSE "close"]
        /\ target' = [target EXCEPT ![w] = a]
        /\ UNCHANGED <<stripe, inbox, ledger, plan, mutex, snap, todo, batch, seen, faults>>
    BY <1>30 DEF Sweep, Begin
  <2>2. a \in 0..MaxAttempts
    BY BillingAssumption DEF Attempts
  <2>3. TypeOK'
    BY <2>1, <2>2 DEF Steps, Jobs, stripe, inbox, ledger, plan, mutex
  <2>4. Placed'
    BY <2>1 DEF ledger
  <2> QED BY <2>1, <2>3, <2>4 DEF stripe, ledger
<1>31. ASSUME NEW a \in Attempts, Pay(a) PROVE Typed'
  BY <1>31, CreatedType, BillingAssumption DEF Pay, Announce, SubStatus, inbox, ledger, plan, mutex, local
<1>32. ASSUME NEW a \in Attempts, ChangeSubscription(a) PROVE Typed'
  BY <1>32, BillingAssumption DEF ChangeSubscription, Announce, inbox, ledger, plan, mutex, local
<1>33. ASSUME NEW a \in Attempts, SessionExpires(a) PROVE Typed'
  BY <1>33, EndSessionTypes DEF SessionExpires, inbox, ledger, plan, mutex, local
<1>34. ASSUME NEW k \in Events, ReceiveEvent(k) PROVE Typed'
  BY <1>34 DEF ReceiveEvent, stripe, ledger, plan, mutex, local
<1>35. ASSUME NEW k \in Events, RetryEvent(k) PROVE Typed'
  BY <1>35 DEF RetryEvent, stripe, ledger, plan, mutex, local
<1>36. CASE UNCHANGED vars
  BY <1>36 DEF vars, stripe, inbox, ledger, plan, mutex, local
<1> QED
  BY <1>1, <1>2, <1>3, <1>4, <1>5, <1>6, <1>7, <1>8, <1>9, <1>10, <1>11, <1>12, <1>13, <1>14, <1>15, <1>16, <1>17, <1>18, <1>19, <1>20, <1>21, <1>22, <1>23, <1>24, <1>25, <1>26, <1>27, <1>28, <1>29, <1>30, <1>31, <1>32, <1>33, <1>34, <1>35, <1>36
     DEF Next, Step, ReconcileStep, InboxStep, CheckoutStep

\* The types hold, for any numbers of workers, purchases and faults.
THEOREM TypeCorrect == Spec => []TypeOK
<1>1. Typed => TypeOK
  BY DEF Typed
<1> QED BY <1>1, TypedInit, TypedStep, PTL DEF Spec

-----------------------------------------------------------------------------
(* The steps, as seen from the projection *)

Guarded == {"list", "upsert", "setCurrent", "complete", "materialize"}

OthersStay(w) ==
  \A v \in Workers \ {w} :
    pc'[v] = pc[v] /\ job'[v] = job[v] /\ snap'[v] = snap[v] /\ batch'[v] = batch[v]

\* A worker's step outside the reconciliation, which marks nothing processed.
Apart(w) ==
  /\ UNCHANGED <<seenUpTo, lockLost>>
  /\ OthersStay(w)
  /\ pc'[w] \notin Guarded \cup {"processed"}
  /\ snap'[w] \in {snap[w], Nothing} /\ batch'[w] \subseteq batch[w]
  /\ lock' = lock \/ (lock = w /\ lock' = NoOne)
  /\ \A k \in Events : row'[k] = row[k] \/ (row'[k] # "processed" /\ \E b \in batch[w] : k = b.of)

\* A step of Stripe, the customer or an operator.
Outside ==
  /\ UNCHANGED <<seenUpTo, mutex, pc, job, snap, batch>>
  /\ \A k \in Events :
       row'[k] = row[k] \/ (row'[k] # "processed" /\ (row[k] # "absent" \/ k <= version))

LEMMA Leaving ==
  ASSUME Typed, NEW w \in Workers, Return(w)
  PROVE  /\ OthersStay(w) /\ pc'[w] = "idle" /\ snap'[w] = Nothing /\ batch'[w] = {}
BY DEF Return, Forget, OthersStay, Typed, TypeOK

LEMMA Forgetting ==
  ASSUME Typed, NEW w \in Workers, NEW step, Go(w, step), Forget(w), UNCHANGED batch
  PROVE  /\ OthersStay(w) /\ pc'[w] = step /\ snap'[w] = Nothing /\ batch'[w] = batch[w]
BY DEF Go, Forget, OthersStay, Typed, TypeOK

LEMMA Reconciling ==
  ASSUME Typed, NEW w \in Workers, Reconcile(w)
  PROVE  /\ OthersStay(w) /\ pc'[w] = "reconcile" /\ snap'[w] = Nothing /\ batch'[w] = batch[w]
BY DEF Reconcile, Forget, OthersStay, Typed, TypeOK

LEMMA Going ==
  ASSUME Typed, NEW w \in Workers, NEW step, pc' = [pc EXCEPT ![w] = step],
         UNCHANGED <<job, snap, batch>>
  PROVE  /\ OthersStay(w) /\ pc'[w] = step /\ snap'[w] = snap[w] /\ batch'[w] = batch[w]
BY DEF OthersStay, Typed, TypeOK

LEMMA Beginning ==
  ASSUME Typed, NEW w \in Workers, NEW step, NEW j, Begin(w, j, step), UNCHANGED <<snap, batch>>
  PROVE  /\ OthersStay(w) /\ pc'[w] = step /\ snap'[w] = snap[w] /\ batch'[w] = batch[w]
BY DEF Begin, OthersStay, Typed, TypeOK

LEMMA ApartSteps ==
  ASSUME Typed, NEW w \in Workers,
         \/ NextEvent(w) \/ MarkFailed(w) \/ CheckoutStep(w)
         \/ CreateFails(w) \/ Fails(w) \/ Crash(w) \/ StartCheckout(w) \/ CancelCheckout(w)
         \/ \E a \in Attempts : ConfirmReturn(w, a) \/ Sweep(w, a)
         \/ \E j \in Jobs : Schedule(w, j)
  PROVE  Apart(w)
<1> USE DEF Apart, Guarded
<1>1. ASSUME NextEvent(w) PROVE Apart(w)
  BY <1>1, Going DEF NextEvent, plan, mutex, local, inbox
<1>2. ASSUME CheckCurrent(w) PROVE Apart(w)
  BY <1>2, Leaving, Going DEF CheckCurrent, Unlock, Go, plan, mutex, local, inbox
<1>3. ASSUME FindNone(w) PROVE Apart(w)
  BY <1>3, Leaving, Going DEF FindNone, Unlock, Go, plan, mutex, local, inbox
<1>4. ASSUME ReuseAttempt(w) PROVE Apart(w)
  BY <1>4, Leaving DEF ReuseAttempt, Unlock, plan, inbox
<1>5. ASSUME CloseOpen(w) PROVE Apart(w)
  BY <1>5, Going DEF CloseOpen, plan, mutex, inbox
<1>6. ASSUME ExpireSession(w) PROVE Apart(w)
  BY <1>6, Going DEF ExpireSession, plan, mutex, local, inbox
<1>7. ASSUME LookupSession(w) PROVE Apart(w)
  <2>1. /\ session[target[w]] \in {"open", "complete", "expired"}
        /\ job[w] \in {"start", "cancel", "return", "sweep"}
    BY <1>7 DEF LookupSession, Typed, Placed, TypeOK
  <2>2. UNCHANGED <<seenUpTo, mutex, row>>
    BY <1>7 DEF LookupSession, plan, inbox
  <2>3. CASE Return(w)
    BY <2>2, <2>3, Leaving DEF mutex
  <2>4. CASE Reconcile(w)
    BY <2>2, <2>4, Reconciling DEF mutex
  <2>5. CASE (Go(w, "close") \/ Go(w, "expire")) /\ UNCHANGED <<snap, batch>>
    BY <2>2, <2>5, Going DEF Go, mutex
  <2> QED BY <1>7, <2>1, <2>3, <2>4, <2>5 DEF LookupSession
<1>8. ASSUME CloseAttempt(w) PROVE Apart(w)
  BY <1>8, Leaving, Reconciling, Going DEF CloseAttempt, Unlock, Go, plan, mutex, local, inbox
<1>9. ASSUME CreateAttempt(w) PROVE Apart(w)
  BY <1>9, Leaving, Going DEF CreateAttempt, Unlock, Go, mutex, inbox
<1>10. ASSUME CreateSession(w) PROVE Apart(w)
  BY <1>10, Going DEF CreateSession, plan, mutex, local, inbox
<1>11. ASSUME AttachSession(w) PROVE Apart(w)
  BY <1>11, Leaving DEF AttachSession, Unlock, plan, inbox
<1>12. ASSUME AbortAttempt(w) PROVE Apart(w)
  BY <1>12, Leaving DEF AbortAttempt, Unlock, plan, inbox
<1>13. ASSUME CreateFails(w) PROVE Apart(w)
  BY <1>13, Going DEF CreateFails, plan, mutex, local, inbox
<1>14. ASSUME Fails(w) PROVE Apart(w)
  BY <1>14, Leaving, Forgetting DEF Fails, Unlock, plan, inbox
<1>15. ASSUME Crash(w) PROVE Apart(w)
  BY <1>15, Leaving DEF Crash, Unlock, plan, inbox
<1>16. ASSUME StartCheckout(w) PROVE Apart(w)
  BY <1>16, Beginning DEF StartCheckout, plan, mutex, local, inbox
<1>17. ASSUME CancelCheckout(w) PROVE Apart(w)
  BY <1>17, Beginning DEF CancelCheckout, plan, mutex, local, inbox
<1>18. ASSUME NEW a \in Attempts, ConfirmReturn(w, a) PROVE Apart(w)
  BY <1>18, Beginning DEF ConfirmReturn, plan, mutex, inbox
<1>19. ASSUME NEW a \in Attempts, Sweep(w, a) PROVE Apart(w)
  BY <1>19, Beginning DEF Sweep, plan, mutex, inbox
<1>20. ASSUME NEW j \in Jobs, Schedule(w, j) PROVE Apart(w)
  BY <1>20, Beginning DEF Schedule, plan, mutex, local, inbox
<1>21. ASSUME MarkFailed(w) PROVE Apart(w)
  <2>1. PICK to \in {"dead", "failed"} : SettleEvent(w, to)
    BY <1>21 DEF MarkFailed
  <2>2. First(w) \in batch[w]
    BY <1>21, FirstOne DEF MarkFailed, Typed, Placed
  <2>3. \A k \in Events :
          row'[k] = row[k] \/ (row'[k] # "processed" /\ \E b \in batch[w] : k = b.of)
    BY <2>1, <2>2 DEF SettleEvent, Typed, TypeOK
  <2>4. UNCHANGED <<seenUpTo, mutex>>
    BY <2>1 DEF SettleEvent, plan
  <2>5. CASE batch[w] = {First(w)}
    BY <2>1, <2>3, <2>4, <2>5, Leaving DEF SettleEvent, mutex
  <2>6. CASE batch[w] # {First(w)}
    BY <2>1, <2>3, <2>4, <2>6 DEF SettleEvent, Go, OthersStay, mutex, Typed, TypeOK
  <2> QED BY <2>5, <2>6
<1> QED
  BY <1>1, <1>2, <1>3, <1>4, <1>5, <1>6, <1>7, <1>8, <1>9, <1>10, <1>11, <1>12, <1>13, <1>14, <1>15, <1>16, <1>17, <1>18, <1>19, <1>20, <1>21 DEF CheckoutStep

LEMMA OutsideSteps ==
  ASSUME Typed,
         \/ \E a \in Attempts : Pay(a) \/ ChangeSubscription(a) \/ SessionExpires(a)
         \/ \E k \in Events : ReceiveEvent(k) \/ RetryEvent(k)
         \/ UNCHANGED vars
  PROVE  Outside
BY DEF Outside, Pay, ChangeSubscription, SessionExpires, ReceiveEvent, RetryEvent, vars, inbox, plan,
       mutex, local, Typed, TypeOK

-----------------------------------------------------------------------------
(* Nothing is older at Stripe than here *)

\* Who was never bound has neither sessions nor subscriptions, and no event came.
Strangers ==
  bound \/ /\ version = 0 /\ \A a \in Attempts : session[a] = "none" /\ sub[a] = "none"
           /\ \A w \in Workers : pc[w] \notin {"session", "attach"}

LEMMA StrangersStep == Typed /\ Strangers /\ [Next]_vars => Strangers'
<1> SUFFICES ASSUME Typed, Strangers, [Next]_vars PROVE Strangers'
  OBVIOUS
<1>t. TypeOK /\ Placed /\ \A a \in attached : session[a] # "none"
  BY DEF Typed
<1> USE DEF Strangers
<1>1. ASSUME NEW w \in Workers, AcquireLock(w) PROVE Strangers'
  BY <1>t, <1>1 DEF AcquireLock, stripe, plan, TypeOK
<1>2. ASSUME NEW w \in Workers, LoseLock(w) PROVE Strangers'
  BY <1>t, <1>2 DEF LoseLock, stripe, plan, TypeOK
<1>3. ASSUME NEW w \in Workers, ListSubscriptions(w) PROVE Strangers'
  BY <1>t, <1>3 DEF ListSubscriptions, stripe, plan, TypeOK
<1>4. ASSUME NEW w \in Workers, Upsert(w) PROVE Strangers'
  BY <1>t, <1>4 DEF Upsert, stripe, TypeOK
<1>5. ASSUME NEW w \in Workers, SetCurrent(w) PROVE Strangers'
  BY <1>t, <1>5 DEF SetCurrent, stripe, TypeOK
<1>6. ASSUME NEW w \in Workers, CompleteAttempt(w) PROVE Strangers'
  BY <1>t, <1>6 DEF CompleteAttempt, stripe, plan, TypeOK
<1>7. ASSUME NEW w \in Workers, Materialize(w) PROVE Strangers'
  BY <1>t, <1>7 DEF Materialize, Go, Return, stripe, TypeOK
<1>8. ASSUME NEW w \in Workers, NEW j \in Jobs, Schedule(w, j) PROVE Strangers'
  BY <1>t, <1>8 DEF Schedule, Begin, stripe, plan, TypeOK
<1>9. ASSUME NEW w \in Workers, NEW ks \in SUBSET Events, ClaimEvents(w, ks) PROVE Strangers'
  BY <1>t, <1>9 DEF ClaimEvents, Begin, stripe, plan, TypeOK
<1>10. ASSUME NEW w \in Workers, NextEvent(w) PROVE Strangers'
  BY <1>t, <1>10 DEF NextEvent, stripe, plan, TypeOK
<1>11. ASSUME NEW w \in Workers, MarkProcessed(w) PROVE Strangers'
  BY <1>t, <1>11 DEF MarkProcessed, SettleEvent, Go, Return, stripe, plan, TypeOK
<1>12. ASSUME NEW w \in Workers, MarkFailed(w) PROVE Strangers'
  BY <1>t, <1>12 DEF MarkFailed, SettleEvent, Go, Return, stripe, plan, TypeOK
<1>13. ASSUME NEW w \in Workers, CheckCurrent(w) PROVE Strangers'
  BY <1>t, <1>13 DEF CheckCurrent, Go, Return, stripe, plan, TypeOK
<1>14. ASSUME NEW w \in Workers, FindNone(w) PROVE Strangers'
  BY <1>t, <1>14 DEF FindNone, Go, Return, stripe, plan, TypeOK
<1>15. ASSUME NEW w \in Workers, ReuseAttempt(w) PROVE Strangers'
  BY <1>t, <1>15 DEF ReuseAttempt, Return, stripe, plan, TypeOK
<1>16. ASSUME NEW w \in Workers, CloseOpen(w) PROVE Strangers'
  BY <1>t, <1>16 DEF CloseOpen, stripe, plan, TypeOK
<1>17. ASSUME NEW w \in Workers, ExpireSession(w) PROVE Strangers'
  <2>1. session[target[w]] # "none" /\ target[w] \in Attempts
    BY <1>t, <1>17 DEF ExpireSession, Placed, TypeOK
  <2> QED BY <1>17, <2>1 DEF ExpireSession, plan
<1>18. ASSUME NEW w \in Workers, LookupSession(w) PROVE Strangers'
  <2>1. session[target[w]] # "none" /\ target[w] \in Attempts
    BY <1>t, <1>18 DEF LookupSession, Placed, TypeOK
  <2> QED BY <1>18, <2>1 DEF LookupSession, stripe, plan
<1>19. ASSUME NEW w \in Workers, CloseAttempt(w) PROVE Strangers'
  BY <1>t, <1>19 DEF CloseAttempt, Go, Return, Reconcile, stripe, plan, TypeOK
<1>20. ASSUME NEW w \in Workers, CreateAttempt(w) PROVE Strangers'
  BY <1>t, <1>20 DEF CreateAttempt, TypeOK
<1>21. ASSUME NEW w \in Workers, CreateSession(w) PROVE Strangers'
  BY <1>t, <1>21 DEF CreateSession, plan, TypeOK
<1>22. ASSUME NEW w \in Workers, AttachSession(w) PROVE Strangers'
  BY <1>t, <1>22 DEF AttachSession, Return, stripe, plan, TypeOK
<1>23. ASSUME NEW w \in Workers, AbortAttempt(w) PROVE Strangers'
  BY <1>t, <1>23 DEF AbortAttempt, Return, stripe, plan, TypeOK
<1>24. ASSUME NEW w \in Workers, CreateFails(w) PROVE Strangers'
  BY <1>t, <1>24 DEF CreateFails, plan, TypeOK
<1>25. ASSUME NEW w \in Workers, Fails(w) PROVE Strangers'
  BY <1>t, <1>25 DEF Fails, Go, Return, stripe, plan, TypeOK
<1>26. ASSUME NEW w \in Workers, Crash(w) PROVE Strangers'
  BY <1>t, <1>26 DEF Crash, Return, stripe, plan, TypeOK
<1>27. ASSUME NEW w \in Workers, StartCheckout(w) PROVE Strangers'
  BY <1>t, <1>27 DEF StartCheckout, Begin, stripe, plan, TypeOK
<1>28. ASSUME NEW w \in Workers, CancelCheckout(w) PROVE Strangers'
  BY <1>t, <1>28 DEF CancelCheckout, Begin, stripe, plan, TypeOK
<1>29. ASSUME NEW w \in Workers, NEW a \in Attempts, ConfirmReturn(w, a) PROVE Strangers'
  BY <1>t, <1>29 DEF ConfirmReturn, Begin, stripe, plan, TypeOK
<1>30. ASSUME NEW w \in Workers, NEW a \in Attempts, Sweep(w, a) PROVE Strangers'
  BY <1>t, <1>30 DEF Sweep, Begin, stripe, plan, TypeOK
<1>31. ASSUME NEW a \in Attempts, Pay(a) PROVE Strangers'
  BY <1>t, <1>31 DEF Pay, plan, TypeOK
<1>32. ASSUME NEW a \in Attempts, ChangeSubscription(a) PROVE Strangers'
  BY <1>t, <1>32 DEF ChangeSubscription, Live, plan, TypeOK
<1>33. ASSUME NEW a \in Attempts, SessionExpires(a) PROVE Strangers'
  BY <1>t, <1>33 DEF SessionExpires, plan, TypeOK
<1>34. ASSUME NEW k \in Events, ReceiveEvent(k) PROVE Strangers'
  BY <1>t, <1>34 DEF ReceiveEvent, stripe, plan, TypeOK
<1>35. ASSUME NEW k \in Events, RetryEvent(k) PROVE Strangers'
  BY <1>t, <1>35 DEF RetryEvent, stripe, plan, TypeOK
<1>36. CASE UNCHANGED vars
  BY <1>36 DEF vars, stripe, plan
<1> QED
  BY <1>1, <1>2, <1>3, <1>4, <1>5, <1>6, <1>7, <1>8, <1>9, <1>10, <1>11, <1>12, <1>13, <1>14, <1>15, <1>16, <1>17, <1>18, <1>19, <1>20, <1>21, <1>22, <1>23, <1>24, <1>25, <1>26, <1>27, <1>28, <1>29, <1>30, <1>31, <1>32, <1>33, <1>34, <1>35, <1>36
     DEF Next, Step, ReconcileStep, InboxStep, CheckoutStep

\* The steps that touch the projection, the entitlement or a claim, or take the lock.
Inside(w) ==
  \/ AcquireLock(w) \/ LoseLock(w) \/ ListSubscriptions(w) \/ Upsert(w) \/ SetCurrent(w)
  \/ CompleteAttempt(w) \/ Materialize(w) \/ MarkProcessed(w)
  \/ \E ks \in SUBSET Events : ClaimEvents(w, ks)

\* Every step is of one of the three kinds.
LEMMA Kinds ==
  ASSUME Typed, [Next]_vars
  PROVE  Outside \/ \E w \in Workers : Apart(w) \/ Inside(w)
<1>1. CASE \/ \E a \in Attempts : Pay(a) \/ ChangeSubscription(a) \/ SessionExpires(a)
           \/ \E k \in Events : ReceiveEvent(k) \/ RetryEvent(k)
           \/ UNCHANGED vars
  BY <1>1, OutsideSteps
<1>2. ASSUME NEW w \in Workers,
             \/ NextEvent(w) \/ MarkFailed(w) \/ CheckoutStep(w)
             \/ CreateFails(w) \/ Fails(w) \/ Crash(w) \/ StartCheckout(w) \/ CancelCheckout(w)
             \/ \E a \in Attempts : ConfirmReturn(w, a) \/ Sweep(w, a)
             \/ \E j \in Jobs : Schedule(w, j)
      PROVE  Apart(w)
  BY <1>2, ApartSteps
<1> QED BY <1>1, <1>2 DEF Next, Step, ReconcileStep, InboxStep, Inside

LEMMA InsideStripe ==
  ASSUME Typed, NEW w \in Workers, Inside(w)
  PROVE  UNCHANGED version
BY DEF Inside, AcquireLock, LoseLock, ListSubscriptions, Upsert, SetCurrent, CompleteAttempt,
       Materialize, MarkProcessed, SettleEvent, ClaimEvents, stripe

\* What Stripe did stays done.
LEMMA VersionGrows ==
  ASSUME Typed, [Next]_vars
  PROVE  version <= version'
<1>0. version \in Nat
  BY BillingAssumption DEF Typed, TypeOK
<1>1. ASSUME NEW w \in Workers, Inside(w) PROVE version <= version'
  BY <1>0, <1>1, InsideStripe
<1>2. ASSUME NEW a \in Attempts, Pay(a) \/ ChangeSubscription(a) PROVE version <= version'
  BY <1>0, <1>2 DEF Pay, ChangeSubscription, Announce
<1>3. ASSUME NEW a \in Attempts, SessionExpires(a) PROVE version <= version'
  BY <1>0, <1>3 DEF SessionExpires, EndSession
<1>4. ASSUME NEW w \in Workers, ExpireSession(w) PROVE version <= version'
  BY <1>0, <1>4 DEF ExpireSession, EndSession
<1>5. ASSUME NEW w \in Workers,
             \/ NextEvent(w) \/ MarkFailed(w) \/ CheckCurrent(w) \/ FindNone(w) \/ ReuseAttempt(w)
             \/ CloseOpen(w) \/ LookupSession(w) \/ CloseAttempt(w) \/ CreateAttempt(w)
             \/ AttachSession(w) \/ AbortAttempt(w) \/ CreateSession(w) \/ CreateFails(w)
      PROVE  version' = version
  BY <1>5 DEF NextEvent, MarkFailed, SettleEvent, CheckCurrent, FindNone, ReuseAttempt, CloseOpen,
       LookupSession, CloseAttempt, CreateAttempt, AttachSession, AbortAttempt, CreateSession,
       CreateFails, stripe
<1>6. ASSUME NEW w \in Workers,
             \/ Fails(w) \/ Crash(w) \/ StartCheckout(w) \/ CancelCheckout(w)
             \/ \E a \in Attempts : ConfirmReturn(w, a) \/ Sweep(w, a)
             \/ \E j \in Jobs : Schedule(w, j)
      PROVE  version' = version
  BY <1>6 DEF Fails, Crash, StartCheckout, CancelCheckout, ConfirmReturn, Sweep, Schedule, stripe
<1>7. ASSUME NEW k \in Events, ReceiveEvent(k) \/ RetryEvent(k) PROVE version' = version
  BY <1>7 DEF ReceiveEvent, RetryEvent, stripe
<1>8. CASE UNCHANGED vars
  BY <1>0, <1>8 DEF vars, stripe
<1> QED
  BY <1>0, <1>1, <1>2, <1>3, <1>4, <1>5, <1>6, <1>7, <1>8
     DEF Next, Step, ReconcileStep, InboxStep, CheckoutStep, Inside

Received ==
  /\ \A k \in Events : row[k] # "absent" => k <= version
  /\ \A w \in Workers : snap[w].at <= version /\ \A b \in batch[w] : b.of <= version
  /\ seenUpTo.projected <= version

LEMMA ReceivedStep == Typed /\ Received /\ [Next]_vars => Received'
<1> SUFFICES ASSUME Typed, Received, [Next]_vars PROVE Received'
  OBVIOUS
<1>t. TypeOK /\ Placed
  BY DEF Typed
<1>n. /\ version \in Nat /\ version' \in Nat /\ version <= version'
      /\ \A k \in Events : k \in Nat
      /\ \A w \in Workers : snap[w].at \in Nat /\ \A b \in batch[w] : b.of \in Nat
      /\ seenUpTo.projected \in Nat
  <2>1. TypeOK'
    BY TypedStep DEF Typed
  <2>2. version \in 0..MaxEvents /\ version' \in 0..MaxEvents /\ seenUpTo.projected \in 0..MaxEvents
    BY <1>t, <2>1 DEF TypeOK
  <2>3. \A w \in Workers : snap[w].at \in 0..MaxEvents /\ \A b \in batch[w] : b.of \in Events
    BY <1>t DEF TypeOK, Listing
  <2> QED BY <2>2, <2>3, VersionGrows, BillingAssumption DEF Events
<1> USE DEF Received
<1>1. CASE Outside
  BY <1>t, <1>n, <1>1 DEF Outside
<1>2. ASSUME NEW w \in Workers, Apart(w) PROVE Received'
  <2>1. Nothing.at = 0
    BY DEF Nothing
  <2> QED BY <1>t, <1>n, <1>2, <2>1 DEF Apart, OthersStay
<1>3. ASSUME NEW w \in Workers,
             AcquireLock(w) \/ LoseLock(w) \/ Upsert(w) \/ CompleteAttempt(w)
      PROVE  Received'
  BY <1>t, <1>n, <1>3 DEF AcquireLock, LoseLock, Upsert, CompleteAttempt, inbox, plan, local
<1>4. ASSUME NEW w \in Workers, ListSubscriptions(w) PROVE Received'
  <2>1. /\ UNCHANGED <<row, batch, seenUpTo, version>> /\ snap'[w].at = version
        /\ \A v \in Workers \ {w} : snap'[v] = snap[v]
    BY <1>t, <1>4 DEF ListSubscriptions, inbox, plan, stripe, TypeOK
  <2> QED BY <1>n, <2>1
<1>5. ASSUME NEW w \in Workers, SetCurrent(w) PROVE Received'
  BY <1>t, <1>n, <1>5 DEF SetCurrent, inbox, local, TypeOK
<1>6. ASSUME NEW w \in Workers, Materialize(w) PROVE Received'
  <2>1. UNCHANGED row /\ seenUpTo'.projected = seenUpTo.projected
    BY <1>t, <1>6 DEF Materialize, inbox, TypeOK
  <2>2. /\ snap'[w] = Nothing /\ batch'[w] \subseteq batch[w]
        /\ \A v \in Workers \ {w} : snap'[v] = snap[v] /\ batch'[v] = batch[v]
    BY <1>6, Leaving, Forgetting DEF Materialize, OthersStay
  <2>3. Nothing.at = 0
    BY DEF Nothing
  <2> QED BY <1>n, <2>1, <2>2, <2>3
<1>7. ASSUME NEW w \in Workers, MarkProcessed(w) PROVE Received'
  <2>1. First(w) \in batch[w]
    BY <1>7, <1>t, FirstOne DEF MarkProcessed, Placed
  <2>2. /\ UNCHANGED seenUpTo /\ row' = [row EXCEPT ![First(w).of] = "processed"]
    BY <1>7 DEF MarkProcessed, SettleEvent, plan
  <2>3. \A v \in Workers : snap'[v] \in {snap[v], Nothing} /\ batch'[v] \subseteq batch[v]
    <3>1. CASE batch[w] = {First(w)}
      BY <1>7, <3>1, Leaving DEF MarkProcessed, SettleEvent, OthersStay
    <3>2. CASE batch[w] # {First(w)}
      BY <1>7, <1>t, <3>2 DEF MarkProcessed, SettleEvent, TypeOK
    <3> QED BY <3>1, <3>2
  <2>4. \A k \in Events : row'[k] # "absent" => k <= version
    BY <1>t, <1>n, <2>1, <2>2 DEF TypeOK
  <2>5. Nothing.at = 0
    BY DEF Nothing
  <2> QED BY <1>n, <2>2, <2>3, <2>4, <2>5
<1>8. ASSUME NEW w \in Workers, NEW ks \in SUBSET Events, ClaimEvents(w, ks) PROVE Received'
  <2>1. PICK turn \in Orders(ks) :
        /\ UNCHANGED <<snap, seenUpTo>>
        /\ batch' = [batch EXCEPT ![w] =
             {[of |-> k, try |-> tries[k] + 1, turn |-> turn[k]] : k \in ks}]
    BY <1>8 DEF ClaimEvents, plan
  <2>2. /\ \A k \in ks : k \in Events /\ row[k] # "absent"
        /\ \A k \in Events : row'[k] # "absent" => row[k] # "absent"
    BY <1>8 DEF ClaimEvents
  <2>3. \A b \in batch'[w] : b.of <= version
    BY <1>t, <2>1, <2>2 DEF TypeOK
  <2>4. \A v \in Workers \ {w} : batch'[v] = batch[v]
    BY <1>t, <2>1 DEF TypeOK
  <2>5. \A b \in batch'[w] : b.of \in Nat
    BY <1>t, <1>n, <2>1, <2>2 DEF TypeOK
  <2> QED BY <1>n, <2>1, <2>2, <2>3, <2>4, <2>5
<1> QED
  BY <1>1, <1>2, <1>3, <1>4, <1>5, <1>6, <1>7, <1>8, Kinds DEF Inside

-----------------------------------------------------------------------------
(* The lock *)

Locked == lockLost \/ \A w \in Workers : pc[w] \in Guarded => lock = w

LEMMA LockedStep == Typed /\ Locked /\ [Next]_vars => Locked'
<1> SUFFICES ASSUME Typed, Locked, [Next]_vars PROVE Locked'
  OBVIOUS
<1>t. TypeOK /\ NoOne \notin Workers
  BY BillingAssumption DEF Typed
<1> USE DEF Locked, Guarded
<1>1. CASE Outside
  BY <1>1 DEF Outside, mutex
<1>2. ASSUME NEW w \in Workers, Apart(w) PROVE Locked'
  BY <1>2, <1>t DEF Apart, OthersStay
<1>3. ASSUME NEW w \in Workers, AcquireLock(w) PROVE Locked'
  BY <1>3, <1>t DEF AcquireLock, TypeOK
<1>4. ASSUME NEW w \in Workers, LoseLock(w) PROVE Locked'
  BY <1>4 DEF LoseLock
<1>5. ASSUME NEW w \in Workers,
             ListSubscriptions(w) \/ Upsert(w) \/ SetCurrent(w) \/ CompleteAttempt(w)
      PROVE  Locked'
  BY <1>5, <1>t DEF ListSubscriptions, Upsert, SetCurrent, CompleteAttempt, mutex, TypeOK
<1>6. ASSUME NEW w \in Workers, Materialize(w) PROVE Locked'
  <2>1. /\ pc'[w] \notin Guarded /\ OthersStay(w)
    BY <1>6, Leaving, Forgetting DEF Materialize
  <2>2. lockLost' = lockLost /\ (lock' = lock \/ lock = w)
    BY <1>6 DEF Materialize, Unlock
  <2> QED BY <2>1, <2>2 DEF OthersStay
<1>7. ASSUME NEW w \in Workers, MarkProcessed(w) PROVE Locked'
  <2>1. /\ pc'[w] \notin Guarded /\ \A v \in Workers \ {w} : pc'[v] = pc[v]
    BY <1>7, <1>t DEF MarkProcessed, SettleEvent, Go, Return, TypeOK
  <2> QED BY <1>7, <2>1 DEF MarkProcessed, SettleEvent, mutex
<1>8. ASSUME NEW w \in Workers, NEW ks \in SUBSET Events, ClaimEvents(w, ks) PROVE Locked'
  BY <1>8, <1>t DEF ClaimEvents, Begin, mutex, TypeOK
<1> QED
  BY <1>1, <1>2, <1>3, <1>4, <1>5, <1>6, <1>7, <1>8, Kinds DEF Inside

-----------------------------------------------------------------------------
(* What a worker read is as new as what is projected and what it was told *)

Applied ==
  lockLost \/
    /\ seenUpTo.granted <= seenUpTo.projected
    /\ \A k \in Events : row[k] = "processed" => k <= seenUpTo.granted
    /\ \A w \in Workers :
         /\ pc[w] \in {"upsert", "setCurrent"} =>
              seenUpTo.projected <= snap[w].at /\ \A b \in batch[w] : b.of <= snap[w].at
         /\ pc[w] \in {"complete", "materialize"} /\ job[w] = "inbox" =>
              \A b \in batch[w] : b.of <= seenUpTo.projected
         /\ pc[w] = "processed" => \A b \in batch[w] : b.of <= seenUpTo.granted

Sound == Typed /\ Strangers /\ Received /\ Locked /\ Applied

LEMMA AppliedStep == Sound /\ [Next]_vars => Applied'
<1> SUFFICES ASSUME Sound, [Next]_vars, ~lockLost' PROVE Applied'
  BY DEF Applied
<1>t. Typed /\ TypeOK /\ Placed
  BY DEF Sound, Typed
<1>n. /\ version \in Nat /\ seenUpTo.projected \in Nat /\ seenUpTo.granted \in Nat
      /\ \A k \in Events : k \in Nat
      /\ \A w \in Workers : snap[w].at \in Nat /\ \A b \in batch[w] : b.of \in Nat /\ b.of > 0
  <2>1. version \in 0..MaxEvents /\ seenUpTo \in [projected : 0..MaxEvents, granted : 0..MaxEvents]
    BY <1>t DEF TypeOK
  <2>2. \A w \in Workers : snap[w].at \in 0..MaxEvents /\ \A b \in batch[w] : b.of \in Events
    BY <1>t DEF TypeOK, Listing
  <2> QED BY <2>1, <2>2, BillingAssumption DEF Events
<1>k. ~lockLost
  <2>1. ASSUME NEW w \in Workers, Inside(w) PROVE ~lockLost
    BY <2>1 DEF Inside, AcquireLock, LoseLock, ListSubscriptions, Upsert, SetCurrent,
         CompleteAttempt, Materialize, Unlock, MarkProcessed, SettleEvent, ClaimEvents, mutex
  <2> QED BY <1>t, <2>1, Kinds DEF Outside, Apart, mutex
<1>a. /\ seenUpTo.granted <= seenUpTo.projected
      /\ \A k \in Events : row[k] = "processed" => k <= seenUpTo.granted
      /\ \A w \in Workers :
           /\ pc[w] \in {"upsert", "setCurrent"} =>
                seenUpTo.projected <= snap[w].at /\ \A b \in batch[w] : b.of <= snap[w].at
           /\ pc[w] \in {"complete", "materialize"} /\ job[w] = "inbox" =>
                \A b \in batch[w] : b.of <= seenUpTo.projected
           /\ pc[w] = "processed" => \A b \in batch[w] : b.of <= seenUpTo.granted
  BY <1>k DEF Sound, Applied
<1>l. \A w \in Workers : pc[w] \in Guarded => lock = w
  BY <1>k DEF Sound, Locked
<1> USE DEF Applied
<1>1. CASE Outside
  BY <1>a, <1>1 DEF Outside
<1>2. ASSUME NEW w \in Workers, Apart(w) PROVE Applied'
  BY <1>a, <1>2 DEF Apart, OthersStay, Guarded
<1>3. ASSUME NEW w \in Workers, AcquireLock(w) PROVE Applied'
  <2>1. /\ UNCHANGED <<seenUpTo, row, snap, batch, job>>
        /\ \A v \in Workers \ {w} : pc'[v] = pc[v]
        /\ pc'[w] \in {"list", "materialize", "guard", "find"}
        /\ pc'[w] = "materialize" => ~bound \/ job[w] = "deadline"
    BY <1>t, <1>3 DEF AcquireLock, inbox, plan, local, TypeOK
  <2>2. ~bound => \A b \in batch[w] : FALSE
    BY <1>n DEF Sound, Strangers, Received
  <2> QED BY <1>a, <2>1, <2>2
<1>4. ASSUME NEW w \in Workers, LoseLock(w) PROVE Applied'
  BY <1>4 DEF LoseLock
<1>5. ASSUME NEW w \in Workers, ListSubscriptions(w) PROVE Applied'
  <2>1. /\ UNCHANGED <<seenUpTo, row, batch, job>> /\ snap'[w].at = version
        /\ pc'[w] \in {"upsert", "setCurrent"}
        /\ \A v \in Workers \ {w} : pc'[v] = pc[v] /\ snap'[v] = snap[v]
    BY <1>t, <1>5 DEF ListSubscriptions, inbox, plan, TypeOK
  <2>2. seenUpTo.projected <= version /\ \A b \in batch[w] : b.of <= version
    BY DEF Sound, Received
  <2> QED BY <1>a, <2>1, <2>2
<1>6. ASSUME NEW w \in Workers, Upsert(w) PROVE Applied'
  <2>1. /\ UNCHANGED <<seenUpTo, row, snap, batch, job>>
        /\ pc[w] = "upsert" /\ pc'[w] \in {"upsert", "setCurrent"}
        /\ \A v \in Workers \ {w} : pc'[v] = pc[v]
    BY <1>t, <1>6 DEF Upsert, inbox, TypeOK
  <2> QED BY <1>a, <2>1
<1>7. ASSUME NEW w \in Workers, SetCurrent(w) PROVE Applied'
  <2>1. /\ UNCHANGED <<row, snap, batch, job>> /\ pc[w] = "setCurrent" /\ pc'[w] = "complete"
        /\ \A v \in Workers \ {w} : pc'[v] = pc[v]
        /\ seenUpTo'.projected = snap[w].at /\ seenUpTo'.granted = seenUpTo.granted
    BY <1>t, <1>7 DEF SetCurrent, inbox, local, TypeOK
  <2>2. seenUpTo.projected <= snap[w].at /\ \A b \in batch[w] : b.of <= snap[w].at
    BY <1>a, <2>1
  <2>3. \A v \in Workers \ {w} : pc[v] \notin Guarded
    BY <1>l, <2>1 DEF Guarded
  <2> QED BY <1>a, <1>n, <2>1, <2>2, <2>3 DEF Guarded
<1>8. ASSUME NEW w \in Workers, CompleteAttempt(w) PROVE Applied'
  <2>1. /\ UNCHANGED <<seenUpTo, row, snap, batch, job>>
        /\ pc[w] = "complete" /\ pc'[w] = "materialize"
        /\ \A v \in Workers \ {w} : pc'[v] = pc[v]
    BY <1>t, <1>8 DEF CompleteAttempt, inbox, plan, local, TypeOK
  <2> QED BY <1>a, <2>1
<1>9. ASSUME NEW w \in Workers, Materialize(w) PROVE Applied'
  <2>1. /\ UNCHANGED row /\ pc[w] = "materialize"
        /\ seenUpTo'.projected = seenUpTo.projected /\ seenUpTo'.granted = seenUpTo.projected
    BY <1>t, <1>9 DEF Materialize, inbox, TypeOK
  <2>2. OthersStay(w) /\ pc'[w] \in {"checkout", "processed", "idle"}
    BY <1>t, <1>9, Leaving, Forgetting DEF Materialize
  <2>3. pc'[w] = "processed" => job[w] = "inbox" /\ batch'[w] = batch[w]
    BY <1>t, <1>9, Leaving, Forgetting DEF Materialize
  <2> QED BY <1>a, <1>n, <2>1, <2>2, <2>3 DEF OthersStay
<1>10. ASSUME NEW w \in Workers, MarkProcessed(w) PROVE Applied'
  <2>1. First(w) \in batch[w] /\ First(w).of <= seenUpTo.granted
    BY <1>10, <1>t, <1>a, FirstOne DEF MarkProcessed, Placed
  <2>2. UNCHANGED seenUpTo /\ row' = [row EXCEPT ![First(w).of] = "processed"]
    BY <1>10 DEF MarkProcessed, SettleEvent, plan
  <2>3. /\ pc'[w] \in {"idle", "event"}
        /\ \A v \in Workers \ {w} :
             pc'[v] = pc[v] /\ job'[v] = job[v] /\ snap'[v] = snap[v] /\ batch'[v] = batch[v]
    <3>1. CASE batch[w] = {First(w)}
      BY <1>10, <1>t, <3>1, Leaving DEF MarkProcessed, SettleEvent, OthersStay
    <3>2. CASE batch[w] # {First(w)}
      BY <1>10, <1>t, <3>2 DEF MarkProcessed, SettleEvent, Go, TypeOK
    <3> QED BY <3>1, <3>2
  <2>4. \A k \in Events : row'[k] = "processed" => k <= seenUpTo.granted
    BY <1>t, <1>a, <2>1, <2>2 DEF TypeOK
  <2> QED BY <1>a, <2>2, <2>3, <2>4
<1>11. ASSUME NEW w \in Workers, NEW ks \in SUBSET Events, ClaimEvents(w, ks) PROVE Applied'
  <2>1. /\ UNCHANGED <<seenUpTo, snap>> /\ pc'[w] = "event"
        /\ \A v \in Workers \ {w} : pc'[v] = pc[v] /\ job'[v] = job[v] /\ batch'[v] = batch[v]
    BY <1>t, <1>11 DEF ClaimEvents, Begin, plan, TypeOK
  <2>2. \A k \in Events : row'[k] = "processed" => row[k] = "processed"
    BY <1>11 DEF ClaimEvents
  <2> QED BY <1>a, <2>1, <2>2
<1> QED
  BY <1>t, <1>1, <1>2, <1>3, <1>4, <1>5, <1>6, <1>7, <1>8, <1>9, <1>10, <1>11, Kinds DEF Inside

LEMMA SoundInit == Init => Sound
<1> SUFFICES ASSUME Init PROVE Sound
  OBVIOUS
<1>1. Typed
  BY TypedInit
<1>2. /\ version = 0 /\ seenUpTo = [projected |-> 0, granted |-> 0]
      /\ \A k \in Events : row[k] = "absent"
      /\ \A w \in Workers : pc[w] = "idle" /\ batch[w] = {} /\ snap[w].at = 0
      /\ \A a \in Attempts : session[a] = "none" /\ sub[a] = "none"
  BY DEF Init, Nothing
<1> QED BY <1>1, <1>2 DEF Sound, Strangers, Received, Locked, Guarded, Applied

LEMMA SoundInvariant == Spec => []Sound
<1>1. Sound /\ [Next]_vars => Sound'
  BY TypedStep, StrangersStep, ReceivedStep, LockedStep, AppliedStep DEF Sound
<1> QED BY <1>1, SoundInit, PTL DEF Spec

\* An event is marked processed only after the projection and the entitlement
\* reflect the change it announced or a later one, whatever is late, repeated,
\* claimed twice or interrupted, unless a worker lost the organization lock.
THEOREM AppliedBeforeProcessed == Spec => []ProcessedIsApplied
<1>1. Sound => ProcessedIsApplied
  <2> SUFFICES ASSUME Sound, ~lockLost, NEW k \in Events, row[k] = "processed"
               PROVE  k <= seenUpTo.projected /\ k <= seenUpTo.granted
    BY DEF ProcessedIsApplied
  <2>1. k <= seenUpTo.granted /\ seenUpTo.granted <= seenUpTo.projected
    BY DEF Sound, Applied
  <2>2. seenUpTo.projected \in 0..MaxEvents /\ seenUpTo.granted \in 0..MaxEvents
    BY DEF Sound, Typed, TypeOK
  <2> QED BY <2>1, <2>2, BillingAssumption DEF Events
<1> QED BY <1>1, SoundInvariant, PTL

\* The projection of a customer never goes back to an older listing of Stripe,
\* unless a worker lost the organization lock.
THEOREM ProjectionForward == Spec => NeverBackwards
<1>1. Sound /\ [Next]_vars => [lockLost' \/ seenUpTo.projected <= seenUpTo'.projected]_vars
  <2> SUFFICES ASSUME Sound, [Next]_vars, ~lockLost' PROVE seenUpTo.projected <= seenUpTo'.projected
    OBVIOUS
  <2>t. Typed /\ TypeOK /\ seenUpTo.projected \in Nat
    BY BillingAssumption DEF Sound, Typed, TypeOK
  <2>1. CASE Outside
    BY <2>t, <2>1 DEF Outside
  <2>2. ASSUME NEW w \in Workers, Apart(w) PROVE seenUpTo.projected <= seenUpTo'.projected
    BY <2>t, <2>2 DEF Apart
  <2>3. ASSUME NEW w \in Workers, SetCurrent(w) PROVE seenUpTo.projected <= seenUpTo'.projected
    <3>1. seenUpTo'.projected = snap[w].at /\ lockLost' = lockLost /\ pc[w] = "setCurrent"
      BY <2>t, <2>3 DEF SetCurrent, mutex, TypeOK
    <3> QED BY <3>1 DEF Sound, Applied
  <2>4. ASSUME NEW w \in Workers, Inside(w), ~SetCurrent(w)
        PROVE  seenUpTo'.projected = seenUpTo.projected
    BY <2>t, <2>4 DEF Inside, AcquireLock, LoseLock, ListSubscriptions, Upsert, CompleteAttempt,
         Materialize, MarkProcessed, SettleEvent, ClaimEvents, plan, TypeOK
  <2> QED BY <2>t, <2>1, <2>2, <2>3, <2>4, Kinds
<1> QED BY <1>1, SoundInvariant, PTL DEF Spec, NeverBackwards
=============================================================================
