------------------------------ MODULE Billing ------------------------------
(***************************************************************************)
(* Subscriptions of one organization: the webhook inbox, reconciliation    *)
(* with Stripe and the hosted Checkout.                                    *)
(*                                                                         *)
(* Stripe owns the truth.  Its events say only when to look: every trigger *)
(* re-reads the customer's subscriptions under the organization lock and   *)
(* rewrites the projection, statement by statement.  A purchase closes or  *)
(* reuses the organization's open attempt under the same lock; some jobs   *)
(* (the return from Checkout, the sweep of stale attempts) act without it. *)
(*                                                                         *)
(* An attempt, its Checkout session and the subscription the session       *)
(* starts share one number.  `version' counts the changes Stripe makes;    *)
(* event k announces the k-th.  Time is abstract: a row's backoff or an    *)
(* abandoned claim's five minutes have passed whenever the row is taken.   *)
(***************************************************************************)
EXTENDS Naturals, FiniteSets

CONSTANTS
  Requesters,    \* requests of people: checkout, cancel, return
  Daemons,       \* timers: inbox, sweep, scheduled reconciliation
  NoOne,         \* the lock is free
  MaxAttempts,   \* bound: checkout attempts
  MaxEvents,     \* bound: events Stripe sends
  MaxTries,      \* WEBHOOK_MAX_ATTEMPTS
  MaxFaults      \* bound: failed calls, crashes, lost locks, outlived claims

Workers  == Requesters \cup Daemons
Attempts == 1..MaxAttempts
Events   == 1..MaxEvents

ASSUME BillingAssumption ==
  /\ Requesters \cap Daemons = {} /\ NoOne \notin Workers
  /\ MaxAttempts \in Nat /\ MaxEvents \in Nat /\ MaxTries \in Nat \ {0} /\ MaxFaults \in Nat

VARIABLES
  session, sub,       \* Stripe: Checkout sessions and subscriptions
  since,              \* how many attempts existed when a subscription began
  version, expiryOf,  \* changes so far; the session whose expiry an event announces, or 0
  row, tries,         \* billing_webhook_event: status and attempts
  attempt, attached,  \* billing_checkout_attempt: status; those with a session, whose URL people have
  writtenOff,         \* history: the attempts a sweep expired although they were paid
  known, current,     \* billing_subscription: status per row, the one that is_current or 0
  granted,            \* organization_entitlement: the status it was computed from
  bound,              \* organization_billing_account exists
  seenUpTo,           \* history: the version the projection and the entitlement reflect
  lock, lockLost,     \* the organization lock; history: it was lost while its holder ran
  pc, job,            \* where each worker is, and in which job
  snap, todo,         \* the subscriptions as listed, and those still to be written
  batch,              \* the inbox rows a worker claimed and has not settled
  target, seen,       \* the attempt it works on and the session status it retrieved
  faults

stripe  == <<session, sub, since, version, expiryOf>>
inbox   == <<row, tries>>
ledger  == <<attempt, attached, writtenOff>>
plan    == <<known, current, granted, bound, seenUpTo>>
mutex   == <<lock, lockLost>>
local   == <<snap, todo, batch, target, seen>>
vars    == <<stripe, inbox, ledger, plan, mutex, pc, job, local, faults>>

SubStatus == {"none", "active", "past_due", "canceled"}
Live      == {"active", "past_due"}
Listing   == [at : 0..MaxEvents, subs : [Attempts -> SubStatus]]
Jobs      == {"none", "start", "cancel", "return", "sweep", "inbox", "scheduled", "deadline"}
Steps     == {"idle", "event", "processed", "failed",
              "reconcile", "list", "upsert", "setCurrent", "complete", "materialize",
              "checkout", "guard", "find", "expire", "lookup", "close", "create",
              "session", "attach", "abort"}

TypeOK ==
  /\ session \in [Attempts -> {"none", "open", "complete", "expired"}]
  /\ sub \in [Attempts -> SubStatus]
  /\ since \in [Attempts -> 0..MaxAttempts]
  /\ version \in 0..MaxEvents
  /\ expiryOf \in [Events -> 0..MaxAttempts]
  /\ row \in [Events -> {"absent", "pending", "processing", "failed", "dead", "processed"}]
  /\ tries \in [Events -> Nat]
  /\ attempt \in [Attempts -> {"none", "open", "completed", "expired", "failed"}]
  /\ attached \in SUBSET Attempts
  /\ writtenOff \in SUBSET Attempts
  /\ known \in [Attempts -> SubStatus]
  /\ current \in 0..MaxAttempts
  /\ granted \in SubStatus
  /\ bound \in BOOLEAN
  /\ seenUpTo \in [projected : 0..MaxEvents, granted : 0..MaxEvents]
  /\ lock \in Workers \cup {NoOne}
  /\ lockLost \in BOOLEAN
  /\ pc \in [Workers -> Steps]
  /\ job \in [Workers -> Jobs]
  /\ snap \in [Workers -> Listing]
  /\ todo \in [Workers -> SUBSET Attempts]
  /\ batch \in [Workers -> SUBSET [of : Events, try : Nat, turn : Nat]]
  /\ target \in [Workers -> 0..MaxAttempts]
  /\ seen \in [Workers -> {"none", "open", "complete", "expired"}]
  /\ faults \in 0..MaxFaults

Nothing == [at |-> 0, subs |-> [a \in Attempts |-> "none"]]

Init ==
  /\ session = [a \in Attempts |-> "none"]
  /\ sub = [a \in Attempts |-> "none"]
  /\ since = [a \in Attempts |-> 0]
  /\ version = 0
  /\ expiryOf = [k \in Events |-> 0]
  /\ row = [k \in Events |-> "absent"]
  /\ tries = [k \in Events |-> 0]
  /\ attempt = [a \in Attempts |-> "none"]
  /\ attached = {} /\ writtenOff = {}
  /\ known = [a \in Attempts |-> "none"]
  /\ current = 0
  /\ granted = "none"
  /\ bound \in BOOLEAN
  /\ seenUpTo = [projected |-> 0, granted |-> 0]
  /\ lock = NoOne /\ lockLost = FALSE
  /\ pc = [w \in Workers |-> "idle"]
  /\ job = [w \in Workers |-> "none"]
  /\ snap = [w \in Workers |-> Nothing]
  /\ todo = [w \in Workers |-> {}]
  /\ batch = [w \in Workers |-> {}]
  /\ target = [w \in Workers |-> 0]
  /\ seen = [w \in Workers |-> "none"]
  /\ faults = 0

Fault == faults < MaxFaults /\ faults' = faults + 1

-----------------------------------------------------------------------------
(* Stripe and the customer *)

Created == Cardinality({a \in Attempts : attempt[a] # "none"})

\* The customer's subscriptions changed, and an event says so; past the bound
\* the event never arrives.
Announce ==
  /\ version' = IF version < MaxEvents THEN version + 1 ELSE version
  /\ UNCHANGED expiryOf

\* A session ends unpaid; likewise.
EndSession(a) ==
  /\ session' = [session EXCEPT ![a] = "expired"]
  /\ IF version < MaxEvents
     THEN version' = version + 1 /\ expiryOf' = [expiryOf EXCEPT ![version + 1] = a]
     ELSE UNCHANGED <<version, expiryOf>>

Pay(a) ==
  /\ session[a] = "open" /\ a \in attached
  /\ session' = [session EXCEPT ![a] = "complete"]
  /\ sub' = [sub EXCEPT ![a] = "active"]
  /\ since' = [since EXCEPT ![a] = Created]
  /\ Announce
  /\ UNCHANGED <<inbox, ledger, plan, mutex, pc, job, local, faults>>

\* Payments fail and recover, and the customer leaves through the portal.
ChangeSubscription(a) ==
  /\ sub[a] \in Live /\ version < MaxEvents
  /\ \E to \in SubStatus \ {"none", sub[a]} : sub' = [sub EXCEPT ![a] = to]
  /\ Announce
  /\ UNCHANGED <<session, since, inbox, ledger, plan, mutex, pc, job, local, faults>>

SessionExpires(a) ==
  /\ session[a] = "open"
  /\ EndSession(a)
  /\ UNCHANGED <<sub, since, inbox, ledger, plan, mutex, pc, job, local, faults>>

\* recordWebhookEvent; a second delivery of an event changes nothing.
ReceiveEvent(k) ==
  /\ k <= version /\ row[k] = "absent"
  /\ row' = [row EXCEPT ![k] = "pending"]
  /\ UNCHANGED <<stripe, tries, ledger, plan, mutex, pc, job, local, faults>>

-----------------------------------------------------------------------------
(* Where a job is *)

\* Between two jobs, and before and after a reconciliation, a worker remembers
\* nothing but its claims.
Forget(w) ==
  /\ snap' = [snap EXCEPT ![w] = Nothing]
  /\ todo' = [todo EXCEPT ![w] = {}]
  /\ target' = [target EXCEPT ![w] = 0]
  /\ seen' = [seen EXCEPT ![w] = "none"]

Go(w, step) == pc' = [pc EXCEPT ![w] = step] /\ UNCHANGED job

Return(w) ==
  /\ pc' = [pc EXCEPT ![w] = "idle"]
  /\ job' = [job EXCEPT ![w] = "none"]
  /\ batch' = [batch EXCEPT ![w] = {}]
  /\ Forget(w)

\* From here on the job is a reconciliation like any other.
Reconcile(w) ==
  /\ pc' = [pc EXCEPT ![w] = "reconcile"]
  /\ job' = [job EXCEPT ![w] = "scheduled"]
  /\ Forget(w) /\ UNCHANGED batch

-----------------------------------------------------------------------------
(* The organization lock *)

Unlock(w) ==
  /\ lock' = IF lock = w THEN NoOne ELSE lock
  /\ UNCHANGED lockLost

\* Fault variant: the lock is not waited for.
AcquireLock_NoWait(w) ==
  /\ pc[w] \in {"reconcile", "checkout"}
  /\ lock' = w
  /\ pc' = [pc EXCEPT ![w] =
       CASE pc[w] = "reconcile" -> IF bound /\ job[w] # "deadline" THEN "list" ELSE "materialize"
         [] pc[w] = "checkout"  -> IF job[w] = "start" THEN "guard" ELSE "find"]
  /\ UNCHANGED <<stripe, inbox, ledger, plan, lockLost, job, local, faults>>

\* withOrganizationLock.  Without an account, and when only a deadline passed,
\* nothing is read from Stripe.
AcquireLock(w) ==
  /\ pc[w] \in {"reconcile", "checkout"} /\ lock = NoOne
  /\ lock' = w
  /\ pc' = [pc EXCEPT ![w] =
       CASE pc[w] = "reconcile" -> IF bound /\ job[w] # "deadline" THEN "list" ELSE "materialize"
         [] pc[w] = "checkout"  -> IF job[w] = "start" THEN "guard" ELSE "find"]
  /\ UNCHANGED <<stripe, inbox, ledger, plan, lockLost, job, local, faults>>

\* The connection that holds the lock dies; the job goes on, on its own one.
LoseLock(w) ==
  /\ lock = w /\ Fault
  /\ lock' = NoOne /\ lockLost' = TRUE
  /\ UNCHANGED <<stripe, inbox, ledger, plan, pc, job, local>>

-----------------------------------------------------------------------------
(* Reconciliation *)

ListSubscriptions(w) ==
  /\ pc[w] = "list"
  /\ snap' = [snap EXCEPT ![w] = [at |-> version, subs |-> sub]]
  /\ todo' = [todo EXCEPT ![w] = {a \in Attempts : sub[a] # "none"}]
  /\ pc' = [pc EXCEPT ![w] = IF todo'[w] = {} THEN "setCurrent" ELSE "upsert"]
  /\ UNCHANGED <<stripe, inbox, ledger, plan, mutex, job, batch, target, seen, faults>>

\* upsertSubscription, one row after the other.
Upsert(w) ==
  /\ pc[w] = "upsert"
  /\ \E a \in todo[w] :
       /\ known' = [known EXCEPT ![a] = snap[w].subs[a]]
       /\ todo' = [todo EXCEPT ![w] = @ \ {a}]
       /\ pc' = [pc EXCEPT ![w] = IF todo[w] = {a} THEN "setCurrent" ELSE "upsert"]
  /\ UNCHANGED <<stripe, inbox, ledger, current, granted, bound, seenUpTo, mutex, job,
                 snap, batch, target, seen, faults>>

\* chooseCurrentSubscription: active before past due before ended, newest first.
ChooseCurrent(subs) ==
  LET with(status)  == {a \in Attempts : subs[a] = status}
      newest(among) == CHOOSE a \in among : \A b \in among :
                        since[b] < since[a] \/ (since[b] = since[a] /\ b <= a)
  IN IF with("active") # {} THEN newest(with("active"))
     ELSE IF with("past_due") # {} THEN newest(with("past_due"))
     ELSE IF with("canceled") # {} THEN newest(with("canceled"))
     ELSE 0

SetCurrent(w) ==
  /\ pc[w] = "setCurrent"
  /\ current' = ChooseCurrent(snap[w].subs)
  /\ seenUpTo' = [seenUpTo EXCEPT !.projected = snap[w].at]
  /\ pc' = [pc EXCEPT ![w] = "complete"]
  /\ UNCHANGED <<stripe, inbox, ledger, known, granted, bound, mutex, job, local, faults>>

Open(a) == attempt[a] = "open"

\* current.created >= createdAt - 60 s.  A subscription that began before the
\* attempt may be within the minute only while it lives.
Covers(s, a, subs) ==
  IF since[s] >= a THEN {TRUE} ELSE IF subs[s] \in Live THEN BOOLEAN ELSE {FALSE}

\* The open attempt is complete once the chosen subscription covers it.
CompleteAttempt(w) ==
  /\ pc[w] = "complete"
  /\ LET s == ChooseCurrent(snap[w].subs)
         done == {a \in Attempts : Open(a) /\ s # 0}
     IN \E cover \in [done -> BOOLEAN] :
          /\ \A a \in done : cover[a] \in Covers(s, a, snap[w].subs)
          /\ attempt' = [a \in Attempts |->
               IF a \in done THEN IF cover[a] THEN "completed" ELSE "open" ELSE attempt[a]]
  /\ pc' = [pc EXCEPT ![w] = "materialize"]
  /\ UNCHANGED <<stripe, inbox, attached, writtenOff, plan, mutex, job, local, faults>>

\* materializeEntitlementLocked, from the rows alone.
Materialize(w) ==
  /\ pc[w] = "materialize"
  /\ granted' = IF current = 0 THEN "none" ELSE known[current]
  /\ seenUpTo' = [seenUpTo EXCEPT !.granted = seenUpTo.projected]
  /\ Unlock(w)
  /\ CASE job[w] = "start" -> Go(w, "checkout") /\ Forget(w) /\ UNCHANGED batch
       [] job[w] = "inbox" -> Go(w, "processed") /\ Forget(w) /\ UNCHANGED batch
       [] OTHER            -> Return(w)
  /\ UNCHANGED <<stripe, inbox, ledger, known, current, bound, faults>>

-----------------------------------------------------------------------------
(* Jobs of the timers *)

Begin(w, j, step) ==
  /\ pc[w] = "idle"
  /\ pc' = [pc EXCEPT ![w] = step]
  /\ job' = [job EXCEPT ![w] = j]

\* The reconciliation of all organizations every six hours (a refresh by hand
\* does the same), and the sweep of entitlement deadlines.
Schedule(w, j) ==
  /\ w \in Daemons /\ j \in {"scheduled", "deadline"}
  /\ Begin(w, j, "reconcile")
  /\ UNCHANGED <<stripe, inbox, ledger, plan, mutex, local, faults>>

\* The statement that claims returns its rows in any order.
Orders(ks) ==
  {turn \in [ks -> 1..Cardinality(ks)] : \A j, k \in ks : turn[j] = turn[k] => j = k}

Claimed(k) == \E w \in Workers : \E b \in batch[w] : b.of = k

\* Fault variant: only pending and failed rows are claimed.
ClaimEvents_NoTakeOver(w, ks) ==
  /\ w \in Daemons /\ Begin(w, "inbox", "event")
  /\ ks # {} /\ \A k \in Events : row[k] = "pending" => k \in ks
  /\ \A k \in ks : row[k] \in {"pending", "failed"}
  /\ IF \E k \in ks : Claimed(k) THEN Fault ELSE UNCHANGED faults
  /\ row' = [k \in Events |-> IF k \in ks THEN "processing" ELSE row[k]]
  /\ tries' = [k \in Events |-> IF k \in ks THEN tries[k] + 1 ELSE tries[k]]
  /\ \E turn \in Orders(ks) :
       batch' = [batch EXCEPT ![w] =
         {[of |-> k, try |-> tries[k] + 1, turn |-> turn[k]] : k \in ks}]
  /\ UNCHANGED <<stripe, ledger, plan, mutex, snap, todo, target, seen>>

\* claimWebhookEvents: all pending rows, failed ones whose backoff has elapsed,
\* and those claimed five minutes ago, whatever became of the claim.
ClaimEvents(w, ks) ==
  /\ w \in Daemons /\ Begin(w, "inbox", "event")
  /\ ks # {} /\ \A k \in Events : row[k] = "pending" => k \in ks
  /\ \A k \in ks : row[k] \in {"pending", "failed", "processing"}
  /\ IF \E k \in ks : Claimed(k) THEN Fault ELSE UNCHANGED faults
  /\ row' = [k \in Events |-> IF k \in ks THEN "processing" ELSE row[k]]
  /\ tries' = [k \in Events |-> IF k \in ks THEN tries[k] + 1 ELSE tries[k]]
  /\ \E turn \in Orders(ks) :
       batch' = [batch EXCEPT ![w] =
         {[of |-> k, try |-> tries[k] + 1, turn |-> turn[k]] : k \in ks}]
  /\ UNCHANGED <<stripe, ledger, plan, mutex, snap, todo, target, seen>>

First(w) == CHOOSE b \in batch[w] : \A c \in batch[w] : b.turn <= c.turn

\* processWebhookInbox, event by event; the expiry of a session closes its
\* attempt before the reconciliation.
NextEvent(w) ==
  /\ pc[w] = "event" /\ batch[w] # {}
  /\ LET a == expiryOf[First(w).of]
     IN attempt' = [x \in Attempts |->
          IF x = a /\ Open(x) /\ x \in attached THEN "expired" ELSE attempt[x]]
  /\ pc' = [pc EXCEPT ![w] = "reconcile"]
  /\ UNCHANGED <<stripe, inbox, attached, writtenOff, plan, mutex, job, local, faults>>

\* Neither outcome is fenced by the claim.
SettleEvent(w, to) ==
  /\ row' = [row EXCEPT ![First(w).of] = to]
  /\ IF batch[w] = {First(w)} THEN Return(w)
     ELSE /\ Go(w, "event")
          /\ batch' = [batch EXCEPT ![w] = @ \ {First(w)}]
          /\ UNCHANGED <<snap, todo, target, seen>>
  /\ UNCHANGED <<stripe, tries, ledger, plan, mutex, faults>>

MarkProcessed(w) == pc[w] = "processed" /\ SettleEvent(w, "processed")

\* Fault variants: a status nobody handles; an exhausted event stays failed.
MarkFailed_Unclassified(w) == pc[w] = "failed" /\ SettleEvent(w, "exhausted")
MarkFailed_AsProcessed(w)  == pc[w] = "failed" /\ SettleEvent(w, "processed")

MarkFailed(w) ==
  /\ pc[w] = "failed"
  /\ SettleEvent(w, IF First(w).try >= MaxTries THEN "dead" ELSE "failed")

\* retryWebhookEvent, by an operator; bound: until the tries are spent.
RetryEvent(k) ==
  /\ row[k] \in {"failed", "dead"} /\ tries[k] <= MaxTries
  /\ row' = [row EXCEPT ![k] = "pending"]
  /\ UNCHANGED <<stripe, tries, ledger, plan, mutex, pc, job, local, faults>>

\* expireStaleCheckoutAttempts, without the lock.  The session may still be open;
\* thirty minutes after its creation nobody is still creating it.
Sweep(w, a) ==
  /\ w \in Daemons
  /\ Open(a)
  /\ \A v \in Workers : target[v] = a => pc[v] \notin {"session", "attach", "abort"}
  /\ Begin(w, "sweep", IF a \in attached THEN "lookup" ELSE "close")
  /\ target' = [target EXCEPT ![w] = a]
  /\ UNCHANGED <<stripe, inbox, ledger, plan, mutex, snap, todo, batch, seen, faults>>

-----------------------------------------------------------------------------
(* Requests of people *)

\* The preflight is skipped when there is no customer yet.
StartCheckout(w) ==
  /\ w \in Requesters
  /\ Begin(w, "start", IF bound THEN "reconcile" ELSE "checkout")
  /\ UNCHANGED <<stripe, inbox, ledger, plan, mutex, local, faults>>

CancelCheckout(w) ==
  /\ w \in Requesters
  /\ Begin(w, "cancel", "checkout")
  /\ UNCHANGED <<stripe, inbox, ledger, plan, mutex, local, faults>>

ConfirmReturn(w, a) ==
  /\ w \in Requesters /\ a \in attached
  /\ Begin(w, "return", "lookup")
  /\ target' = [target EXCEPT ![w] = a]
  /\ UNCHANGED <<stripe, inbox, ledger, plan, mutex, snap, todo, batch, seen, faults>>

\* A live subscription refuses the purchase.
CheckCurrent(w) ==
  /\ pc[w] = "guard"
  /\ IF \E s \in Attempts : s = current /\ known[s] \in Live
     THEN Unlock(w) /\ Return(w)
     ELSE Go(w, "find") /\ UNCHANGED <<mutex, local>>
  /\ UNCHANGED <<stripe, inbox, ledger, plan, faults>>

\* Nothing is open: a purchase goes on, a cancellation is done.
FindNone(w) ==
  /\ pc[w] = "find" /\ \A a \in Attempts : ~Open(a)
  /\ IF job[w] = "start"
     THEN Go(w, "create") /\ UNCHANGED <<mutex, local>>
     ELSE Unlock(w) /\ Return(w)
  /\ UNCHANGED <<stripe, inbox, ledger, plan, faults>>

\* The same plan again, in time: the customer gets the same URL.
ReuseAttempt(w) ==
  /\ pc[w] = "find" /\ job[w] = "start"
  /\ \E a \in attached : Open(a)
  /\ Unlock(w) /\ Return(w)
  /\ UNCHANGED <<stripe, inbox, ledger, plan, faults>>

\* Another plan, or a cancellation: the open attempt is closed first.
CloseOpen(w) ==
  /\ pc[w] = "find"
  /\ \E a \in Attempts :
       /\ Open(a)
       /\ target' = [target EXCEPT ![w] = a]
       /\ pc' = [pc EXCEPT ![w] = IF a \in attached THEN "expire" ELSE "close"]
  /\ UNCHANGED <<stripe, inbox, ledger, plan, mutex, job, snap, todo, batch, seen, faults>>

\* Fault variant: the session is not ended at Stripe.
ExpireSession_Skipped(w) ==
  /\ pc[w] = "expire"
  /\ UNCHANGED <<session, version, expiryOf>>
  /\ pc' = [pc EXCEPT ![w] = IF job[w] = "sweep" THEN "close" ELSE "lookup"]
  /\ UNCHANGED <<sub, since, inbox, ledger, plan, mutex, job, local, faults>>

\* A session that has ended already is left alone.
ExpireSession(w) ==
  /\ pc[w] = "expire"
  /\ IF session[target[w]] = "open" THEN EndSession(target[w])
     ELSE UNCHANGED <<session, version, expiryOf>>
  /\ pc' = [pc EXCEPT ![w] = IF job[w] = "sweep" THEN "close" ELSE "lookup"]
  /\ UNCHANGED <<sub, since, inbox, ledger, plan, mutex, job, local, faults>>

\* retrieveCheckoutSession, and what each job makes of the answer.
LookupSession(w) ==
  /\ pc[w] = "lookup"
  /\ LET s == session[target[w]]
         keep == seen' = [seen EXCEPT ![w] = s] /\ UNCHANGED <<snap, todo, batch, target>>
     IN CASE job[w] \in {"start", "cancel"} \/ s = "expired" -> Go(w, "close") /\ keep
          [] job[w] \in {"return", "sweep"} /\ s = "complete" -> Reconcile(w)
          [] job[w] = "sweep" /\ s = "open"  -> Go(w, "expire") /\ keep
          [] job[w] = "return" /\ s = "open" -> Return(w)
  /\ UNCHANGED <<stripe, inbox, ledger, plan, mutex, faults>>

\* The row leaves "open", if it still is.
SetStatus(a, to) == attempt' = [attempt EXCEPT ![a] = IF @ = "open" THEN to ELSE @]

\* Fault variant: a completed session counts as closed.
CloseAttempt_Ignored(w) ==
  /\ pc[w] = "close"
  /\ SetStatus(target[w], "expired")
  /\ CASE job[w] = "start" ->
            Go(w, "create") /\ UNCHANGED <<mutex, local>>
       [] OTHER -> Unlock(w) /\ Return(w)
  /\ UNCHANGED <<stripe, inbox, attached, writtenOff, plan, faults>>

\* A session that completed refuses the purchase and, for a cancellation, is
\* reconciled after the lock was given back.  The sweep does not ask again.
CloseAttempt(w) ==
  LET paid == job[w] \in {"start", "cancel"} /\ seen[w] = "complete"
  IN /\ pc[w] = "close"
     /\ SetStatus(target[w], IF paid THEN "completed" ELSE "expired")
     /\ writtenOff' = writtenOff \cup
          {a \in Attempts : a = target[w] /\ job[w] = "sweep" /\ Open(a) /\ session[a] = "complete"}
     /\ CASE job[w] = "start" /\ ~paid ->
               Go(w, "create") /\ UNCHANGED <<mutex, local>>
          [] job[w] = "cancel" /\ paid -> Reconcile(w) /\ Unlock(w)
          [] OTHER -> Unlock(w) /\ Return(w)
     /\ UNCHANGED <<stripe, inbox, attached, plan, faults>>

\* The customer is created and bound once; at most one attempt is open.  Past
\* the bound a request is refused.
CreateAttempt(w) ==
  /\ pc[w] = "create"
  /\ bound' = TRUE
  /\ IF (\E a \in Attempts : Open(a)) \/ Created = MaxAttempts
     THEN Unlock(w) /\ Return(w) /\ UNCHANGED attempt
     ELSE /\ attempt' = [attempt EXCEPT ![Created + 1] = "open"]
          /\ target' = [target EXCEPT ![w] = Created + 1]
          /\ seen' = [seen EXCEPT ![w] = "none"]
          /\ Go(w, "session")
          /\ UNCHANGED <<mutex, snap, todo, batch>>
  /\ UNCHANGED <<stripe, inbox, attached, writtenOff, known, current, granted, seenUpTo, faults>>

CreateSession(w) ==
  /\ pc[w] = "session"
  /\ session' = [session EXCEPT ![target[w]] = "open"]
  /\ pc' = [pc EXCEPT ![w] = "attach"]
  /\ UNCHANGED <<sub, since, version, expiryOf, inbox, ledger, plan, mutex, job, local, faults>>

\* attachCheckoutSession; the customer gets the URL.
AttachSession(w) ==
  /\ pc[w] = "attach"
  /\ attached' = attached \cup {target[w]}
  /\ Unlock(w) /\ Return(w)
  /\ UNCHANGED <<stripe, inbox, attempt, writtenOff, plan, faults>>

\* The session may have been created, but nobody has its URL.
CreateFails(w) ==
  /\ pc[w] \in {"session", "attach"} /\ Fault
  /\ \/ UNCHANGED session
     \/ pc[w] = "session" /\ session' = [session EXCEPT ![target[w]] = "open"]
  /\ pc' = [pc EXCEPT ![w] = "abort"]
  /\ UNCHANGED <<sub, since, version, expiryOf, inbox, ledger, plan, mutex, job, local>>

AbortAttempt(w) ==
  /\ pc[w] = "abort"
  /\ SetStatus(target[w], "failed")
  /\ Unlock(w) /\ Return(w)
  /\ UNCHANGED <<stripe, inbox, attached, writtenOff, plan, faults>>

-----------------------------------------------------------------------------
(* Failures *)

\* Fault variant: the lock is kept.
Fails_KeepsLock(w) ==
  /\ pc[w] \in {"reconcile", "list", "upsert", "setCurrent", "complete", "materialize",
                "checkout", "guard", "find", "expire", "lookup", "close", "create"}
  /\ Fault
  /\ UNCHANGED mutex
  /\ IF job[w] = "inbox" THEN Go(w, "failed") /\ Forget(w) /\ UNCHANGED batch ELSE Return(w)
  /\ UNCHANGED <<stripe, inbox, ledger, plan>>

\* A call to Stripe or the database fails, or the wait for the lock times out:
\* the job ends; an event is put back or given up.
Fails(w) ==
  /\ pc[w] \in {"reconcile", "list", "upsert", "setCurrent", "complete", "materialize",
                "checkout", "guard", "find", "expire", "lookup", "close", "create"}
  /\ Fault
  /\ Unlock(w)
  /\ IF job[w] = "inbox" THEN Go(w, "failed") /\ Forget(w) /\ UNCHANGED batch ELSE Return(w)
  /\ UNCHANGED <<stripe, inbox, ledger, plan>>

\* The process dies; the lock goes with its connection, the claims stay.
Crash(w) ==
  /\ pc[w] # "idle" /\ Fault
  /\ Unlock(w) /\ Return(w)
  /\ UNCHANGED <<stripe, inbox, ledger, plan>>

-----------------------------------------------------------------------------

ReconcileStep(w) ==
  \/ AcquireLock(w) \/ ListSubscriptions(w) \/ Upsert(w) \/ SetCurrent(w)
  \/ CompleteAttempt(w) \/ Materialize(w)

InboxStep(w) == NextEvent(w) \/ MarkProcessed(w) \/ MarkFailed(w)

CheckoutStep(w) ==
  \/ CheckCurrent(w) \/ FindNone(w) \/ ReuseAttempt(w) \/ CloseOpen(w)
  \/ ExpireSession(w) \/ LookupSession(w) \/ CloseAttempt(w)
  \/ CreateAttempt(w) \/ CreateSession(w) \/ AttachSession(w) \/ AbortAttempt(w)

Step(w) == ReconcileStep(w) \/ InboxStep(w) \/ CheckoutStep(w)

Next ==
  \/ \E w \in Workers :
       \/ Step(w)
       \/ CreateFails(w) \/ Fails(w) \/ Crash(w) \/ LoseLock(w)
       \/ StartCheckout(w) \/ CancelCheckout(w)
       \/ \E a \in Attempts : ConfirmReturn(w, a) \/ Sweep(w, a)
       \/ \E j \in Jobs : Schedule(w, j)
       \/ \E ks \in SUBSET Events : ClaimEvents(w, ks)
  \/ \E a \in Attempts : Pay(a) \/ ChangeSubscription(a) \/ SessionExpires(a)
  \/ \E k \in Events : ReceiveEvent(k) \/ RetryEvent(k)

Spec == Init /\ [][Next]_vars

\* A running job goes on, and those who wait for the lock get it; the timers
\* keep firing, so a due event and the scheduled reconciliation get their turn.
Fairness ==
  /\ \A w \in Workers : WF_vars(Step(w)) /\ SF_vars(AcquireLock(w))
  /\ SF_vars(\E w \in Workers : Schedule(w, "scheduled"))
  /\ \A k \in Events :
       SF_vars(\E w \in Workers, ks \in SUBSET Events : k \in ks /\ ClaimEvents(w, ks))

FairSpec == Spec /\ Fairness

-----------------------------------------------------------------------------
(* Properties *)

\* Every session a customer can still pay is the organization's open attempt, so
\* the next purchase finds and closes it, whatever the sweep, the webhooks, a
\* cancellation and a failed purchase do in between, as long as the requests of
\* people come one at a time.  Two ways around it are known: a worker that lost
\* the lock, and a sweep that found a session open which was paid before the
\* sweep could expire it.
PayableIsTracked ==
  lockLost \/ writtenOff # {} \/ \A a \in attached : session[a] = "open" => Open(a)

\* An event is marked processed only when the projection and the entitlement
\* reflect the change it announced, or a later one: late, repeated and
\* overtaken events included.
ProcessedIsApplied ==
  lockLost \/ \A k \in Events : row[k] = "processed" =>
                k <= seenUpTo.projected /\ k <= seenUpTo.granted

\* The projection never goes back to an older listing of Stripe.
NeverBackwards ==
  [][lockLost' \/ seenUpTo.projected <= seenUpTo'.projected]_vars

\* Two subscriptions of one organization never run at once.
OneLiveSubscription == Cardinality({a \in Attempts : sub[a] \in Live}) <= 1

\* ... as long as the requests of its people come one at a time, except in the
\* same two ways.
OneAtATime == lockLost \/ writtenOff # {} \/ OneLiveSubscription

\* Every recorded event is processed or given up on record.
EventSettles ==
  \A k \in Events : row[k] \in {"pending", "processing", "failed"}
                      ~> row[k] \in {"processed", "dead"}

\* What Stripe says of the customer.
Truth ==
  IF \E a \in Attempts : sub[a] = "active" THEN "active"
  ELSE IF \E a \in Attempts : sub[a] = "past_due" THEN "past_due"
  ELSE IF \E a \in Attempts : sub[a] = "canceled" THEN "canceled"
  ELSE "none"

\* Access converges to Stripe's truth and stays there, whatever events were
\* lost, dead-lettered or overtaken, and even after a lost lock.
Converges == <>[](granted = Truth)
=============================================================================
