---------------------- MODULE Billing_purchases_proofs ----------------------
(***************************************************************************)
(* Proofs about Checkout: while the requests of an organization's people   *)
(* come one at a time, two purchases can never be paid.                    *)
(***************************************************************************)
EXTENDS Billing_proofs

\* The assumption of the theorems here: a second request waits for the first.
OnePerson == \A p, q \in Requesters : p = q

-----------------------------------------------------------------------------
(* Who does what *)

\* What the four answers to a lookup lead to.
LEMMA Lookups ==
  ASSUME Typed, NEW w \in Workers, LookupSession(w)
  PROVE  /\ pc[w] = "lookup" /\ target[w] \in Attempts
         /\ UNCHANGED <<stripe, inbox, ledger, plan, mutex, faults>>
         /\ \/ Return(w)
            \/ /\ session[target[w]] = "complete" /\ job[w] \in {"return", "sweep"}
               /\ Reconcile(w)
            \/ /\ \/ session[target[w]] = "open" /\ job[w] = "sweep" /\ Go(w, "expire")
                  \/ /\ job[w] \in {"start", "cancel"} \/ session[target[w]] = "expired"
                     /\ Go(w, "close")
               /\ seen' = [seen EXCEPT ![w] = session[target[w]]]
               /\ UNCHANGED <<snap, todo, batch, target>>
<1>1. /\ pc[w] = "lookup" /\ target[w] \in attached /\ target[w] \in Attempts
      /\ job[w] \in {"start", "cancel", "return", "sweep"}
      /\ session[target[w]] \in {"open", "complete", "expired"}
  BY DEF LookupSession, Typed, Placed, TypeOK
<1>2. UNCHANGED <<stripe, inbox, ledger, plan, mutex, faults>>
  BY DEF LookupSession
<1> QED BY <1>1, <1>2 DEF LookupSession

Roles ==
  \A w \in Workers :
    /\ job[w] \in {"start", "cancel", "return"} => w \in Requesters
    /\ pc[w] \in {"guard", "create", "session", "attach", "abort"} => job[w] = "start"
    /\ pc[w] \in {"expire", "lookup", "close"} => target[w] \in Attempts
    /\ pc[w] = "close" => job[w] \in {"start", "cancel", "return", "sweep"}
    /\ pc[w] = "idle" <=> job[w] = "none"

LEMMA RolesStep == Typed /\ Roles /\ [Next]_vars => Roles'
<1> SUFFICES ASSUME Typed, Roles, [Next]_vars PROVE Roles'
  OBVIOUS
<1>t. TypeOK /\ Placed
  BY DEF Typed
<1> USE DEF Roles, Placed

<1>1. ASSUME NEW w \in Workers, AcquireLock(w) PROVE Roles'
  BY <1>t, <1>1 DEF AcquireLock, local, TypeOK
<1>2. ASSUME NEW w \in Workers, LoseLock(w) PROVE Roles'
  BY <1>t, <1>2 DEF LoseLock, local, TypeOK
<1>3. ASSUME NEW w \in Workers, ListSubscriptions(w) PROVE Roles'
  BY <1>t, <1>3 DEF ListSubscriptions, TypeOK
<1>4. ASSUME NEW w \in Workers, Upsert(w) PROVE Roles'
  BY <1>t, <1>4 DEF Upsert, TypeOK
<1>5. ASSUME NEW w \in Workers, SetCurrent(w) PROVE Roles'
  BY <1>t, <1>5 DEF SetCurrent, local, TypeOK
<1>6. ASSUME NEW w \in Workers, CompleteAttempt(w) PROVE Roles'
  BY <1>t, <1>6 DEF CompleteAttempt, local, TypeOK
<1>7. ASSUME NEW w \in Workers, Materialize(w) PROVE Roles'
  BY <1>t, <1>7 DEF Materialize, Go, Return, Forget, TypeOK
<1>8. ASSUME NEW w \in Workers, NEW j \in Jobs, Schedule(w, j) PROVE Roles'
  BY <1>t, <1>8 DEF Schedule, Begin, local, TypeOK
<1>9. ASSUME NEW w \in Workers, NEW ks \in SUBSET Events, ClaimEvents(w, ks) PROVE Roles'
  BY <1>t, <1>9 DEF ClaimEvents, Begin, TypeOK
<1>10. ASSUME NEW w \in Workers, NextEvent(w) PROVE Roles'
  BY <1>t, <1>10 DEF NextEvent, local, TypeOK
<1>11. ASSUME NEW w \in Workers, MarkProcessed(w) PROVE Roles'
  BY <1>t, <1>11 DEF MarkProcessed, SettleEvent, Go, Return, Forget, TypeOK
<1>12. ASSUME NEW w \in Workers, MarkFailed(w) PROVE Roles'
  BY <1>t, <1>12 DEF MarkFailed, SettleEvent, Go, Return, Forget, TypeOK
<1>13. ASSUME NEW w \in Workers, CheckCurrent(w) PROVE Roles'
  BY <1>t, <1>13 DEF CheckCurrent, Go, Return, Forget, local, TypeOK
<1>14. ASSUME NEW w \in Workers, FindNone(w) PROVE Roles'
  BY <1>t, <1>14 DEF FindNone, Go, Return, Forget, local, TypeOK
<1>15. ASSUME NEW w \in Workers, ReuseAttempt(w) PROVE Roles'
  BY <1>t, <1>15 DEF ReuseAttempt, Return, Forget, TypeOK
<1>16. ASSUME NEW w \in Workers, CloseOpen(w) PROVE Roles'
  BY <1>t, <1>16 DEF CloseOpen, TypeOK
<1>17. ASSUME NEW w \in Workers, ExpireSession(w) PROVE Roles'
  BY <1>t, <1>17 DEF ExpireSession, local, TypeOK
<1>18. ASSUME NEW w \in Workers, LookupSession(w) PROVE Roles'
  BY <1>t, <1>18, Lookups DEF Go, Return, Forget, Reconcile, TypeOK
<1>19. ASSUME NEW w \in Workers, CloseAttempt(w) PROVE Roles'
  BY <1>t, <1>19 DEF CloseAttempt, Go, Return, Reconcile, Forget, local, TypeOK
<1>20. ASSUME NEW w \in Workers, CreateAttempt(w) PROVE Roles'
  BY <1>t, <1>20 DEF CreateAttempt, Go, Return, Forget, TypeOK
<1>21. ASSUME NEW w \in Workers, CreateSession(w) PROVE Roles'
  BY <1>t, <1>21 DEF CreateSession, local, TypeOK
<1>22. ASSUME NEW w \in Workers, AttachSession(w) PROVE Roles'
  BY <1>t, <1>22 DEF AttachSession, Return, Forget, TypeOK
<1>23. ASSUME NEW w \in Workers, AbortAttempt(w) PROVE Roles'
  BY <1>t, <1>23 DEF AbortAttempt, Return, Forget, TypeOK
<1>24. ASSUME NEW w \in Workers, CreateFails(w) PROVE Roles'
  BY <1>t, <1>24 DEF CreateFails, local, TypeOK
<1>25. ASSUME NEW w \in Workers, Fails(w) PROVE Roles'
  BY <1>t, <1>25 DEF Fails, Go, Return, Forget, TypeOK
<1>26. ASSUME NEW w \in Workers, Crash(w) PROVE Roles'
  BY <1>t, <1>26 DEF Crash, Return, Forget, TypeOK
<1>27. ASSUME NEW w \in Workers, StartCheckout(w) PROVE Roles'
  BY <1>t, <1>27 DEF StartCheckout, Begin, local, TypeOK
<1>28. ASSUME NEW w \in Workers, CancelCheckout(w) PROVE Roles'
  BY <1>t, <1>28 DEF CancelCheckout, Begin, local, TypeOK
<1>29. ASSUME NEW w \in Workers, NEW a \in Attempts, ConfirmReturn(w, a) PROVE Roles'
  BY <1>t, <1>29 DEF ConfirmReturn, Begin, TypeOK
<1>30. ASSUME NEW w \in Workers, NEW a \in Attempts, Sweep(w, a) PROVE Roles'
  BY <1>t, <1>30 DEF Sweep, Begin, TypeOK
<1>31. ASSUME NEW a \in Attempts, Pay(a) PROVE Roles'
  BY <1>t, <1>31 DEF Pay, local, TypeOK
<1>32. ASSUME NEW a \in Attempts, ChangeSubscription(a) PROVE Roles'
  BY <1>t, <1>32 DEF ChangeSubscription, local, TypeOK
<1>33. ASSUME NEW a \in Attempts, SessionExpires(a) PROVE Roles'
  BY <1>t, <1>33 DEF SessionExpires, local, TypeOK
<1>34. ASSUME NEW k \in Events, ReceiveEvent(k) PROVE Roles'
  BY <1>t, <1>34 DEF ReceiveEvent, local, TypeOK
<1>35. ASSUME NEW k \in Events, RetryEvent(k) PROVE Roles'
  BY <1>t, <1>35 DEF RetryEvent, local, TypeOK
<1>36. CASE UNCHANGED vars
  BY <1>t, <1>36 DEF vars, local, TypeOK
<1> QED
  BY <1>1, <1>2, <1>3, <1>4, <1>5, <1>6, <1>7, <1>8, <1>9, <1>10, <1>11, <1>12, <1>13, <1>14, <1>15,
     <1>16, <1>17, <1>18, <1>19, <1>20, <1>21, <1>22, <1>23, <1>24, <1>25, <1>26, <1>27, <1>28, <1>29,
     <1>30, <1>31, <1>32, <1>33, <1>34, <1>35, <1>36
     DEF Next, Step, ReconcileStep, InboxStep, CheckoutStep

-----------------------------------------------------------------------------
(* The lock, from the guard of a purchase to its end *)

Held ==
  lockLost \/ \A w \in Workers :
    /\ pc[w] \in Guarded => lock = w
    /\ pc[w] \in {"guard", "find", "create", "session", "attach", "abort"} => lock = w
    /\ pc[w] \in {"expire", "lookup", "close"} /\ job[w] \in {"start", "cancel"} => lock = w

LEMMA HeldStep == Typed /\ Roles /\ Held /\ [Next]_vars => Held'
<1> SUFFICES ASSUME Typed, Roles, Held, [Next]_vars PROVE Held'
  OBVIOUS
<1>t. TypeOK /\ Placed /\ Roles /\ NoOne \notin Workers
  BY BillingAssumption DEF Typed
<1> USE DEF Held, Guarded

<1>1. ASSUME NEW w \in Workers, AcquireLock(w) PROVE Held'
  BY <1>t, <1>1 DEF AcquireLock, local, TypeOK, Placed, Roles
<1>2. ASSUME NEW w \in Workers, LoseLock(w) PROVE Held'
  BY <1>t, <1>2 DEF LoseLock, local, TypeOK, Placed, Roles
<1>3. ASSUME NEW w \in Workers, ListSubscriptions(w) PROVE Held'
  BY <1>t, <1>3 DEF ListSubscriptions, mutex, TypeOK, Placed, Roles
<1>4. ASSUME NEW w \in Workers, Upsert(w) PROVE Held'
  BY <1>t, <1>4 DEF Upsert, mutex, TypeOK, Placed, Roles
<1>5. ASSUME NEW w \in Workers, SetCurrent(w) PROVE Held'
  BY <1>t, <1>5 DEF SetCurrent, mutex, local, TypeOK, Placed, Roles
<1>6. ASSUME NEW w \in Workers, CompleteAttempt(w) PROVE Held'
  BY <1>t, <1>6 DEF CompleteAttempt, mutex, local, TypeOK, Placed, Roles
<1>7. ASSUME NEW w \in Workers, Materialize(w) PROVE Held'
  BY <1>t, <1>7 DEF Materialize, Go, Return, Unlock, TypeOK, Placed, Roles
<1>8. ASSUME NEW w \in Workers, NEW j \in Jobs, Schedule(w, j) PROVE Held'
  BY <1>t, <1>8 DEF Schedule, Begin, mutex, local, TypeOK, Placed, Roles
<1>9. ASSUME NEW w \in Workers, NEW ks \in SUBSET Events, ClaimEvents(w, ks) PROVE Held'
  BY <1>t, <1>9 DEF ClaimEvents, Begin, mutex, TypeOK, Placed, Roles
<1>10. ASSUME NEW w \in Workers, NextEvent(w) PROVE Held'
  BY <1>t, <1>10 DEF NextEvent, mutex, local, TypeOK, Placed, Roles
<1>11. ASSUME NEW w \in Workers, MarkProcessed(w) PROVE Held'
  BY <1>t, <1>11 DEF MarkProcessed, SettleEvent, Go, Return, mutex, TypeOK, Placed, Roles
<1>12. ASSUME NEW w \in Workers, MarkFailed(w) PROVE Held'
  BY <1>t, <1>12 DEF MarkFailed, SettleEvent, Go, Return, mutex, TypeOK, Placed, Roles
<1>13. ASSUME NEW w \in Workers, CheckCurrent(w) PROVE Held'
  BY <1>t, <1>13 DEF CheckCurrent, Go, Return, Unlock, mutex, local, TypeOK, Placed, Roles
<1>14. ASSUME NEW w \in Workers, FindNone(w) PROVE Held'
  BY <1>t, <1>14 DEF FindNone, Go, Return, Unlock, mutex, local, TypeOK, Placed, Roles
<1>15. ASSUME NEW w \in Workers, ReuseAttempt(w) PROVE Held'
  BY <1>t, <1>15 DEF ReuseAttempt, Return, Unlock, TypeOK, Placed, Roles
<1>16. ASSUME NEW w \in Workers, CloseOpen(w) PROVE Held'
  BY <1>t, <1>16 DEF CloseOpen, mutex, TypeOK, Placed, Roles
<1>17. ASSUME NEW w \in Workers, ExpireSession(w) PROVE Held'
  BY <1>t, <1>17 DEF ExpireSession, mutex, local, TypeOK, Placed, Roles
<1>18. ASSUME NEW w \in Workers, LookupSession(w) PROVE Held'
  BY <1>t, <1>18, Lookups DEF Go, Return, Reconcile, mutex, TypeOK, Placed, Roles
<1>19. ASSUME NEW w \in Workers, CloseAttempt(w) PROVE Held'
  BY <1>t, <1>19 DEF CloseAttempt, Go, Return, Reconcile, Unlock, mutex, local, TypeOK, Placed, Roles
<1>20. ASSUME NEW w \in Workers, CreateAttempt(w) PROVE Held'
  BY <1>t, <1>20 DEF CreateAttempt, Go, Return, Unlock, mutex, TypeOK, Placed, Roles
<1>21. ASSUME NEW w \in Workers, CreateSession(w) PROVE Held'
  BY <1>t, <1>21 DEF CreateSession, mutex, local, TypeOK, Placed, Roles
<1>22. ASSUME NEW w \in Workers, AttachSession(w) PROVE Held'
  BY <1>t, <1>22 DEF AttachSession, Return, Unlock, TypeOK, Placed, Roles
<1>23. ASSUME NEW w \in Workers, AbortAttempt(w) PROVE Held'
  BY <1>t, <1>23 DEF AbortAttempt, Return, Unlock, TypeOK, Placed, Roles
<1>24. ASSUME NEW w \in Workers, CreateFails(w) PROVE Held'
  BY <1>t, <1>24 DEF CreateFails, mutex, local, TypeOK, Placed, Roles
<1>25. ASSUME NEW w \in Workers, Fails(w) PROVE Held'
  BY <1>t, <1>25 DEF Fails, Go, Return, Unlock, TypeOK, Placed, Roles
<1>26. ASSUME NEW w \in Workers, Crash(w) PROVE Held'
  BY <1>t, <1>26 DEF Crash, Return, Unlock, TypeOK, Placed, Roles
<1>27. ASSUME NEW w \in Workers, StartCheckout(w) PROVE Held'
  BY <1>t, <1>27 DEF StartCheckout, Begin, mutex, local, TypeOK, Placed, Roles
<1>28. ASSUME NEW w \in Workers, CancelCheckout(w) PROVE Held'
  BY <1>t, <1>28 DEF CancelCheckout, Begin, mutex, local, TypeOK, Placed, Roles
<1>29. ASSUME NEW w \in Workers, NEW a \in Attempts, ConfirmReturn(w, a) PROVE Held'
  BY <1>t, <1>29 DEF ConfirmReturn, Begin, mutex, TypeOK, Placed, Roles
<1>30. ASSUME NEW w \in Workers, NEW a \in Attempts, Sweep(w, a) PROVE Held'
  BY <1>t, <1>30 DEF Sweep, Begin, mutex, TypeOK, Placed, Roles
<1>31. ASSUME NEW a \in Attempts, Pay(a) PROVE Held'
  BY <1>t, <1>31 DEF Pay, mutex, local, TypeOK, Placed, Roles
<1>32. ASSUME NEW a \in Attempts, ChangeSubscription(a) PROVE Held'
  BY <1>t, <1>32 DEF ChangeSubscription, mutex, local, TypeOK, Placed, Roles
<1>33. ASSUME NEW a \in Attempts, SessionExpires(a) PROVE Held'
  BY <1>t, <1>33 DEF SessionExpires, mutex, local, TypeOK, Placed, Roles
<1>34. ASSUME NEW k \in Events, ReceiveEvent(k) PROVE Held'
  BY <1>t, <1>34 DEF ReceiveEvent, mutex, local, TypeOK, Placed, Roles
<1>35. ASSUME NEW k \in Events, RetryEvent(k) PROVE Held'
  BY <1>t, <1>35 DEF RetryEvent, mutex, local, TypeOK, Placed, Roles
<1>36. CASE UNCHANGED vars
  BY <1>t, <1>36 DEF vars, mutex, local, TypeOK, Placed, Roles
<1> QED
  BY <1>1, <1>2, <1>3, <1>4, <1>5, <1>6, <1>7, <1>8, <1>9, <1>10, <1>11, <1>12, <1>13, <1>14, <1>15,
     <1>16, <1>17, <1>18, <1>19, <1>20, <1>21, <1>22, <1>23, <1>24, <1>25, <1>26, <1>27, <1>28, <1>29,
     <1>30, <1>31, <1>32, <1>33, <1>34, <1>35, <1>36
     DEF Next, Step, ReconcileStep, InboxStep, CheckoutStep

-----------------------------------------------------------------------------
(* The ledger and Stripe's sessions *)

\* Attempts are numbered in the order of their creation; the open one is the last.
Numbered ==
  /\ \A a \in Attempts : attempt[a] # "none" <=> a <= Created
  /\ \A a \in Attempts : Open(a) => a = Created

\* What is known of a session is known of an attempt; who paid holds a
\* subscription, and only sessions that expired are announced as such.
Sessions ==
  /\ \A a \in Attempts : session[a] # "none" \/ a \in attached => attempt[a] # "none"
  /\ \A w \in Workers : target[w] # 0 => attempt[target[w]] # "none"
  /\ \A k \in Events : expiryOf[k] # 0 => session[expiryOf[k]] = "expired"
  /\ \A a \in Attempts : session[a] = "complete" <=> sub[a] # "none"
  /\ \A a \in Attempts : session[a] = "complete" => a \in attached

\* A session that is being created is nobody else's business.
InMaking ==
  \A w \in Workers :
    pc[w] \in {"session", "attach", "abort"} =>
      /\ target[w] \notin attached
      /\ pc[w] = "session" => session[target[w]] = "none"
      /\ \A v \in Workers \ {w} : target[v] # target[w]

\* No row comes or is opened again.
RowsStay ==
  \A a \in Attempts : (attempt'[a] = "none" <=> attempt[a] = "none") /\ (Open(a)' => Open(a))

\* A row that is created.
RowComes(w) ==
  /\ pc[w] = "create" /\ Created # MaxAttempts /\ bound' = TRUE
  /\ \A a \in Attempts : ~Open(a)
  /\ attempt' = [attempt EXCEPT ![Created + 1] = "open"]
  /\ target' = [target EXCEPT ![w] = Created + 1]
  /\ pc' = [pc EXCEPT ![w] = "session"] /\ seen' = [seen EXCEPT ![w] = "none"]
  /\ UNCHANGED <<stripe, attached, known, current, mutex, job, snap, todo>>

\* Who writes the ledger, the projection and the subscriptions.
LEMMA Writers ==
  ASSUME [Next]_vars
  PROVE  /\ \/ UNCHANGED attempt
            \/ \E w \in Workers : \/ CompleteAttempt(w) \/ NextEvent(w) \/ CloseAttempt(w)
                                  \/ AbortAttempt(w) \/ CreateAttempt(w)
         /\ UNCHANGED <<known, current>> \/ \E w \in Workers : Upsert(w) \/ SetCurrent(w)
         /\ UNCHANGED <<sub, since>> \/ \E a \in Attempts : Pay(a) \/ ChangeSubscription(a)
<1>1. ASSUME NEW w \in Workers,
             \/ CompleteAttempt(w) \/ NextEvent(w) \/ CloseAttempt(w) \/ AbortAttempt(w)
             \/ CreateAttempt(w)
      PROVE  UNCHANGED <<known, current, sub, since>>
  BY <1>1 DEF CompleteAttempt, NextEvent, CloseAttempt, AbortAttempt, CreateAttempt, plan, stripe
<1>2. ASSUME NEW w \in Workers, Upsert(w) \/ SetCurrent(w) PROVE UNCHANGED <<attempt, sub, since>>
  BY <1>2 DEF Upsert, SetCurrent, ledger, stripe
<1>3. ASSUME NEW w \in Workers,
             \/ AcquireLock(w) \/ LoseLock(w) \/ ListSubscriptions(w) \/ Materialize(w)
             \/ MarkProcessed(w) \/ MarkFailed(w) \/ CheckCurrent(w) \/ FindNone(w)
             \/ \E j \in Jobs : Schedule(w, j)
             \/ \E ks \in SUBSET Events : ClaimEvents(w, ks)
      PROVE  UNCHANGED <<attempt, known, current, sub, since>>
  BY <1>3 DEF AcquireLock, LoseLock, ListSubscriptions, Materialize, MarkProcessed, MarkFailed,
       SettleEvent, CheckCurrent, FindNone, Schedule, ClaimEvents, ledger, plan, stripe
<1>4. ASSUME NEW w \in Workers,
             \/ ReuseAttempt(w) \/ CloseOpen(w) \/ ExpireSession(w) \/ LookupSession(w)
             \/ CreateSession(w) \/ AttachSession(w) \/ CreateFails(w) \/ Fails(w) \/ Crash(w)
             \/ StartCheckout(w) \/ CancelCheckout(w)
             \/ \E a \in Attempts : ConfirmReturn(w, a) \/ Sweep(w, a)
      PROVE  UNCHANGED <<attempt, known, current, sub, since>>
  BY <1>4 DEF ReuseAttempt, CloseOpen, ExpireSession, LookupSession, CreateSession, AttachSession,
       CreateFails, Fails, Crash, StartCheckout, CancelCheckout, ConfirmReturn, Sweep,
       ledger, plan, stripe
<1>5. ASSUME NEW a \in Attempts, Pay(a) \/ ChangeSubscription(a)
      PROVE  UNCHANGED <<attempt, known, current>>
  BY <1>5 DEF Pay, ChangeSubscription, ledger, plan
<1>6. ASSUME \/ \E a \in Attempts : SessionExpires(a)
             \/ \E k \in Events : ReceiveEvent(k) \/ RetryEvent(k)
             \/ UNCHANGED vars
      PROVE  UNCHANGED <<attempt, known, current, sub, since>>
  BY <1>6 DEF SessionExpires, ReceiveEvent, RetryEvent, vars, ledger, plan, stripe
<1> QED
  BY <1>1, <1>2, <1>3, <1>4, <1>5, <1>6 DEF Next, Step, ReconcileStep, InboxStep, CheckoutStep

LEMMA Rows ==
  ASSUME Typed, [Next]_vars
  PROVE  RowsStay \/ \E w \in Workers : CreateAttempt(w) /\ RowComes(w)
<1>t. TypeOK
  BY DEF Typed
<1>1. ASSUME NEW w \in Workers,
             CompleteAttempt(w) \/ NextEvent(w) \/ CloseAttempt(w) \/ AbortAttempt(w)
      PROVE  RowsStay
  <2>1. CASE CompleteAttempt(w)
    BY <1>t, <2>1 DEF RowsStay, Open, CompleteAttempt, TypeOK
  <2>2. CASE NextEvent(w)
    BY <1>t, <2>2 DEF RowsStay, Open, NextEvent, TypeOK
  <2>3. CASE CloseAttempt(w) \/ AbortAttempt(w)
    BY <1>t, <2>3 DEF RowsStay, Open, CloseAttempt, AbortAttempt, SetStatus, TypeOK
  <2> QED BY <1>1, <2>1, <2>2, <2>3
<1>2. ASSUME NEW w \in Workers, CreateAttempt(w) PROVE RowsStay \/ RowComes(w)
  BY <1>t, <1>2 DEF RowsStay, Open, CreateAttempt, RowComes, Go, stripe
<1>3. UNCHANGED attempt => RowsStay
  BY DEF RowsStay, Open
<1> QED BY <1>1, <1>2, <1>3, Writers

LEMMA NumberedStep == Typed /\ Numbered /\ [Next]_vars => Numbered'
<1> SUFFICES ASSUME Typed, Numbered, [Next]_vars PROVE Numbered'
  OBVIOUS
<1>t. TypeOK /\ Created \in 0..MaxAttempts /\ MaxAttempts \in Nat
  BY CreatedType, BillingAssumption DEF Typed
<1>1. CASE RowsStay
  <2>1. {a \in Attempts : attempt'[a] # "none"} = {a \in Attempts : attempt[a] # "none"}
    BY <1>1 DEF RowsStay
  <2>2. Created' = Created
    BY <2>1 DEF Created
  <2> QED BY <1>1, <2>2 DEF RowsStay, Numbered
<1>2. ASSUME NEW w \in Workers, RowComes(w) PROVE Numbered'
  <2>1. Created + 1 \in Attempts
    BY <1>t, <1>2 DEF RowComes, Attempts
  <2>2. \A a \in Attempts : attempt'[a] # "none" <=> a <= Created + 1
    <3>1. \A a \in Attempts : a <= Created + 1 <=> a <= Created \/ a = Created + 1
      BY <1>t DEF Attempts
    <3>2. \A a \in Attempts : attempt[a] # "none" <=> a <= Created
      BY DEF Numbered
    <3>3. \A a \in Attempts : attempt'[a] = IF a = Created + 1 THEN "open" ELSE attempt[a]
      BY <1>t, <1>2, <2>1 DEF RowComes, TypeOK
    <3> QED BY <3>1, <3>2, <3>3
  <2>3. PICK n \in Nat : n = Created + 1 /\ n <= MaxAttempts
    BY <1>t, <2>1 DEF Attempts
  <2>4. {a \in Attempts : attempt'[a] # "none"} = 1..n
    BY <1>t, <2>2, <2>3 DEF Attempts
  <2>6. Created' = n
    <3>1. Cardinality(1..n) = n
      BY FS_Interval
    <3> QED BY <2>4, <3>1 DEF Created
  <2>5. \A a \in Attempts : Open(a)' => a = Created + 1
    BY <1>t, <1>2 DEF RowComes, Open, TypeOK
  <2> QED BY <2>2, <2>3, <2>5, <2>6 DEF Numbered
<1> QED BY <1>1, <1>2, Rows

LEMMA Creations ==
  ASSUME Typed, NEW w \in Workers, CreateAttempt(w)
  PROVE  \/ RowComes(w)
         \/ Return(w) /\ Unlock(w) /\ bound' = TRUE
            /\ UNCHANGED <<stripe, ledger, known, current, granted, seenUpTo>>
BY DEF CreateAttempt, RowComes, Go, stripe, ledger

LEMMA SessionsStep ==
  Typed /\ Roles /\ Numbered /\ Sessions /\ InMaking /\ [Next]_vars => Sessions'
<1> SUFFICES ASSUME Typed, Roles, Numbered, Sessions, InMaking, [Next]_vars PROVE Sessions'
  OBVIOUS
<1>t. TypeOK /\ Placed /\ Roles /\ InMaking /\ 0 \notin Attempts /\ 0..MaxAttempts = Attempts \cup {0}
  BY BillingAssumption DEF Typed, Attempts
<1>m. \A a \in Attempts : attempt[a] # "none" => attempt'[a] # "none"
  <2>1. ASSUME NEW w \in Workers, RowComes(w), NEW a \in Attempts, attempt[a] # "none"
        PROVE  attempt'[a] # "none"
    BY <1>t, <2>1 DEF RowComes, TypeOK
  <2> QED BY <2>1, Rows DEF RowsStay
<1> USE DEF Sessions

<1>1. ASSUME NEW w \in Workers, AcquireLock(w) PROVE Sessions'
  BY <1>t, <1>m, <1>1 DEF AcquireLock, stripe, ledger, local, TypeOK
<1>2. ASSUME NEW w \in Workers, LoseLock(w) PROVE Sessions'
  BY <1>t, <1>m, <1>2 DEF LoseLock, stripe, ledger, local, TypeOK
<1>3. ASSUME NEW w \in Workers, ListSubscriptions(w) PROVE Sessions'
  BY <1>t, <1>m, <1>3 DEF ListSubscriptions, stripe, ledger, TypeOK
<1>4. ASSUME NEW w \in Workers, Upsert(w) PROVE Sessions'
  BY <1>t, <1>m, <1>4 DEF Upsert, stripe, ledger, TypeOK
<1>5. ASSUME NEW w \in Workers, SetCurrent(w) PROVE Sessions'
  BY <1>t, <1>m, <1>5 DEF SetCurrent, stripe, ledger, local, TypeOK
<1>6. ASSUME NEW w \in Workers, CompleteAttempt(w) PROVE Sessions'
  BY <1>t, <1>m, <1>6 DEF CompleteAttempt, stripe, local, TypeOK
<1>7. ASSUME NEW w \in Workers, Materialize(w) PROVE Sessions'
  BY <1>t, <1>m, <1>7 DEF Materialize, Go, Return, Forget, stripe, ledger, TypeOK
<1>8. ASSUME NEW w \in Workers, NEW j \in Jobs, Schedule(w, j) PROVE Sessions'
  BY <1>t, <1>m, <1>8 DEF Schedule, Begin, stripe, ledger, local, TypeOK
<1>9. ASSUME NEW w \in Workers, NEW ks \in SUBSET Events, ClaimEvents(w, ks) PROVE Sessions'
  BY <1>t, <1>m, <1>9 DEF ClaimEvents, Begin, stripe, ledger, TypeOK
<1>10. ASSUME NEW w \in Workers, NextEvent(w) PROVE Sessions'
  BY <1>t, <1>m, <1>10 DEF NextEvent, stripe, local, TypeOK
<1>11. ASSUME NEW w \in Workers, MarkProcessed(w) PROVE Sessions'
  BY <1>t, <1>m, <1>11 DEF MarkProcessed, SettleEvent, Go, Return, Forget, stripe, ledger, TypeOK
<1>12. ASSUME NEW w \in Workers, MarkFailed(w) PROVE Sessions'
  BY <1>t, <1>m, <1>12 DEF MarkFailed, SettleEvent, Go, Return, Forget, stripe, ledger, TypeOK
<1>13. ASSUME NEW w \in Workers, CheckCurrent(w) PROVE Sessions'
  BY <1>t, <1>m, <1>13 DEF CheckCurrent, Go, Return, Forget, stripe, ledger, local, TypeOK
<1>14. ASSUME NEW w \in Workers, FindNone(w) PROVE Sessions'
  BY <1>t, <1>m, <1>14 DEF FindNone, Go, Return, Forget, stripe, ledger, local, TypeOK
<1>15. ASSUME NEW w \in Workers, ReuseAttempt(w) PROVE Sessions'
  BY <1>t, <1>m, <1>15 DEF ReuseAttempt, Return, Forget, stripe, ledger, TypeOK
<1>16. ASSUME NEW w \in Workers, CloseOpen(w) PROVE Sessions'
  BY <1>t, <1>m, <1>16 DEF CloseOpen, Open, stripe, ledger, TypeOK
<1>17. ASSUME NEW w \in Workers, ExpireSession(w) PROVE Sessions'
  <2>1. PICK a \in Attempts : a = target[w]
    BY <1>t, <1>17 DEF ExpireSession, Roles
  <2>2. UNCHANGED <<sub, attempt, attached, target>>
    BY <1>17 DEF ExpireSession, ledger, local
  <2>3. CASE UNCHANGED <<session, expiryOf>>
    BY <2>2, <2>3
  <2>4. CASE session[a] = "open" /\ EndSession(a)
    <3>1. \A b \in Attempts : session'[b] = IF b = a THEN "expired" ELSE session[b]
      BY <1>t, <2>4 DEF EndSession, TypeOK
    <3>2. \A k \in Events : expiryOf'[k] = expiryOf[k] \/ expiryOf'[k] = a
      BY <1>t, <2>4 DEF EndSession, TypeOK
    <3>3. \A k \in Events : expiryOf[k] # 0 => expiryOf[k] \in Attempts
      BY <1>t DEF TypeOK
    <3> QED BY <1>t, <2>2, <2>4, <3>1, <3>2, <3>3
  <2> QED BY <1>17, <2>1, <2>3, <2>4 DEF ExpireSession
<1>18. ASSUME NEW w \in Workers, LookupSession(w) PROVE Sessions'
  <2>1. UNCHANGED <<stripe, ledger>>
    BY <1>18, Lookups
  <2>2. UNCHANGED target \/ target' = [target EXCEPT ![w] = 0]
    BY <1>18, Lookups DEF Return, Forget, Reconcile
  <2> QED BY <1>t, <2>1, <2>2 DEF stripe, ledger, TypeOK
<1>19. ASSUME NEW w \in Workers, CloseAttempt(w) PROVE Sessions'
  BY <1>t, <1>m, <1>19 DEF CloseAttempt, Go, Return, Reconcile, Forget, stripe, local, TypeOK
<1>20. ASSUME NEW w \in Workers, CreateAttempt(w) PROVE Sessions'
  <2>1. CASE RowComes(w)
    <3>1. Created + 1 \in Attempts /\ UNCHANGED <<stripe, attached>>
      BY <2>1, CreatedType, BillingAssumption DEF RowComes, Attempts
    <3> QED BY <1>t, <1>m, <2>1, <3>1 DEF RowComes, stripe, TypeOK
  <2>2. CASE Return(w) /\ UNCHANGED <<stripe, ledger>>
    BY <1>t, <1>m, <2>2 DEF Return, Forget, stripe, ledger, TypeOK
  <2> QED BY <1>20, <2>1, <2>2, Creations
<1>21. ASSUME NEW w \in Workers, CreateSession(w) PROVE Sessions'
  BY <1>t, <1>m, <1>21 DEF CreateSession, ledger, local, TypeOK, Placed, InMaking
<1>22. ASSUME NEW w \in Workers, AttachSession(w) PROVE Sessions'
  BY <1>t, <1>m, <1>22 DEF AttachSession, Return, Forget, stripe, TypeOK, Placed
<1>23. ASSUME NEW w \in Workers, AbortAttempt(w) PROVE Sessions'
  BY <1>t, <1>m, <1>23 DEF AbortAttempt, Return, Forget, stripe, TypeOK
<1>24. ASSUME NEW w \in Workers, CreateFails(w) PROVE Sessions'
  BY <1>t, <1>m, <1>24 DEF CreateFails, ledger, local, TypeOK, Placed, InMaking
<1>25. ASSUME NEW w \in Workers, Fails(w) PROVE Sessions'
  BY <1>t, <1>m, <1>25 DEF Fails, Go, Return, Forget, stripe, ledger, TypeOK
<1>26. ASSUME NEW w \in Workers, Crash(w) PROVE Sessions'
  BY <1>t, <1>m, <1>26 DEF Crash, Return, Forget, stripe, ledger, TypeOK
<1>27. ASSUME NEW w \in Workers, StartCheckout(w) PROVE Sessions'
  BY <1>t, <1>m, <1>27 DEF StartCheckout, Begin, stripe, ledger, local, TypeOK
<1>28. ASSUME NEW w \in Workers, CancelCheckout(w) PROVE Sessions'
  BY <1>t, <1>m, <1>28 DEF CancelCheckout, Begin, stripe, ledger, local, TypeOK
<1>29. ASSUME NEW w \in Workers, NEW a \in Attempts, ConfirmReturn(w, a) PROVE Sessions'
  BY <1>t, <1>m, <1>29 DEF ConfirmReturn, Begin, stripe, ledger, TypeOK
<1>30. ASSUME NEW w \in Workers, NEW a \in Attempts, Sweep(w, a) PROVE Sessions'
  BY <1>t, <1>m, <1>30 DEF Sweep, Begin, Open, stripe, ledger, TypeOK
<1>31. ASSUME NEW a \in Attempts, Pay(a) PROVE Sessions'
  BY <1>t, <1>m, <1>31 DEF Pay, Announce, ledger, local, TypeOK
<1>32. ASSUME NEW a \in Attempts, ChangeSubscription(a) PROVE Sessions'
  BY <1>t, <1>m, <1>32 DEF ChangeSubscription, Announce, Live, SubStatus, ledger, local, TypeOK
<1>33. ASSUME NEW a \in Attempts, SessionExpires(a) PROVE Sessions'
  <2>1. session[a] = "open" /\ EndSession(a) /\ UNCHANGED <<sub, attempt, attached, target>>
    BY <1>33 DEF SessionExpires, ledger, local
  <2>2. \A b \in Attempts : session'[b] = IF b = a THEN "expired" ELSE session[b]
    BY <1>t, <2>1 DEF EndSession, TypeOK
  <2>3. \A k \in Events : expiryOf'[k] = expiryOf[k] \/ expiryOf'[k] = a
    BY <1>t, <2>1 DEF EndSession, TypeOK
  <2>4. \A k \in Events : expiryOf[k] # 0 => expiryOf[k] \in Attempts
    BY <1>t DEF TypeOK
  <2> QED BY <1>t, <2>1, <2>2, <2>3, <2>4
<1>34. ASSUME NEW k \in Events, ReceiveEvent(k) PROVE Sessions'
  BY <1>t, <1>m, <1>34 DEF ReceiveEvent, stripe, ledger, local, TypeOK
<1>35. ASSUME NEW k \in Events, RetryEvent(k) PROVE Sessions'
  BY <1>t, <1>m, <1>35 DEF RetryEvent, stripe, ledger, local, TypeOK
<1>36. CASE UNCHANGED vars
  BY <1>t, <1>m, <1>36 DEF vars, stripe, ledger, local, TypeOK
<1> QED
  BY <1>1, <1>2, <1>3, <1>4, <1>5, <1>6, <1>7, <1>8, <1>9, <1>10, <1>11, <1>12, <1>13, <1>14, <1>15,
     <1>16, <1>17, <1>18, <1>19, <1>20, <1>21, <1>22, <1>23, <1>24, <1>25, <1>26, <1>27, <1>28, <1>29,
     <1>30, <1>31, <1>32, <1>33, <1>34, <1>35, <1>36
     DEF Next, Step, ReconcileStep, InboxStep, CheckoutStep

LEMMA InMakingStep ==
  OnePerson /\ Typed /\ Roles /\ Numbered /\ Sessions /\ InMaking /\ [Next]_vars => InMaking'
<1> SUFFICES ASSUME OnePerson, Typed, Roles, Numbered, Sessions, InMaking, [Next]_vars
             PROVE  InMaking'
  OBVIOUS
<1>t. TypeOK /\ Placed /\ Roles /\ Sessions /\ OnePerson /\ 0 \notin Attempts
  BY BillingAssumption DEF Typed, Attempts
<1> USE DEF InMaking

<1>1. ASSUME NEW w \in Workers, AcquireLock(w) PROVE InMaking'
  BY <1>t, <1>1 DEF AcquireLock, stripe, ledger, local, TypeOK, Placed
<1>2. ASSUME NEW w \in Workers, LoseLock(w) PROVE InMaking'
  BY <1>t, <1>2 DEF LoseLock, stripe, ledger, local, TypeOK, Placed
<1>3. ASSUME NEW w \in Workers, ListSubscriptions(w) PROVE InMaking'
  BY <1>t, <1>3 DEF ListSubscriptions, stripe, ledger, TypeOK, Placed
<1>4. ASSUME NEW w \in Workers, Upsert(w) PROVE InMaking'
  BY <1>t, <1>4 DEF Upsert, stripe, ledger, TypeOK, Placed
<1>5. ASSUME NEW w \in Workers, SetCurrent(w) PROVE InMaking'
  BY <1>t, <1>5 DEF SetCurrent, stripe, ledger, local, TypeOK, Placed
<1>6. ASSUME NEW w \in Workers, CompleteAttempt(w) PROVE InMaking'
  BY <1>t, <1>6 DEF CompleteAttempt, stripe, local, TypeOK, Placed
<1>7. ASSUME NEW w \in Workers, Materialize(w) PROVE InMaking'
  BY <1>t, <1>7 DEF Materialize, Go, Return, Forget, stripe, ledger, TypeOK, Placed
<1>8. ASSUME NEW w \in Workers, NEW j \in Jobs, Schedule(w, j) PROVE InMaking'
  BY <1>t, <1>8 DEF Schedule, Begin, stripe, ledger, local, TypeOK, Placed
<1>9. ASSUME NEW w \in Workers, NEW ks \in SUBSET Events, ClaimEvents(w, ks) PROVE InMaking'
  BY <1>t, <1>9 DEF ClaimEvents, Begin, stripe, ledger, TypeOK, Placed
<1>10. ASSUME NEW w \in Workers, NextEvent(w) PROVE InMaking'
  BY <1>t, <1>10 DEF NextEvent, stripe, local, TypeOK, Placed
<1>11. ASSUME NEW w \in Workers, MarkProcessed(w) PROVE InMaking'
  BY <1>t, <1>11 DEF MarkProcessed, SettleEvent, Go, Return, Forget, stripe, ledger, TypeOK, Placed
<1>12. ASSUME NEW w \in Workers, MarkFailed(w) PROVE InMaking'
  BY <1>t, <1>12 DEF MarkFailed, SettleEvent, Go, Return, Forget, stripe, ledger, TypeOK, Placed
<1>13. ASSUME NEW w \in Workers, CheckCurrent(w) PROVE InMaking'
  BY <1>t, <1>13 DEF CheckCurrent, Go, Return, Forget, stripe, ledger, local, TypeOK, Placed
<1>14. ASSUME NEW w \in Workers, FindNone(w) PROVE InMaking'
  BY <1>t, <1>14 DEF FindNone, Go, Return, Forget, stripe, ledger, local, TypeOK, Placed
<1>15. ASSUME NEW w \in Workers, ReuseAttempt(w) PROVE InMaking'
  BY <1>t, <1>15 DEF ReuseAttempt, Return, Forget, stripe, ledger, TypeOK, Placed
<1>16. ASSUME NEW w \in Workers, CloseOpen(w) PROVE InMaking'
  BY <1>t, <1>16 DEF CloseOpen, stripe, ledger, TypeOK, Placed, Roles, OnePerson
<1>17. ASSUME NEW w \in Workers, ExpireSession(w) PROVE InMaking'
  BY <1>t, <1>17 DEF ExpireSession, EndSession, ledger, local, TypeOK, Placed
<1>18. ASSUME NEW w \in Workers, LookupSession(w) PROVE InMaking'
  BY <1>t, <1>18, Lookups DEF Go, Return, Forget, Reconcile, stripe, ledger, TypeOK, Placed
<1>19. ASSUME NEW w \in Workers, CloseAttempt(w) PROVE InMaking'
  BY <1>t, <1>19 DEF CloseAttempt, Go, Return, Reconcile, Forget, stripe, local, TypeOK, Placed
<1>20. ASSUME NEW w \in Workers, CreateAttempt(w) PROVE InMaking'
  <2>1. CASE RowComes(w)
    <3>1. Created + 1 \in Attempts /\ attempt[Created + 1] = "none"
      BY <2>1, CreatedType, BillingAssumption DEF RowComes, Attempts, Numbered
    <3>2. /\ Created + 1 \notin attached /\ session[Created + 1] = "none"
          /\ \A v \in Workers : target[v] # Created + 1
      BY <1>t, <3>1 DEF Sessions
    <3> QED BY <1>t, <2>1, <3>1, <3>2 DEF RowComes, stripe, TypeOK, Placed, Roles, OnePerson
  <2>2. CASE Return(w) /\ UNCHANGED <<stripe, ledger>>
    BY <1>t, <2>2 DEF Return, Forget, stripe, ledger, TypeOK, Placed
  <2> QED BY <1>20, <2>1, <2>2, Creations
<1>21. ASSUME NEW w \in Workers, CreateSession(w) PROVE InMaking'
  BY <1>t, <1>21 DEF CreateSession, ledger, local, TypeOK, Placed
<1>22. ASSUME NEW w \in Workers, AttachSession(w) PROVE InMaking'
  BY <1>t, <1>22 DEF AttachSession, Return, Forget, stripe, TypeOK, Placed
<1>23. ASSUME NEW w \in Workers, AbortAttempt(w) PROVE InMaking'
  BY <1>t, <1>23 DEF AbortAttempt, Return, Forget, stripe, TypeOK, Placed
<1>24. ASSUME NEW w \in Workers, CreateFails(w) PROVE InMaking'
  BY <1>t, <1>24 DEF CreateFails, ledger, local, TypeOK, Placed
<1>25. ASSUME NEW w \in Workers, Fails(w) PROVE InMaking'
  BY <1>t, <1>25 DEF Fails, Go, Return, Forget, stripe, ledger, TypeOK, Placed
<1>26. ASSUME NEW w \in Workers, Crash(w) PROVE InMaking'
  BY <1>t, <1>26 DEF Crash, Return, Forget, stripe, ledger, TypeOK, Placed
<1>27. ASSUME NEW w \in Workers, StartCheckout(w) PROVE InMaking'
  BY <1>t, <1>27 DEF StartCheckout, Begin, stripe, ledger, local, TypeOK, Placed
<1>28. ASSUME NEW w \in Workers, CancelCheckout(w) PROVE InMaking'
  BY <1>t, <1>28 DEF CancelCheckout, Begin, stripe, ledger, local, TypeOK, Placed
<1>29. ASSUME NEW w \in Workers, NEW a \in Attempts, ConfirmReturn(w, a) PROVE InMaking'
  BY <1>t, <1>29 DEF ConfirmReturn, Begin, stripe, ledger, TypeOK, Placed
<1>30. ASSUME NEW w \in Workers, NEW a \in Attempts, Sweep(w, a) PROVE InMaking'
  BY <1>t, <1>30 DEF Sweep, Begin, stripe, ledger, TypeOK, Placed
<1>31. ASSUME NEW a \in Attempts, Pay(a) PROVE InMaking'
  BY <1>t, <1>31 DEF Pay, ledger, local, TypeOK, Placed
<1>32. ASSUME NEW a \in Attempts, ChangeSubscription(a) PROVE InMaking'
  BY <1>t, <1>32 DEF ChangeSubscription, ledger, local, TypeOK, Placed
<1>33. ASSUME NEW a \in Attempts, SessionExpires(a) PROVE InMaking'
  BY <1>t, <1>33 DEF SessionExpires, EndSession, ledger, local, TypeOK, Placed
<1>34. ASSUME NEW k \in Events, ReceiveEvent(k) PROVE InMaking'
  BY <1>t, <1>34 DEF ReceiveEvent, stripe, ledger, local, TypeOK, Placed
<1>35. ASSUME NEW k \in Events, RetryEvent(k) PROVE InMaking'
  BY <1>t, <1>35 DEF RetryEvent, stripe, ledger, local, TypeOK, Placed
<1>36. CASE UNCHANGED vars
  BY <1>t, <1>36 DEF vars, stripe, ledger, local, TypeOK, Placed
<1> QED
  BY <1>1, <1>2, <1>3, <1>4, <1>5, <1>6, <1>7, <1>8, <1>9, <1>10, <1>11, <1>12, <1>13, <1>14, <1>15,
     <1>16, <1>17, <1>18, <1>19, <1>20, <1>21, <1>22, <1>23, <1>24, <1>25, <1>26, <1>27, <1>28, <1>29,
     <1>30, <1>31, <1>32, <1>33, <1>34, <1>35, <1>36
     DEF Next, Step, ReconcileStep, InboxStep, CheckoutStep

\* A request that asks for a session to close it knows that it is not open any
\* more.  Whoever closes an attempt, nobody can pay for it: it was not handed out,
\* it expired, or it was paid, which a request knows and the sweep may not.
Closing ==
  \A w \in Workers :
    /\ pc[w] = "lookup" /\ job[w] \in {"start", "cancel"} => session[target[w]] # "open"
    /\ pc[w] = "close" =>
         \/ target[w] \notin attached
         \/ session[target[w]] = "expired"
         \/ session[target[w]] = "complete" /\ job[w] \in {"start", "cancel"} /\ seen[w] = "complete"
         \/ session[target[w]] = "complete" /\ job[w] = "sweep"

LEMMA ClosingStep == Typed /\ Roles /\ InMaking /\ Closing /\ [Next]_vars => Closing'
<1> SUFFICES ASSUME Typed, Roles, InMaking, Closing, [Next]_vars PROVE Closing'
  OBVIOUS
<1>t. TypeOK /\ Placed /\ Roles /\ InMaking
  BY DEF Typed
<1> USE DEF Closing

<1>1. ASSUME NEW w \in Workers, AcquireLock(w) PROVE Closing'
  BY <1>t, <1>1 DEF AcquireLock, stripe, ledger, local, TypeOK, Roles, Placed
<1>2. ASSUME NEW w \in Workers, LoseLock(w) PROVE Closing'
  BY <1>t, <1>2 DEF LoseLock, stripe, ledger, local, TypeOK, Roles, Placed
<1>3. ASSUME NEW w \in Workers, ListSubscriptions(w) PROVE Closing'
  BY <1>t, <1>3 DEF ListSubscriptions, stripe, ledger, TypeOK, Roles, Placed
<1>4. ASSUME NEW w \in Workers, Upsert(w) PROVE Closing'
  BY <1>t, <1>4 DEF Upsert, stripe, ledger, TypeOK, Roles, Placed
<1>5. ASSUME NEW w \in Workers, SetCurrent(w) PROVE Closing'
  BY <1>t, <1>5 DEF SetCurrent, stripe, ledger, local, TypeOK, Roles, Placed
<1>6. ASSUME NEW w \in Workers, CompleteAttempt(w) PROVE Closing'
  BY <1>t, <1>6 DEF CompleteAttempt, stripe, local, TypeOK, Roles, Placed
<1>7. ASSUME NEW w \in Workers, Materialize(w) PROVE Closing'
  BY <1>t, <1>7 DEF Materialize, Go, Return, Forget, stripe, ledger, TypeOK, Roles, Placed
<1>8. ASSUME NEW w \in Workers, NEW j \in Jobs, Schedule(w, j) PROVE Closing'
  BY <1>t, <1>8 DEF Schedule, Begin, stripe, ledger, local, TypeOK, Roles, Placed
<1>9. ASSUME NEW w \in Workers, NEW ks \in SUBSET Events, ClaimEvents(w, ks) PROVE Closing'
  BY <1>t, <1>9 DEF ClaimEvents, Begin, stripe, ledger, TypeOK, Roles, Placed
<1>10. ASSUME NEW w \in Workers, NextEvent(w) PROVE Closing'
  BY <1>t, <1>10 DEF NextEvent, stripe, local, TypeOK, Roles, Placed
<1>11. ASSUME NEW w \in Workers, MarkProcessed(w) PROVE Closing'
  BY <1>t, <1>11 DEF MarkProcessed, SettleEvent, Go, Return, Forget, stripe, ledger, TypeOK, Roles,
     Placed
<1>12. ASSUME NEW w \in Workers, MarkFailed(w) PROVE Closing'
  BY <1>t, <1>12 DEF MarkFailed, SettleEvent, Go, Return, Forget, stripe, ledger, TypeOK, Roles, Placed
<1>13. ASSUME NEW w \in Workers, CheckCurrent(w) PROVE Closing'
  BY <1>t, <1>13 DEF CheckCurrent, Go, Return, Forget, stripe, ledger, local, TypeOK, Roles, Placed
<1>14. ASSUME NEW w \in Workers, FindNone(w) PROVE Closing'
  BY <1>t, <1>14 DEF FindNone, Go, Return, Forget, stripe, ledger, local, TypeOK, Roles, Placed
<1>15. ASSUME NEW w \in Workers, ReuseAttempt(w) PROVE Closing'
  BY <1>t, <1>15 DEF ReuseAttempt, Return, Forget, stripe, ledger, TypeOK, Roles, Placed
<1>16. ASSUME NEW w \in Workers, CloseOpen(w) PROVE Closing'
  BY <1>t, <1>16 DEF CloseOpen, stripe, ledger, TypeOK, Roles, Placed
<1>17. ASSUME NEW w \in Workers, ExpireSession(w) PROVE Closing'
  <2>1. pc[w] = "expire" /\ target[w] \in attached /\ job[w] \in {"start", "cancel", "sweep"}
    BY <1>t, <1>17 DEF ExpireSession, Placed
  <2>2. session[target[w]] \in {"open", "complete", "expired"} /\ target[w] \in Attempts
    BY <1>t, <2>1 DEF Typed, TypeOK
  <2>3. /\ session' = [session EXCEPT ![target[w]] =
             IF session[target[w]] = "open" THEN "expired" ELSE @]
        /\ UNCHANGED <<attached, job, target, seen>>
    BY <1>t, <1>17 DEF ExpireSession, EndSession, ledger, local, TypeOK
  <2>4. pc' = [pc EXCEPT ![w] = IF job[w] = "sweep" THEN "close" ELSE "lookup"]
    BY <1>17 DEF ExpireSession
  <2> QED BY <1>t, <2>1, <2>2, <2>3, <2>4 DEF TypeOK
<1>18. ASSUME NEW w \in Workers, LookupSession(w) PROVE Closing'
  <2>1. UNCHANGED <<session, attached>>
    BY <1>18, Lookups DEF stripe, ledger
  <2>2. CASE Return(w)
    BY <1>t, <2>1, <2>2 DEF Return, Forget, TypeOK
  <2>3. CASE Reconcile(w)
    BY <1>t, <2>1, <2>3 DEF Reconcile, Forget, TypeOK
  <2>4. CASE /\ job[w] \in {"start", "cancel"} \/ session[target[w]] = "expired"
             /\ Go(w, "close") /\ seen' = [seen EXCEPT ![w] = session[target[w]]]
             /\ UNCHANGED target
    <3>1. session[target[w]] \in {"complete", "expired"}
      BY <1>t, <2>4, <1>18 DEF LookupSession, Typed, TypeOK, Placed
    <3> QED BY <1>t, <2>1, <2>4, <3>1 DEF Go, TypeOK
  <2>5. CASE /\ Go(w, "expire") /\ seen' = [seen EXCEPT ![w] = session[target[w]]]
             /\ UNCHANGED target
    BY <1>t, <2>1, <2>5 DEF Go, TypeOK
  <2> QED BY <1>18, <2>2, <2>3, <2>4, <2>5, Lookups
<1>19. ASSUME NEW w \in Workers, CloseAttempt(w) PROVE Closing'
  BY <1>t, <1>19 DEF CloseAttempt, Go, Return, Reconcile, Forget, stripe, local, TypeOK, Roles, Placed
<1>20. ASSUME NEW w \in Workers, CreateAttempt(w) PROVE Closing'
  <2>1. CASE RowComes(w)
    BY <1>t, <2>1 DEF RowComes, stripe, TypeOK
  <2>2. CASE Return(w) /\ UNCHANGED <<stripe, ledger>>
    BY <1>t, <2>2 DEF Return, Forget, stripe, ledger, TypeOK
  <2> QED BY <1>20, <2>1, <2>2, Creations
<1>21. ASSUME NEW w \in Workers, CreateSession(w) PROVE Closing'
  BY <1>t, <1>21 DEF CreateSession, ledger, local, TypeOK, Placed, InMaking, Roles
<1>22. ASSUME NEW w \in Workers, AttachSession(w) PROVE Closing'
  BY <1>t, <1>22 DEF AttachSession, Return, Forget, stripe, TypeOK, Placed, InMaking, Roles
<1>23. ASSUME NEW w \in Workers, AbortAttempt(w) PROVE Closing'
  BY <1>t, <1>23 DEF AbortAttempt, Return, Forget, stripe, TypeOK, Roles, Placed
<1>24. ASSUME NEW w \in Workers, CreateFails(w) PROVE Closing'
  BY <1>t, <1>24 DEF CreateFails, ledger, local, TypeOK, Placed, InMaking, Roles
<1>25. ASSUME NEW w \in Workers, Fails(w) PROVE Closing'
  BY <1>t, <1>25 DEF Fails, Go, Return, Forget, stripe, ledger, TypeOK, Roles, Placed
<1>26. ASSUME NEW w \in Workers, Crash(w) PROVE Closing'
  BY <1>t, <1>26 DEF Crash, Return, Forget, stripe, ledger, TypeOK, Roles, Placed
<1>27. ASSUME NEW w \in Workers, StartCheckout(w) PROVE Closing'
  BY <1>t, <1>27 DEF StartCheckout, Begin, stripe, ledger, local, TypeOK, Roles, Placed
<1>28. ASSUME NEW w \in Workers, CancelCheckout(w) PROVE Closing'
  BY <1>t, <1>28 DEF CancelCheckout, Begin, stripe, ledger, local, TypeOK, Roles, Placed
<1>29. ASSUME NEW w \in Workers, NEW a \in Attempts, ConfirmReturn(w, a) PROVE Closing'
  BY <1>t, <1>29 DEF ConfirmReturn, Begin, stripe, ledger, TypeOK, Roles, Placed
<1>30. ASSUME NEW w \in Workers, NEW a \in Attempts, Sweep(w, a) PROVE Closing'
  BY <1>t, <1>30 DEF Sweep, Begin, stripe, ledger, TypeOK, Roles, Placed
<1>31. ASSUME NEW a \in Attempts, Pay(a) PROVE Closing'
  BY <1>t, <1>31 DEF Pay, ledger, local, TypeOK, Roles, Placed
<1>32. ASSUME NEW a \in Attempts, ChangeSubscription(a) PROVE Closing'
  BY <1>t, <1>32 DEF ChangeSubscription, ledger, local, TypeOK, Roles, Placed
<1>33. ASSUME NEW a \in Attempts, SessionExpires(a) PROVE Closing'
  BY <1>t, <1>33 DEF SessionExpires, EndSession, ledger, local, TypeOK, Roles, Placed
<1>34. ASSUME NEW k \in Events, ReceiveEvent(k) PROVE Closing'
  BY <1>t, <1>34 DEF ReceiveEvent, stripe, ledger, local, TypeOK, Roles, Placed
<1>35. ASSUME NEW k \in Events, RetryEvent(k) PROVE Closing'
  BY <1>t, <1>35 DEF RetryEvent, stripe, ledger, local, TypeOK, Roles, Placed
<1>36. CASE UNCHANGED vars
  BY <1>t, <1>36 DEF vars, stripe, ledger, local, TypeOK, Roles, Placed
<1> QED
  BY <1>1, <1>2, <1>3, <1>4, <1>5, <1>6, <1>7, <1>8, <1>9, <1>10, <1>11, <1>12, <1>13, <1>14, <1>15,
     <1>16, <1>17, <1>18, <1>19, <1>20, <1>21, <1>22, <1>23, <1>24, <1>25, <1>26, <1>27, <1>28, <1>29,
     <1>30, <1>31, <1>32, <1>33, <1>34, <1>35, <1>36
     DEF Next, Step, ReconcileStep, InboxStep, CheckoutStep

-----------------------------------------------------------------------------
(* Choosing the current subscription *)

LEMMA Chosen ==
  ASSUME Typed, NEW subs \in [Attempts -> SubStatus]
  PROVE  /\ ChooseCurrent(subs) # 0 =>
              ChooseCurrent(subs) \in Attempts /\ subs[ChooseCurrent(subs)] # "none"
         /\ \A s \in Attempts :
              subs[s] \in Live /\ (\A t \in Attempts : subs[t] \in Live => t = s)
                => ChooseCurrent(subs) = s
<1> DEFINE with(status) == {a \in Attempts : subs[a] = status}
           newest(among) == CHOOSE a \in among : \A b \in among :
                           since[b] < since[a] \/ (since[b] = since[a] /\ b <= a)
<1>1. ASSUME NEW among \in SUBSET Attempts, among # {} PROVE newest(among) \in among
  <2>1. \E a \in among : \A b \in among : since[b] < since[a] \/ (since[b] = since[a] /\ b <= a)
    BY <1>1, Newest DEF Typed, TypeOK
  <2> QED BY <2>1
<1>2. \A status : with(status) \in SUBSET Attempts /\ \A a \in with(status) : subs[a] = status
  OBVIOUS
<1>3. ASSUME NEW s \in Attempts, subs[s] \in Live, \A t \in Attempts : subs[t] \in Live => t = s
      PROVE  \/ with("active") = {s}
             \/ with("active") = {} /\ with("past_due") = {s}
  BY <1>3 DEF Live
<1>4. ChooseCurrent(subs) =
        IF with("active") # {} THEN newest(with("active"))
        ELSE IF with("past_due") # {} THEN newest(with("past_due"))
        ELSE IF with("canceled") # {} THEN newest(with("canceled"))
        ELSE 0
  BY DEF ChooseCurrent
<1>5. 0 \notin Attempts
  BY BillingAssumption DEF Attempts
<1> HIDE DEF with, newest
<1>6. ASSUME ChooseCurrent(subs) # 0
      PROVE  ChooseCurrent(subs) \in Attempts /\ subs[ChooseCurrent(subs)] # "none"
  BY <1>1, <1>2, <1>4, <1>6
<1>7. ASSUME NEW s \in Attempts, subs[s] \in Live, \A t \in Attempts : subs[t] \in Live => t = s
      PROVE  ChooseCurrent(subs) = s
  BY <1>1, <1>2, <1>3, <1>4, <1>7
<1> QED BY <1>6, <1>7

-----------------------------------------------------------------------------
(* What closes an attempt *)

Sole   == \A s, t \in Attempts : sub[s] \in Live /\ sub[t] \in Live => s = t
OfOpen == \A s, a \in Attempts : sub[s] \in Live /\ Open(a) => a = s

\* A session that can be paid, or will be, is that of the open attempt; a
\* subscription began with the last attempt of its time; one lives at most, and
\* none beside the open attempt's.
Tracked ==
  /\ \A a \in attached : session[a] = "open" => Open(a)
  /\ \A w \in Workers : pc[w] \in {"session", "attach"} => Open(target[w])
  /\ \A s \in Attempts : sub[s] # "none" => since[s] = s
  /\ Sole /\ OfOpen

\* What a worker that holds the lock listed, against what is true by now: only
\* the open attempt may have been paid since.
Reads(w) ==
  LET subs == snap[w].subs
  IN \A s \in Attempts :
       /\ subs[s] # "none" => sub[s] # "none"
       /\ sub[s] \in Live => subs[s] \in Live \cup {"none"}
       /\ sub[s] \in Live /\ subs[s] = "none" => Open(s)
       /\ \A a \in Attempts : subs[s] \in Live /\ Open(a) => a = s
       /\ \A t \in Attempts : subs[s] \in Live /\ subs[t] \in Live => s = t
       /\ s \notin todo[w] /\ subs[s] # "none" => known[s] = subs[s]
       /\ s \in todo[w] => subs[s] # "none" /\ pc[w] = "upsert"
       /\ pc[w] = "complete" /\ subs[s] \in Live => current = s

Projecting == {"upsert", "setCurrent", "complete"}

Knows(s) == Open(s) \/ (current = s /\ known[s] \in Live)

\* A purchase between its preflight and the guard; and from the guard to the
\* new attempt.
Checked(w) == job[w] = "start" /\ pc[w] \in {"materialize", "checkout", "guard"}
Cleared(w) == job[w] = "start" /\ pc[w] \in {"find", "expire", "lookup", "close", "create"}

\* Before the guard a living subscription is known or still an open attempt;
\* after it, it is the open attempt.
Read ==
  /\ \A w \in Workers : pc[w] \in Projecting => Reads(w)
  /\ \A w \in Workers, s \in Attempts :
       /\ Checked(w) /\ sub[s] \in Live => Knows(s)
       /\ Cleared(w) /\ sub[s] \in Live => Open(s)

Ledgers == OnePerson /\ Typed /\ Strangers /\ Roles /\ Numbered /\ Sessions /\ InMaking /\ Closing

\* A reconciliation completes an attempt only when it projected its subscription.
LEMMA Completed ==
  ASSUME Ledgers, Tracked, Read, NEW w \in Workers, CompleteAttempt(w),
         NEW a \in Attempts, Open(a), ~Open(a)'
  PROVE  sub[a] # "none" /\ (sub[a] \in Live => current = a /\ known[a] \in Live)
<1> DEFINE subs == snap[w].subs
           s == ChooseCurrent(subs)
<1>t. Typed /\ TypeOK /\ Numbered /\ Sessions
  BY DEF Ledgers, Typed
<1>1. subs \in [Attempts -> SubStatus]
  BY <1>t DEF TypeOK, Listing
<1>2. pc[w] = "complete" /\ Reads(w)
  BY DEF CompleteAttempt, Read, Projecting
<1>3. s # 0 /\ TRUE \in Covers(s, a, subs)
  <2> HIDE DEF s, subs
  <2>1. s = ChooseCurrent(snap[w].subs) /\ subs = snap[w].subs
    BY DEF s, subs
  <2>2. PICK cover \in [{x \in Attempts : Open(x) /\ s # 0} -> BOOLEAN] :
          /\ \A x \in {x \in Attempts : Open(x) /\ s # 0} : cover[x] \in Covers(s, x, subs)
          /\ attempt' = [x \in Attempts |->
               IF x \in {y \in Attempts : Open(y) /\ s # 0}
               THEN IF cover[x] THEN "completed" ELSE "open" ELSE attempt[x]]
    BY <2>1, Zenon DEF CompleteAttempt
  <2>3. attempt'[a] # "open" /\ attempt[a] = "open"
    BY DEF Open
  <2>4. s # 0 /\ cover[a] = TRUE
    BY <2>2, <2>3
  <2> QED BY <2>2, <2>4
<1> HIDE DEF s
<1>4. s \in Attempts /\ subs[s] # "none"
  BY <1>t, <1>1, <1>3, Chosen DEF s
<1>5. since[s] = s /\ s <= Created /\ a = Created
  BY <1>t, <1>2, <1>4 DEF Reads, Tracked, Sessions, Numbered
<1>6. s = a
  <2>1. CASE since[s] >= a
    BY <1>4, <1>5, <2>1, BillingAssumption DEF Attempts
  <2>2. CASE ~(since[s] >= a)
    <3>1. subs[s] \in Live
      BY <1>3, <2>2 DEF Covers
    <3> QED BY <1>2, <1>4, <3>1 DEF Reads
  <2> QED BY <2>1, <2>2
<1> QED BY <1>2, <1>4, <1>6 DEF Reads, Live

\* Otherwise an attempt is closed when nobody can pay for it, or by a request
\* that found it paid, unless the sweep writes it off.
LEMMA Closed ==
  ASSUME Ledgers, [Next]_vars, writtenOff' = {}, NEW a \in Attempts, Open(a), ~Open(a)'
  PROVE  \/ \E w \in Workers : CompleteAttempt(w)
         \/ /\ \A v \in Workers : pc[v] \in {"session", "attach"} => target[v] # a
            /\ \/ a \notin attached
               \/ session[a] = "expired"
               \/ /\ session[a] = "complete"
                  /\ \E w \in Workers : /\ pc[w] = "close" /\ job[w] \in {"start", "cancel"}
                                        /\ seen[w] = "complete" /\ CloseAttempt(w)
<1>t. TypeOK /\ Placed /\ Sessions /\ InMaking /\ Closing /\ Typed
  BY DEF Ledgers, Typed
<1>1. attempt'[a] # attempt[a]
  BY DEF Open
<1>2. ASSUME NEW w \in Workers, NextEvent(w)
      PROVE  a \in attached /\ session[a] = "expired"
  <2>1. a = expiryOf[First(w).of] /\ a \in attached /\ First(w) \in batch[w]
    BY <1>t, <1>1, <1>2, FirstOne DEF NextEvent, TypeOK
  <2>2. First(w).of \in Events
    BY <1>t, <2>1 DEF TypeOK
  <2> QED BY <1>t, <2>1, <2>2, BillingAssumption DEF Sessions, Attempts
<1>3. ASSUME NEW w \in Workers, CloseAttempt(w) \/ AbortAttempt(w)
      PROVE  a = target[w] /\ pc[w] \in {"close", "abort"}
  BY <1>t, <1>1, <1>3 DEF CloseAttempt, AbortAttempt, SetStatus, TypeOK
<1>4. ASSUME NEW w \in Workers, CreateAttempt(w) PROVE FALSE
  BY <1>4, <1>t, Creations, CreatedType DEF RowComes, ledger, Open
<1>5. ASSUME NEW w \in Workers, CloseAttempt(w) \/ AbortAttempt(w) \/ NextEvent(w)
      PROVE  \A v \in Workers : pc[v] \in {"session", "attach"} => target[v] # a
  BY <1>t, <1>2, <1>3, <1>5 DEF InMaking
<1>6. ASSUME NEW w \in Workers, AbortAttempt(w) PROVE a \notin attached
  BY <1>t, <1>3, <1>6 DEF InMaking, AbortAttempt
<1>7. ASSUME NEW w \in Workers, CloseAttempt(w)
      PROVE  \/ a \notin attached \/ session[a] = "expired"
             \/ /\ session[a] = "complete" /\ pc[w] = "close" /\ job[w] \in {"start", "cancel"}
                /\ seen[w] = "complete"
  <2>1. a = target[w] /\ pc[w] = "close"
    BY <1>3, <1>7 DEF CloseAttempt
  <2>2. ASSUME session[a] = "complete", job[w] = "sweep" PROVE FALSE
    <3>1. a \in writtenOff'
      BY <1>7, <2>1, <2>2 DEF CloseAttempt
    <3> QED BY <3>1
  <2> QED BY <1>t, <2>1, <2>2 DEF Closing
<1> QED BY <1>1, <1>2, <1>4, <1>5, <1>6, <1>7, Writers

\* What was written off stays so.
LEMMA WrittenForGood ==
  ASSUME [Next]_vars
  PROVE  writtenOff \subseteq writtenOff'
<1>1. ASSUME NEW w \in Workers,
             \/ AcquireLock(w) \/ LoseLock(w) \/ ListSubscriptions(w) \/ Upsert(w) \/ SetCurrent(w)
             \/ CompleteAttempt(w) \/ Materialize(w) \/ NextEvent(w)
             \/ MarkProcessed(w) \/ MarkFailed(w) \/ CheckCurrent(w) \/ FindNone(w)
             \/ \E j \in Jobs : Schedule(w, j)
             \/ \E ks \in SUBSET Events : ClaimEvents(w, ks)
      PROVE  UNCHANGED writtenOff
  BY <1>1 DEF AcquireLock, LoseLock, ListSubscriptions, Upsert, SetCurrent, CompleteAttempt,
       Materialize, NextEvent, MarkProcessed, MarkFailed, SettleEvent, CheckCurrent, FindNone,
       Schedule, ClaimEvents, ledger
<1>2. ASSUME NEW w \in Workers,
             \/ ReuseAttempt(w) \/ CloseOpen(w) \/ ExpireSession(w) \/ LookupSession(w)
             \/ CreateAttempt(w) \/ CreateSession(w) \/ AttachSession(w) \/ AbortAttempt(w)
             \/ CreateFails(w) \/ Fails(w) \/ Crash(w) \/ StartCheckout(w) \/ CancelCheckout(w)
             \/ \E b \in Attempts : ConfirmReturn(w, b) \/ Sweep(w, b)
      PROVE  UNCHANGED writtenOff
  BY <1>2 DEF ReuseAttempt, CloseOpen, ExpireSession, LookupSession, CreateAttempt, CreateSession,
       AttachSession, AbortAttempt, CreateFails, Fails, Crash, StartCheckout, CancelCheckout,
       ConfirmReturn, Sweep, ledger
<1>3. ASSUME NEW w \in Workers, CloseAttempt(w) PROVE writtenOff \subseteq writtenOff'
  BY <1>3 DEF CloseAttempt
<1>4. ASSUME \/ \E b \in Attempts : Pay(b) \/ ChangeSubscription(b) \/ SessionExpires(b)
             \/ \E k \in Events : ReceiveEvent(k) \/ RetryEvent(k)
             \/ UNCHANGED vars
      PROVE  UNCHANGED writtenOff
  BY <1>4 DEF Pay, ChangeSubscription, SessionExpires, ReceiveEvent, RetryEvent, vars, ledger
<1> QED
  BY <1>1, <1>2, <1>3, <1>4 DEF Next, Step, ReconcileStep, InboxStep, CheckoutStep

-----------------------------------------------------------------------------
(* Who goes where *)

Acts(w) ==
  \/ Step(w) \/ CreateFails(w) \/ Fails(w) \/ Crash(w) \/ LoseLock(w)
  \/ StartCheckout(w) \/ CancelCheckout(w)
  \/ \E a \in Attempts : ConfirmReturn(w, a) \/ Sweep(w, a)
  \/ \E j \in Jobs : Schedule(w, j)
  \/ \E ks \in SUBSET Events : ClaimEvents(w, ks)

Still(w) ==
  /\ pc'[w] = pc[w] /\ job'[w] = job[w] /\ target'[w] = target[w] /\ seen'[w] = seen[w]
  /\ snap'[w] = snap[w] /\ todo'[w] = todo[w]

LEMMA Returned ==
  ASSUME Typed, NEW v \in Workers, Return(v), NEW w \in Workers \ {v}
  PROVE  Still(w)
BY DEF Return, Forget, Still, Typed, TypeOK

LEMMA Forgot ==
  ASSUME Typed, NEW v \in Workers, NEW step, Go(v, step), Forget(v), NEW w \in Workers \ {v}
  PROVE  Still(w)
BY DEF Go, Forget, Still, Typed, TypeOK

LEMMA Reconciled ==
  ASSUME Typed, NEW v \in Workers, Reconcile(v), NEW w \in Workers \ {v}
  PROVE  Still(w)
BY DEF Reconcile, Forget, Still, Typed, TypeOK

LEMMA Went ==
  ASSUME Typed, NEW v \in Workers, NEW step, pc' = [pc EXCEPT ![v] = step], NEW w \in Workers \ {v},
         job' = job \/ \E j : job' = [job EXCEPT ![v] = j],
         snap' = snap \/ \E x : snap' = [snap EXCEPT ![v] = x],
         todo' = todo \/ \E x : todo' = [todo EXCEPT ![v] = x],
         target' = target \/ \E x : target' = [target EXCEPT ![v] = x],
         seen' = seen \/ \E x : seen' = [seen EXCEPT ![v] = x]
  PROVE  Still(w)
BY DEF Still, Typed, TypeOK

\* A step is one worker's, or none's.
LEMMA Alone ==
  ASSUME Typed, NEW v \in Workers, Acts(v), NEW w \in Workers \ {v}
  PROVE  Still(w)
<1>1. CASE AcquireLock(v) \/ SetCurrent(v) \/ CompleteAttempt(v) \/ NextEvent(v)
  BY <1>1, Went DEF AcquireLock, SetCurrent, CompleteAttempt, NextEvent, local
<1>2. CASE ListSubscriptions(v) \/ CloseOpen(v) \/ ExpireSession(v) \/ CreateSession(v) \/ CreateFails(v)
  BY <1>2, Went DEF ListSubscriptions, CloseOpen, ExpireSession, CreateSession, CreateFails, local
<1>3. CASE Upsert(v)
  BY <1>3, Went DEF Upsert
<1>4. CASE \/ StartCheckout(v) \/ CancelCheckout(v) \/ \E j \in Jobs : Schedule(v, j)
           \/ \E ks \in SUBSET Events : ClaimEvents(v, ks)
  BY <1>4, Went DEF StartCheckout, CancelCheckout, Schedule, ClaimEvents, Begin, local
<1>5. CASE \E a \in Attempts : ConfirmReturn(v, a) \/ Sweep(v, a)
  BY <1>5, Went DEF ConfirmReturn, Sweep, Begin
<1>6. CASE ReuseAttempt(v) \/ AttachSession(v) \/ AbortAttempt(v) \/ Crash(v)
  BY <1>6, Returned DEF ReuseAttempt, AttachSession, AbortAttempt, Crash
<1>7. CASE LoseLock(v)
  BY <1>7 DEF LoseLock, Still, local
<1>8. CASE Materialize(v) \/ Fails(v)
  BY <1>8, Returned, Forgot DEF Materialize, Fails
<1>9. CASE CheckCurrent(v) \/ FindNone(v)
  BY <1>9, Returned, Went DEF CheckCurrent, FindNone, Go, local
<1>10. CASE LookupSession(v)
  BY <1>10, Lookups, Returned, Reconciled, Went DEF Go
<1>11. CASE CloseAttempt(v)
  BY <1>11, Returned, Reconciled, Went DEF CloseAttempt, Go, local
<1>12. CASE CreateAttempt(v)
  BY <1>12, Creations, Returned, Went DEF RowComes
<1>13. CASE MarkProcessed(v) \/ MarkFailed(v)
  <2>1. PICK to : SettleEvent(v, to)
    BY <1>13 DEF MarkProcessed, MarkFailed
  <2> QED BY <2>1, Returned, Went DEF SettleEvent, Go
<1> QED
  BY <1>1, <1>2, <1>3, <1>4, <1>5, <1>6, <1>7, <1>8, <1>9, <1>10, <1>11, <1>12, <1>13
     DEF Acts, Step, ReconcileStep, InboxStep, CheckoutStep

\* Where a worker's step takes it, as far as purchases and projections go.
LEMMA Lands ==
  ASSUME Typed, Roles, NEW w \in Workers, Acts(w)
  PROVE  \/ Still(w) /\ LoseLock(w)
         \/ AcquireLock(w) \/ ListSubscriptions(w) \/ Upsert(w) \/ SetCurrent(w)
         \/ CompleteAttempt(w) \/ Materialize(w) \/ StartCheckout(w)
         \/ CheckCurrent(w) \/ FindNone(w) \/ CloseOpen(w) \/ ExpireSession(w) \/ LookupSession(w)
         \/ CloseAttempt(w) \/ RowComes(w) \/ CreateSession(w)
         \/ /\ pc'[w] \notin Projecting \cup {"session", "attach"}
            /\ ~Checked(w)' /\ ~Cleared(w)'
<1> USE DEF Checked, Cleared, Projecting
<1>t. TypeOK /\ Roles
  BY DEF Typed
<1>2. CASE NextEvent(w) \/ CreateFails(w)
  BY <1>t, <1>2 DEF NextEvent, CreateFails, TypeOK
<1>3. CASE MarkProcessed(w) \/ MarkFailed(w)
  <2>1. PICK to : SettleEvent(w, to)
    BY <1>3 DEF MarkProcessed, MarkFailed
  <2> QED BY <1>t, <2>1 DEF SettleEvent, Go, Return, TypeOK
<1>4. CASE ReuseAttempt(w) \/ AttachSession(w) \/ AbortAttempt(w) \/ Crash(w)
  BY <1>t, <1>4 DEF ReuseAttempt, AttachSession, AbortAttempt, Crash, Return, TypeOK
<1>5. CASE Fails(w)
  BY <1>t, <1>5 DEF Fails, Go, Return, TypeOK
<1>6. CASE CancelCheckout(w) \/ (\E j \in Jobs : Schedule(w, j))
           \/ \E ks \in SUBSET Events : ClaimEvents(w, ks)
  BY <1>t, <1>6 DEF CancelCheckout, Schedule, ClaimEvents, Begin, TypeOK
<1>7. CASE \E a \in Attempts : ConfirmReturn(w, a) \/ Sweep(w, a)
  BY <1>t, <1>7 DEF ConfirmReturn, Sweep, Begin, TypeOK
<1>8. CASE LoseLock(w)
  BY <1>8 DEF LoseLock, Still, local
<1>9. CASE CreateAttempt(w)
  <2>1. CASE Return(w)
    BY <1>t, <2>1 DEF Return, TypeOK
  <2> QED BY <1>9, <2>1, Creations
<1> QED
  BY <1>2, <1>3, <1>4, <1>5, <1>6, <1>7, <1>8, <1>9
     DEF Acts, Step, ReconcileStep, InboxStep, CheckoutStep

\* Who attaches a session, and who opens one.
LEMMA Payables ==
  ASSUME Ledgers, [Next]_vars, NEW a \in Attempts, a \in attached', session'[a] = "open"
  PROVE  \/ a \in attached /\ session[a] = "open"
         \/ UNCHANGED attempt /\ \E w \in Workers : pc[w] = "attach" /\ target[w] = a
<1>t. TypeOK /\ Placed /\ InMaking
  BY DEF Ledgers, Typed
<1>1. ASSUME NEW w \in Workers, AttachSession(w)
      PROVE  /\ attached' = attached \cup {target[w]} /\ UNCHANGED <<attempt, session>>
             /\ pc[w] = "attach"
  BY <1>1 DEF AttachSession, stripe
<1>2. ASSUME NEW w \in Workers, CreateSession(w) \/ CreateFails(w)
      PROVE  /\ attached' = attached /\ target[w] \notin attached
             /\ a # target[w] => session'[a] = session[a]
  BY <1>t, <1>2 DEF CreateSession, CreateFails, InMaking, ledger, TypeOK
<1>3. ASSUME NEW w \in Workers, ExpireSession(w)
      PROVE  attached' = attached /\ session[a] = "open"
  BY <1>t, <1>3 DEF ExpireSession, EndSession, ledger, TypeOK
<1>4. ASSUME NEW b \in Attempts, Pay(b) \/ SessionExpires(b)
      PROVE  attached' = attached /\ session[a] = "open"
  BY <1>t, <1>4 DEF Pay, SessionExpires, EndSession, ledger, TypeOK
<1>5. ASSUME NEW w \in Workers,
             \/ AcquireLock(w) \/ LoseLock(w) \/ ListSubscriptions(w) \/ Upsert(w) \/ SetCurrent(w)
             \/ CompleteAttempt(w) \/ Materialize(w) \/ NextEvent(w)
             \/ MarkProcessed(w) \/ MarkFailed(w) \/ CheckCurrent(w) \/ FindNone(w)
             \/ \E j \in Jobs : Schedule(w, j)
             \/ \E ks \in SUBSET Events : ClaimEvents(w, ks)
      PROVE  UNCHANGED <<attached, session>>
  BY <1>5 DEF AcquireLock, LoseLock, ListSubscriptions, Upsert, SetCurrent, CompleteAttempt,
       Materialize, NextEvent, MarkProcessed, MarkFailed, SettleEvent, CheckCurrent, FindNone,
       Schedule, ClaimEvents, ledger, stripe
<1>6. ASSUME NEW w \in Workers,
             \/ ReuseAttempt(w) \/ CloseOpen(w) \/ LookupSession(w) \/ CloseAttempt(w)
             \/ CreateAttempt(w) \/ AbortAttempt(w) \/ Fails(w) \/ Crash(w)
             \/ StartCheckout(w) \/ CancelCheckout(w)
             \/ \E b \in Attempts : ConfirmReturn(w, b) \/ Sweep(w, b)
      PROVE  UNCHANGED <<attached, session>>
  BY <1>6 DEF ReuseAttempt, CloseOpen, LookupSession, CloseAttempt, CreateAttempt, AbortAttempt,
       Fails, Crash, StartCheckout, CancelCheckout, ConfirmReturn, Sweep, ledger, stripe
<1>7. ASSUME \/ \E b \in Attempts : ChangeSubscription(b)
             \/ \E k \in Events : ReceiveEvent(k) \/ RetryEvent(k)
             \/ UNCHANGED vars
      PROVE  UNCHANGED <<attached, session>>
  BY <1>7 DEF ChangeSubscription, ReceiveEvent, RetryEvent, vars, ledger, stripe
<1> QED
  BY <1>1, <1>2, <1>3, <1>4, <1>5, <1>6, <1>7 DEF Next, Step, ReconcileStep, InboxStep, CheckoutStep

-----------------------------------------------------------------------------
(* What can be paid *)

\* A lost lock stays lost.
LEMMA LostForGood ==
  ASSUME Typed, [Next]_vars, ~lockLost'
  PROVE  ~lockLost
<1>1. ASSUME NEW w \in Workers, Inside(w) PROVE ~lockLost
  BY <1>1 DEF Inside, AcquireLock, LoseLock, ListSubscriptions, Upsert, SetCurrent,
       CompleteAttempt, Materialize, Unlock, MarkProcessed, SettleEvent, ClaimEvents, mutex
<1> QED BY <1>1, Kinds DEF Outside, Apart, mutex

\* The changes of a subscription.
LEMMA Lives ==
  ASSUME Ledgers, Tracked, [Next]_vars, NEW s \in Attempts
  PROVE  /\ sub[s] # "none" => sub'[s] # "none" /\ since'[s] = since[s]
         /\ sub'[s] \in Live =>
              \/ sub[s] \in Live
              \/ Open(s) /\ Open(s)' /\ sub[s] = "none"
         /\ sub[s] = "none" /\ sub'[s] # "none" => since'[s] = s
<1>t. TypeOK /\ Sessions /\ Numbered
  BY DEF Ledgers, Typed
<1>1. CASE UNCHANGED <<sub, since>>
  BY <1>1
<1>2. ASSUME NEW a \in Attempts, Pay(a)
      PROVE  /\ sub[s] # "none" => sub'[s] # "none" /\ since'[s] = since[s]
             /\ sub'[s] \in Live => sub[s] \in Live \/ (Open(s) /\ Open(s)' /\ sub[s] = "none")
             /\ sub[s] = "none" /\ sub'[s] # "none" => since'[s] = s
  <2>1. Open(a) /\ a = Created /\ sub[a] = "none" /\ UNCHANGED attempt
    BY <1>t, <1>2 DEF Pay, Tracked, Sessions, Numbered, ledger
  <2>2. since' = [since EXCEPT ![a] = a] /\ sub' = [sub EXCEPT ![a] = "active"]
    BY <1>2, <2>1 DEF Pay
  <2> QED BY <1>t, <2>1, <2>2 DEF TypeOK, Open
<1>3. ASSUME NEW a \in Attempts, ChangeSubscription(a)
      PROVE  /\ sub[s] # "none" => sub'[s] # "none" /\ since'[s] = since[s]
             /\ sub'[s] \in Live => sub[s] \in Live
             /\ sub[s] = "none" => sub'[s] = "none"
  BY <1>t, <1>3 DEF ChangeSubscription, Live, SubStatus, TypeOK
<1> QED BY <1>1, <1>2, <1>3, Writers

\* A worker that does not act stays where it is.
LEMMA Solitary ==
  ASSUME Typed, [Next]_vars, NEW w \in Workers
  PROVE  Acts(w) \/ Still(w)
<1>1. CASE \/ \E a \in Attempts : Pay(a) \/ ChangeSubscription(a) \/ SessionExpires(a)
           \/ \E k \in Events : ReceiveEvent(k) \/ RetryEvent(k)
           \/ UNCHANGED vars
  BY <1>1 DEF Pay, ChangeSubscription, SessionExpires, ReceiveEvent, RetryEvent, vars, local, Still
<1>2. CASE \E v \in Workers : Acts(v)
  BY <1>2, Alone
<1> QED BY <1>1, <1>2 DEF Next, Acts

\* Which steps lead to a projection, to the guard and past it.
LEMMA LandsElsewhere ==
  ASSUME Typed, NEW w \in Workers,
         \/ AcquireLock(w) \/ ListSubscriptions(w) \/ Upsert(w) \/ SetCurrent(w)
         \/ CompleteAttempt(w) \/ Materialize(w) \/ StartCheckout(w)
         \/ CheckCurrent(w) \/ FindNone(w) \/ CloseOpen(w) \/ ExpireSession(w) \/ LookupSession(w)
         \/ CloseAttempt(w)
  PROVE  /\ pc'[w] \notin {"session", "attach"}
         /\ pc'[w] \in Projecting => ListSubscriptions(w) \/ Upsert(w) \/ SetCurrent(w)
         /\ Checked(w)' =>
              CompleteAttempt(w) \/ Materialize(w) \/ StartCheckout(w) \/ AcquireLock(w)
         /\ Cleared(w)' =>
              \/ CheckCurrent(w) \/ FindNone(w) \/ CloseOpen(w) \/ ExpireSession(w)
              \/ LookupSession(w) \/ CloseAttempt(w)
<1> USE DEF Projecting, Checked, Cleared
<1>t. TypeOK /\ Placed
  BY DEF Typed
<1>1. CASE ListSubscriptions(w) \/ Upsert(w) \/ SetCurrent(w)
  <2>1. pc'[w] \in Projecting
    BY <1>t, <1>1 DEF ListSubscriptions, Upsert, SetCurrent, TypeOK
  <2> QED BY <1>1, <2>1
<1>2. CASE CompleteAttempt(w) \/ StartCheckout(w)
  <2>1. pc'[w] \in {"materialize", "reconcile", "checkout"}
    BY <1>t, <1>2 DEF CompleteAttempt, StartCheckout, Begin, TypeOK
  <2> QED BY <1>2, <2>1
<1>3. CASE CheckCurrent(w) \/ FindNone(w) \/ CloseOpen(w) \/ ExpireSession(w)
  <2>1. pc'[w] \in {"idle", "find", "create", "expire", "lookup", "close"}
    BY <1>t, <1>3 DEF CheckCurrent, FindNone, CloseOpen, ExpireSession, Go, Return, TypeOK
  <2> QED BY <1>3, <2>1
<1>4. CASE LookupSession(w)
  BY <1>t, <1>4, Lookups DEF Go, Return, Reconcile, TypeOK
<1>5. CASE CloseAttempt(w)
  BY <1>t, <1>5 DEF CloseAttempt, Go, Return, Reconcile, TypeOK
<1>6. CASE AcquireLock(w)
  BY <1>t, <1>6 DEF AcquireLock, local, TypeOK, Placed
<1>7. CASE Materialize(w)
  BY <1>t, <1>7 DEF Materialize, Go, Return, TypeOK
<1> QED BY <1>1, <1>2, <1>3, <1>4, <1>5, <1>6, <1>7

\* A purchase that makes an attempt found no subscription alive.
LEMMA NoneLives ==
  ASSUME Ledgers, Read, NEW w \in Workers, RowComes(w)
  PROVE  /\ \A s \in Attempts : sub[s] \notin Live
         /\ UNCHANGED sub
         /\ pc'[w] = "session" /\ Open(target[w])'
<1>t. TypeOK /\ Roles
  BY DEF Ledgers, Typed
<1>1. \A s \in Attempts : sub[s] \notin Live
  BY <1>t DEF RowComes, Roles, Read, Cleared
<1>2. Created + 1 \in Attempts
  BY CreatedType, BillingAssumption DEF RowComes, Attempts
<1>3. PICK n \in Attempts : n = Created + 1
  BY <1>2
<1>4. attempt' = [attempt EXCEPT ![n] = "open"] /\ target' = [target EXCEPT ![w] = n]
  BY <1>3 DEF RowComes
<1>5. attempt'[target'[w]] = "open"
  BY <1>t, <1>4 DEF TypeOK
<1> QED BY <1>t, <1>1, <1>5 DEF RowComes, Open, stripe, TypeOK

LEMMA TrackedStep ==
  Ledgers /\ Held /\ Tracked /\ Read /\ [Next]_vars /\ ~lockLost' /\ writtenOff' = {} => Tracked'
<1> SUFFICES ASSUME Ledgers, Held, Tracked, Read, [Next]_vars, ~lockLost', writtenOff' = {} PROVE Tracked'
  OBVIOUS
<1>t. Typed /\ TypeOK /\ Placed /\ Roles /\ Sessions /\ InMaking /\ ~lockLost
  BY LostForGood DEF Ledgers, Typed
<1>1. ASSUME NEW a \in attached', session'[a] = "open" PROVE Open(a)'
  <2>1. a \in Attempts
    BY TypedStep, <1>t DEF Typed, TypeOK
  <2>2. CASE UNCHANGED attempt /\ \E w \in Workers : pc[w] = "attach" /\ target[w] = a
    BY <2>2 DEF Tracked, Open
  <2>3. CASE a \in attached /\ session[a] = "open"
    <3>1. Open(a)
      BY <2>3 DEF Tracked
    <3>2. SUFFICES ASSUME ~Open(a)' PROVE FALSE
      OBVIOUS
    <3>3. PICK w \in Workers : CompleteAttempt(w)
      BY <2>1, <2>3, <3>1, <3>2, Closed
    <3>4. sub[a] # "none"
      BY <2>1, <3>1, <3>2, <3>3, Completed
    <3> QED BY <1>t, <2>1, <2>3, <3>4 DEF Sessions
  <2> QED BY <1>1, <2>1, <2>2, <2>3, Payables
<1>2. ASSUME NEW w \in Workers, pc'[w] \in {"session", "attach"} PROVE Open(target[w])'
  <2>1. CASE Still(w) \/ CreateSession(w)
    <3>1. /\ target'[w] = target[w] /\ target[w] \in Attempts /\ Open(target[w])
          /\ pc[w] \in {"session", "attach"}
      BY <1>t, <1>2, <2>1 DEF Still, CreateSession, local, Placed, Tracked
    <3>2. PICK a \in Attempts : a = target[w]
      BY <3>1
    <3>3. SUFFICES ASSUME ~Open(a)' PROVE FALSE
      BY <3>1, <3>2 DEF Open
    <3>4. PICK v \in Workers : CompleteAttempt(v)
      BY <3>1, <3>2, <3>3, Closed
    <3>5. pc[v] = "complete" /\ lock = v /\ lock = w
      BY <1>t, <3>1, <3>4 DEF CompleteAttempt, Held, Guarded
    <3> QED BY <3>1, <3>5
  <2>2. CASE RowComes(w)
    BY <2>2, NoneLives
  <2>3. CASE Acts(w)
    BY <1>t, <1>2, <2>1, <2>2, <2>3, Lands, LandsElsewhere
  <2> QED BY <1>t, <2>1, <2>3, Solitary
<1>3. ASSUME NEW s \in Attempts, sub'[s] # "none" PROVE since'[s] = s
  BY <1>3, Lives DEF Tracked
<1>4. OfOpen'
  <2> SUFFICES ASSUME NEW s \in Attempts, NEW a \in Attempts, sub'[s] \in Live, Open(a)'
               PROVE  a = s
    BY DEF OfOpen
  <2>1. CASE \E w \in Workers : RowComes(w)
    BY <2>1, NoneLives
  <2>2. CASE RowsStay
    <3>1. Open(a)
      BY <2>2 DEF RowsStay
    <3>2. CASE sub[s] \in Live
      BY <3>1, <3>2 DEF Tracked, OfOpen
    <3>3. CASE Open(s)
      BY <1>t, <3>1, <3>3 DEF Ledgers, Numbered
    <3> QED BY <3>2, <3>3, Lives
  <2> QED BY <1>t, <2>1, <2>2, Rows
<1>5. Sole'
  <2> SUFFICES ASSUME NEW s \in Attempts, NEW t \in Attempts, sub'[s] \in Live, sub'[t] \in Live
               PROVE  s = t
    BY DEF Sole
  <2>1. /\ sub[s] \in Live \/ Open(s)
        /\ sub[t] \in Live \/ Open(t)
    BY Lives
  <2> QED BY <2>1 DEF Tracked, Sole, OfOpen, Ledgers, Numbered
<1> QED BY <1>1, <1>2, <1>3, <1>4, <1>5 DEF Tracked

-----------------------------------------------------------------------------
(* What is known of what was paid *)

\* Who closes an attempt that was paid holds the lock.
LEMMA PaidCloser ==
  ASSUME Ledgers, Held, [Next]_vars, ~lockLost', writtenOff' = {},
         NEW s \in Attempts, sub[s] # "none", Open(s), ~Open(s)'
  PROVE  \E v \in Workers :
           /\ lock = v
           /\ \/ CompleteAttempt(v)
              \/ /\ pc[v] = "close" /\ job[v] \in {"start", "cancel"} /\ seen[v] = "complete"
                 /\ CloseAttempt(v)
<1>t. Typed /\ Sessions /\ ~lockLost
  BY LostForGood DEF Ledgers
<1>1. session[s] = "complete" /\ s \in attached
  BY <1>t DEF Sessions
<1>2. ASSUME NEW v \in Workers, CompleteAttempt(v) PROVE lock = v
  BY <1>t, <1>2 DEF CompleteAttempt, Held, Guarded
<1>3. ASSUME NEW v \in Workers, pc[v] = "close", job[v] \in {"start", "cancel"} PROVE lock = v
  BY <1>t, <1>3 DEF Held
<1> QED BY <1>1, <1>2, <1>3, Closed

\* What is known of a living subscription stays known, until a request closes it.
LEMMA Knowing ==
  ASSUME Ledgers, Held, Tracked, Read, [Next]_vars, ~lockLost', writtenOff' = {},
         NEW s \in Attempts, sub'[s] \in Live, sub[s] \in Live => Knows(s)
  PROVE  \/ Knows(s)'
         \/ \E v \in Workers : /\ pc[v] = "close" /\ job[v] \in {"start", "cancel"}
                               /\ seen[v] = "complete" /\ CloseAttempt(v)
<1>t. Typed /\ TypeOK
  BY DEF Ledgers, Typed
<1>1. SUFFICES ASSUME sub[s] \in Live, ~Open(s)'
               PROVE  \/ current' = s /\ known'[s] \in Live
                      \/ \E v \in Workers : /\ pc[v] = "close" /\ job[v] \in {"start", "cancel"}
                                            /\ seen[v] = "complete" /\ CloseAttempt(v)
  BY Lives DEF Knows
<1>2. sub[s] # "none"
  BY <1>1 DEF Live
<1>3. CASE Open(s)
  <2>1. ASSUME NEW v \in Workers, CompleteAttempt(v) PROVE current' = s /\ known'[s] \in Live
    <3>1. current = s /\ known[s] \in Live
      BY <1>1, <1>3, <2>1, Completed
    <3> QED BY <2>1, <3>1 DEF CompleteAttempt, plan
  <2> QED BY <1>1, <1>2, <1>3, <2>1, PaidCloser
<1>4. CASE ~Open(s)
  <2>1. current = s /\ known[s] \in Live
    BY <1>1, <1>4 DEF Knows
  <2>2. ASSUME NEW v \in Workers, Upsert(v) PROVE current' = s /\ known'[s] \in Live
    <3>1. Reads(v) /\ UNCHANGED current
      BY <2>2 DEF Upsert, Read, Projecting
    <3>2. PICK a \in todo[v] : known' = [known EXCEPT ![a] = snap[v].subs[a]]
      BY <2>2 DEF Upsert
    <3>3. s \in todo[v] => snap[v].subs[s] \in Live
      BY <1>1, <3>1 DEF Reads
    <3> QED BY <1>t, <2>1, <3>1, <3>2, <3>3 DEF TypeOK
  <2>3. ASSUME NEW v \in Workers, SetCurrent(v) PROVE current' = s /\ known'[s] \in Live
    <3>1. Reads(v) /\ UNCHANGED known /\ pc[v] = "setCurrent" /\ current' = ChooseCurrent(snap[v].subs)
      BY <2>3 DEF SetCurrent, Read, Projecting
    <3>2. snap[v].subs[s] \in Live
      BY <1>1, <1>4, <3>1 DEF Reads
    <3>3. \A t \in Attempts : snap[v].subs[t] \in Live => t = s
      BY <3>1, <3>2 DEF Reads
    <3>4. snap[v].subs \in [Attempts -> SubStatus]
      BY <1>t DEF TypeOK, Listing
    <3>5. ChooseCurrent(snap[v].subs) = s
      BY <1>t, <3>2, <3>3, <3>4, Chosen
    <3> QED BY <2>1, <3>1, <3>5
  <2> QED BY <2>1, <2>2, <2>3, Writers
<1> QED BY <1>3, <1>4

\* What a worker read stays true while it holds the lock.
LEMMA ReadsOn ==
  ASSUME Ledgers, Held, Tracked, Read, [Next]_vars, ~lockLost', writtenOff' = {},
         NEW w \in Workers, Still(w), pc[w] \in Projecting
  PROVE  Reads(w)'
<1>t. Typed /\ ~lockLost /\ lock = w /\ Reads(w)
  BY LostForGood DEF Ledgers, Held, Guarded, Projecting, Read
<1>1. UNCHANGED <<known, current>>
  <2>1. ASSUME NEW v \in Workers, Upsert(v) \/ SetCurrent(v) PROVE FALSE
    <3>1. v = w
      BY <1>t, <2>1 DEF Upsert, SetCurrent, Held, Guarded
    <3>2. SetCurrent(w) => pc[w] = "setCurrent" /\ pc'[w] = "complete"
      BY <1>t DEF SetCurrent, Typed, TypeOK
    <3>3. Upsert(w) => todo'[w] # todo[w]
      BY <1>t DEF Upsert, Typed, TypeOK
    <3> QED BY <2>1, <3>1, <3>2, <3>3 DEF Still
  <2> QED BY <2>1, Writers
<1>2. ASSUME NEW a \in Attempts, Open(a)' PROVE Open(a)
  <2>1. ASSUME NEW v \in Workers, RowComes(v) PROVE FALSE
    <3>1. pc[v] = "create" /\ lock = v
      BY <1>t, <2>1 DEF RowComes, Held
    <3> QED BY <1>t, <3>1 DEF Projecting
  <2> QED BY <1>t, <1>2, <2>1, Rows DEF RowsStay
<1>3. ASSUME NEW s \in Attempts, sub[s] # "none", Open(s) PROVE Open(s)'
  <2> SUFFICES ASSUME ~Open(s)' PROVE FALSE
    OBVIOUS
  <2>1. CompleteAttempt(w) \/ pc[w] = "close"
    BY <1>t, <1>3, PaidCloser
  <2>2. CompleteAttempt(w) => pc[w] = "complete" /\ pc'[w] = "materialize"
    BY <1>t DEF CompleteAttempt, Typed, TypeOK
  <2> QED BY <2>1, <2>2 DEF Still, Projecting
<1>4. snap'[w] = snap[w] /\ todo'[w] = todo[w] /\ pc'[w] = pc[w]
  BY DEF Still
<1> DEFINE subs == snap[w].subs
<1>5. ASSUME NEW s \in Attempts
      PROVE  /\ subs[s] # "none" => sub'[s] # "none"
             /\ sub'[s] \in Live => subs[s] \in Live \cup {"none"}
             /\ sub'[s] \in Live /\ subs[s] = "none" => Open(s)'
             /\ \A a \in Attempts : subs[s] \in Live /\ Open(a)' => a = s
  <2>1. sub[s] \in Live => sub[s] # "none"
    BY DEF Live
  <2>2. /\ subs[s] # "none" => sub[s] # "none"
        /\ sub[s] \in Live => subs[s] \in Live \cup {"none"}
        /\ sub[s] \in Live /\ subs[s] = "none" => Open(s)
        /\ \A a \in Attempts : subs[s] \in Live /\ Open(a) => a = s
    BY <1>t DEF Reads
  <2> HIDE DEF subs
  <2> QED BY <1>2, <1>3, <2>1, <2>2, Lives
<1> QED BY <1>t, <1>1, <1>4, <1>5 DEF Reads

LEMMA ReadStep ==
  Ledgers /\ Held /\ Tracked /\ Read /\ [Next]_vars /\ ~lockLost' /\ writtenOff' = {} => Read'
<1> SUFFICES ASSUME Ledgers, Held, Tracked, Read, [Next]_vars, ~lockLost', writtenOff' = {} PROVE Read'
  OBVIOUS
<1>t. Typed /\ TypeOK /\ Placed /\ Roles /\ OnePerson /\ Strangers /\ ~lockLost
  BY LostForGood DEF Ledgers, Typed
<1>p. \A s \in Attempts : ~bound => sub[s] = "none"
  BY <1>t DEF Strangers
<1>1. ASSUME NEW w \in Workers, pc'[w] \in Projecting PROVE Reads(w)'
  <2>1. CASE Still(w)
    BY <1>1, <2>1, ReadsOn DEF Still
  <2>2. CASE ListSubscriptions(w)
    <3>1. /\ snap'[w].subs = sub /\ todo'[w] = {a \in Attempts : sub[a] # "none"}
          /\ pc'[w] = IF todo'[w] = {} THEN "setCurrent" ELSE "upsert"
          /\ UNCHANGED <<sub, attempt, known, current>>
      BY <1>t, <2>2 DEF ListSubscriptions, TypeOK, stripe, ledger, plan
    <3>2. /\ \A s, a \in Attempts : sub[s] \in Live /\ Open(a) => a = s
          /\ \A s, t \in Attempts : sub[s] \in Live /\ sub[t] \in Live => s = t
      BY DEF Tracked, Sole, OfOpen
    <3>3. \A s \in Attempts : s \in todo'[w] <=> sub[s] # "none"
      BY <3>1
    <3>4. pc'[w] # "complete" /\ \A s \in Attempts : s \in todo'[w] => pc'[w] = "upsert"
      BY <3>1
    <3>5. \A a \in Attempts : Open(a)' <=> Open(a)
      BY <3>1 DEF Open
    <3>6. snap'[w].subs = sub /\ sub' = sub
      BY <3>1
    <3>7. "none" \notin Live
      BY DEF Live
    <3> QED BY <3>2, <3>3, <3>4, <3>5, <3>6, <3>7 DEF Reads
  <2>3. CASE Upsert(w)
    <3>1. Reads(w) /\ UNCHANGED <<sub, attempt, current, snap>>
      BY <2>3 DEF Upsert, stripe, ledger, Read, Projecting
    <3>2. PICK a \in todo[w] :
            /\ known' = [known EXCEPT ![a] = snap[w].subs[a]]
            /\ todo' = [todo EXCEPT ![w] = @ \ {a}]
            /\ pc' = [pc EXCEPT ![w] = IF todo[w] = {a} THEN "setCurrent" ELSE "upsert"]
      BY <2>3 DEF Upsert
    <3>3. /\ \A s \in Attempts : s # a => known'[s] = known[s]
          /\ known'[a] = snap[w].subs[a]
          /\ todo'[w] = todo[w] \ {a}
          /\ pc'[w] = IF todo[w] = {a} THEN "setCurrent" ELSE "upsert"
      BY <1>t, <3>2 DEF TypeOK
    <3> QED BY <3>1, <3>3 DEF Reads, Open
  <2>4. CASE SetCurrent(w)
    <3>1. /\ Reads(w) /\ UNCHANGED <<sub, attempt, known, snap, todo>>
          /\ pc[w] = "setCurrent" /\ current' = ChooseCurrent(snap[w].subs)
      BY <2>4 DEF SetCurrent, stripe, ledger, local, Read, Projecting
    <3>2. ASSUME NEW s \in Attempts, snap[w].subs[s] \in Live PROVE current' = s
      <4>1. \A t \in Attempts : snap[w].subs[t] \in Live => t = s
        BY <3>1, <3>2 DEF Reads
      <4>2. snap[w].subs \in [Attempts -> SubStatus]
        BY <1>t DEF TypeOK, Listing
      <4> QED BY <1>t, <3>1, <3>2, <4>1, <4>2, Chosen
    <3> QED BY <3>1, <3>2 DEF Reads, Open
  <2>5. CASE RowComes(w) \/ CreateSession(w)
    BY <1>t, <1>1, <2>5 DEF RowComes, CreateSession, Projecting, TypeOK
  <2> QED BY <1>t, <1>1, <2>1, <2>2, <2>3, <2>4, <2>5, Solitary, Lands, LandsElsewhere
<1>2. ASSUME NEW w \in Workers, job'[w] = "start" PROVE w \in Requesters
  BY <1>t, <1>2, RolesStep DEF Roles
<1>3. ASSUME NEW v \in Workers, pc[v] = "close", job[v] \in {"start", "cancel"},
             seen[v] = "complete", CloseAttempt(v)
      PROVE  v \in Requesters /\ ~Checked(v)' /\ ~Cleared(v)'
  BY <1>t, <1>3 DEF CloseAttempt, Go, Return, Reconcile, Checked, Cleared, Roles, TypeOK
<1>4. ASSUME NEW w \in Workers, NEW s \in Attempts, Checked(w)', sub'[s] \in Live
      PROVE  Knows(s)'
  <2>1. ASSUME sub[s] \in Live PROVE Knows(s)
    <3>1. CASE Checked(w)
      BY <2>1, <3>1 DEF Read
    <3>2. CASE CompleteAttempt(w)
      <4>1. Reads(w) /\ pc[w] = "complete"
        BY <3>2 DEF CompleteAttempt, Read, Projecting
      <4> QED BY <2>1, <4>1 DEF Reads, Knows
    <3>3. CASE StartCheckout(w)
      <4>1. ~bound
        BY <1>t, <1>4, <3>3 DEF StartCheckout, Begin, Checked, TypeOK
      <4> QED BY <1>p, <2>1, <4>1 DEF Live
    <3>4. CASE AcquireLock(w)
      <4>1. ~bound \/ Checked(w)
        BY <1>t, <1>4, <3>4 DEF AcquireLock, Checked, TypeOK
      <4> QED BY <1>p, <2>1, <3>1, <4>1 DEF Live
    <3>5. CASE Materialize(w)
      <4>1. Checked(w)
        BY <1>t, <1>4, <3>5 DEF Materialize, Go, Return, Checked, TypeOK
      <4> QED BY <3>1, <4>1
    <3>6. Still(w) => Checked(w)
      BY <1>4 DEF Still, Checked
    <3>7. ~RowComes(w) /\ ~CreateSession(w)
      BY <1>t, <1>4 DEF RowComes, CreateSession, Checked, TypeOK
    <3> QED BY <1>t, <1>4, <3>1, <3>2, <3>3, <3>4, <3>5, <3>6, <3>7, Solitary, Lands, LandsElsewhere
  <2>2. \A v \in Workers : v \in Requesters => v = w
    BY <1>t, <1>2, <1>4 DEF OnePerson, Checked
  <2>3. ASSUME NEW v \in Workers, pc[v] = "close", job[v] \in {"start", "cancel"},
               seen[v] = "complete", CloseAttempt(v)
        PROVE  FALSE
    <3>1. v \in Requesters /\ ~Checked(v)'
      BY <1>3, <2>3
    <3> QED BY <1>4, <2>2, <3>1
  <2>4. sub[s] \in Live => Knows(s)
    BY <2>1
  <2>5. \/ Knows(s)'
        \/ \E v \in Workers : /\ pc[v] = "close" /\ job[v] \in {"start", "cancel"}
                              /\ seen[v] = "complete" /\ CloseAttempt(v)
    BY <1>4, <2>4, Knowing
  <2> QED BY <2>3, <2>5
<1>5. ASSUME NEW w \in Workers, NEW s \in Attempts, Cleared(w)', sub'[s] \in Live
      PROVE  Open(s)'
  <2> SUFFICES ASSUME sub[s] \in Live, ~Open(s)' PROVE FALSE
    BY <1>5, Lives
  <2>1. ASSUME CheckCurrent(w) PROVE Checked(w) /\ pc[w] = "guard" /\ Open(s)
    <3>1. /\ Checked(w) /\ pc[w] = "guard"
          /\ ~(\E x \in Attempts : x = current /\ known[x] \in Live)
      BY <1>t, <1>5, <2>1 DEF CheckCurrent, Go, Return, Cleared, Checked, Roles, TypeOK
    <3> QED BY <3>1 DEF Read, Knows
  <2>2. ASSUME \/ Still(w) \/ FindNone(w) \/ CloseOpen(w) \/ ExpireSession(w)
               \/ LookupSession(w) \/ CloseAttempt(w)
        PROVE  Cleared(w)
    <3>1. CASE Still(w)
      BY <1>5, <3>1 DEF Still, Cleared
    <3>2. CASE FindNone(w) \/ CloseOpen(w) \/ ExpireSession(w)
      BY <1>t, <1>5, <3>2 DEF FindNone, CloseOpen, ExpireSession, Go, Return, Cleared, TypeOK
    <3>3. CASE LookupSession(w)
      BY <1>t, <1>5, <3>3, Lookups DEF Go, Return, Reconcile, Cleared, TypeOK
    <3>4. CASE CloseAttempt(w)
      BY <1>t, <1>5, <3>4 DEF CloseAttempt, Go, Return, Reconcile, Cleared, TypeOK
    <3> QED BY <2>2, <3>1, <3>2, <3>3, <3>4
  <2>3. ~RowComes(w) /\ ~CreateSession(w)
    BY <1>t, <1>5 DEF RowComes, CreateSession, Cleared, TypeOK
  <2>4. CheckCurrent(w) \/ Cleared(w)
    BY <1>t, <1>5, <2>2, <2>3, Solitary, Lands, LandsElsewhere
  <2>5. Open(s) /\ lock = w /\ pc[w] # "complete"
    BY <1>t, <2>1, <2>4 DEF Read, Cleared, Held
  <2>6. sub[s] # "none"
    BY DEF Live
  <2>7. PICK v \in Workers :
          /\ lock = v
          /\ \/ CompleteAttempt(v)
             \/ /\ pc[v] = "close" /\ job[v] \in {"start", "cancel"} /\ seen[v] = "complete"
                /\ CloseAttempt(v)
    BY <2>5, <2>6, PaidCloser
  <2>8. ~CompleteAttempt(w)
    BY <2>5 DEF CompleteAttempt
  <2> QED BY <1>3, <1>5, <2>5, <2>7, <2>8
<1> QED BY <1>1, <1>4, <1>5 DEF Read

-----------------------------------------------------------------------------
(* The invariant *)

Paying == Held /\ (lockLost \/ writtenOff # {} \/ (Tracked /\ Read))

LEMMA PurchasesInit == OnePerson /\ Init => Ledgers /\ Paying
<1> SUFFICES ASSUME OnePerson, Init PROVE Ledgers /\ Paying
  OBVIOUS
<1>1. Typed
  BY TypedInit
<1>2. /\ \A w \in Workers : pc[w] = "idle" /\ job[w] = "none" /\ target[w] = 0
      /\ \A a \in Attempts : /\ session[a] = "none" /\ sub[a] = "none" /\ attempt[a] = "none"
      /\ \A k \in Events : expiryOf[k] = 0
      /\ attached = {} /\ version = 0
  BY DEF Init
<1>3. Numbered
  <2>1. {a \in Attempts : attempt[a] # "none"} = {}
    BY <1>2
  <2>2. Created = 0
    BY <2>1, FS_EmptySet DEF Created
  <2>3. \A a \in Attempts : ~(a <= 0)
    BY BillingAssumption DEF Attempts
  <2> QED BY <1>2, <2>2, <2>3 DEF Numbered, Open
<1>4. Strangers
  BY <1>2 DEF Strangers
<1>5. Roles /\ InMaking /\ Closing
  BY <1>2 DEF Roles, InMaking, Closing
<1>6. Sessions
  BY <1>2 DEF Sessions
<1>7. Ledgers
  BY <1>1, <1>3, <1>4, <1>5, <1>6 DEF Ledgers
<1>8. \A s \in Attempts : sub[s] \notin Live
  BY <1>2 DEF Live
<1>9. Tracked /\ Read
  BY <1>2, <1>8 DEF Tracked, Sole, OfOpen, Read, Projecting, Checked, Cleared
<1>10. Held
  BY <1>2 DEF Held, Guarded
<1> QED BY <1>7, <1>9, <1>10 DEF Paying

LEMMA PurchasesStep == Ledgers /\ Paying /\ [Next]_vars => (Ledgers /\ Paying)'
<1> SUFFICES ASSUME Ledgers, Paying, [Next]_vars PROVE (Ledgers /\ Paying)'
  OBVIOUS
<1>1. OnePerson' /\ Typed'
  BY TypedStep DEF Ledgers, OnePerson
<1>2. Strangers' /\ Roles' /\ Numbered'
  BY StrangersStep, RolesStep, NumberedStep DEF Ledgers
<1>3. Sessions' /\ InMaking' /\ Closing'
  BY SessionsStep, InMakingStep, ClosingStep DEF Ledgers
<1>4. Held'
  BY HeldStep DEF Ledgers, Paying
<1>5. ASSUME ~lockLost', writtenOff' = {} PROVE Tracked' /\ Read'
  <2>1. ~lockLost /\ writtenOff = {}
    BY <1>5, LostForGood, WrittenForGood DEF Ledgers
  <2> QED BY <1>5, <2>1, TrackedStep, ReadStep DEF Paying
<1> QED BY <1>1, <1>2, <1>3, <1>4, <1>5 DEF Ledgers, Paying

LEMMA PurchasesInvariant == ASSUME OnePerson PROVE Spec => [](Ledgers /\ Paying)
<1>1. Init => Ledgers /\ Paying
  BY PurchasesInit
<1> QED BY <1>1, PurchasesStep, PTL DEF Spec

\* While the requests of an organization's people come one at a time, every
\* session a customer can still pay is that of the organization's open attempt,
\* where the next purchase finds it, unless a worker lost the organization lock or
\* the sweep wrote off a session that was paid under its hands.  The steps assume
\* of the clocks that no request is still creating a session when the sweep takes
\* up its attempt, thirty minutes later.
THEOREM PayableOnly == ASSUME OnePerson PROVE Spec => []PayableIsTracked
<1>1. Ledgers /\ Paying => PayableIsTracked
  BY DEF Paying, Tracked, PayableIsTracked
<1> QED BY <1>1, PurchasesInvariant, PTL

\* Under the same conditions two subscriptions of an organization never run at
\* once: a lost lock and a sweep that races a payment are the only ways to two.
THEOREM OneSubscription == ASSUME OnePerson PROVE Spec => []OneAtATime
<1>1. Ledgers /\ Paying => OneAtATime
  <2> SUFFICES ASSUME Sole PROVE Cardinality({a \in Attempts : sub[a] \in Live}) <= 1
    BY DEF Paying, Tracked, OneAtATime, OneLiveSubscription
  <2>1. CASE {a \in Attempts : sub[a] \in Live} = {}
    <3>1. Cardinality({}) = 0
      BY FS_EmptySet
    <3> QED BY <2>1, <3>1
  <2>2. ASSUME NEW s \in Attempts, sub[s] \in Live
        PROVE  Cardinality({a \in Attempts : sub[a] \in Live}) <= 1
    <3>1. {a \in Attempts : sub[a] \in Live} = {s}
      BY <2>2 DEF Sole
    <3>2. Cardinality({s}) = 1
      BY FS_Singleton
    <3> QED BY <3>1, <3>2
  <2> QED BY <2>1, <2>2
<1> QED BY <1>1, PurchasesInvariant, PTL
=============================================================================
