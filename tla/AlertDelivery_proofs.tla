----------------------- MODULE AlertDelivery_proofs -----------------------
(***************************************************************************)
(* Proofs about the notification outbox, for any number of incidents,      *)
(* deliveries, workers, faults, lapsed leases and presses of Retry.        *)
(*                                                                         *)
(* The invariant is built in layers, each inductive relative to those      *)
(* before it: the types, with what a worker in the middle of a call holds  *)
(* (Typed); that the history of the provider agrees with the rows (Told);  *)
(* that a worker holds one claim of a row and only while it works on it    *)
(* (Hands), and that the messages taken and the chances to send one again  *)
(* together never exceed what failures, crashes, lapsed leases and presses *)
(* of Retry have paid for (Counts); that the rows of an incident are       *)
(* enqueued together and a count stays true until it is used (Counted);    *)
(* and that a clean-up which still holds its claim knows every issue it is *)
(* about to forget (Cleaned).                                              *)
(***************************************************************************)
EXTENDS AlertDelivery, FiniteSetTheorems, TLAPS

\* Going on with a job is no definition to hide.
USE DEF Go

-----------------------------------------------------------------------------
(* Types *)

\* What a worker holds while it calls a provider or is about to claim a row.
AtCall ==
  \A w \in Workers :
    /\ pc[w] = "record" => current[w] \in batch[w] /\ result[w] \in {"ok", "reuse", "retry", "fail"}
    /\ pc[w] = "claimRow" => current[w].of \in Deliveries

Typed == TypeOK /\ AtCall

RowsTyped ==
  /\ status \in [Deliveries -> RowStatus]
  /\ claimedAt \in [Deliveries -> Nat]
  /\ nextRetryAt \in [Deliveries -> {"none", "later", "due"}]
  /\ lapsed \in [Deliveries -> BOOLEAN]
  /\ now \in Nat

OutboxTyped ==
  /\ syncPending \in [Events -> BOOLEAN]
  /\ syncClaim \in [Events -> Workers \cup {NoOne}]
  /\ syncLapsed \in [Events -> BOOLEAN]
  /\ syncFailed \in [Events -> BOOLEAN]

\* A claim keeps the rows typed and hands out claims.
LEMMA ClaimRowsTyped ==
  ASSUME RowsTyped, batch \in [Workers -> SUBSET Claim],
         NEW w \in Workers, NEW ds \in SUBSET Deliveries, ClaimRows(w, ds)
  PROVE  RowsTyped' /\ batch' \in [Workers -> SUBSET Claim]
<1>1. RowsTyped'
  <2>1. status' \in [Deliveries -> RowStatus]
    BY DEF RowsTyped, RowStatus, ClaimRows
  <2>2. claimedAt' \in [Deliveries -> Nat] /\ now' \in Nat
    BY DEF RowsTyped, ClaimRows
  <2>3. lapsed' \in [Deliveries -> BOOLEAN]
    BY DEF RowsTyped, ClaimRows
  <2>4. nextRetryAt' \in [Deliveries -> {"none", "later", "due"}]
    BY DEF RowsTyped, ClaimRows
  <2> QED BY <2>1, <2>2, <2>3, <2>4 DEF RowsTyped
<1>2. {[of |-> d, at |-> now] : d \in ds} \in SUBSET Claim
  BY DEF RowsTyped, Claim
<1>3. batch' \in [Workers -> SUBSET Claim]
  BY <1>2 DEF ClaimRows
<1> QED BY <1>1, <1>3

\* Leaving a claim keeps the rows typed.
LEMMA ReleaseTyped ==
  ASSUME RowsTyped, NEW c, NEW to \in RowStatus, NEW retry \in {"none", "later", "due"},
         Release(c, to, retry), now' \in Nat
  PROVE  RowsTyped'
  BY DEF RowsTyped, RowStatus, Release

\* So do both ways to record an outcome.
LEMMA MarkFailedTyped ==
  ASSUME RowsTyped, NEW c, NEW retry \in {"none", "later", "due"}, MarkFailed(c, retry)
  PROVE  RowsTyped'
<1>1. CASE StillHeld(c)
  BY <1>1, ReleaseTyped DEF MarkFailed, RowStatus, RowsTyped
<1>2. CASE ~StillHeld(c)
  BY <1>2 DEF MarkFailed, rows, RowsTyped
<1> QED BY <1>1, <1>2

\* A success also may queue the clean-up again.
LEMMA MarkDeliveredTyped ==
  ASSUME RowsTyped, OutboxTyped, NEW c, MarkDelivered(c)
  PROVE  RowsTyped' /\ OutboxTyped'
<1>1. CASE StillHeld(c)
  <2>1. Release(c, "delivered", "none") /\ now' = now
    BY <1>1 DEF MarkDelivered
  <2>2. RowsTyped'
    BY <2>1, ReleaseTyped DEF RowStatus, RowsTyped
  <2>3. OutboxTyped'
    BY <1>1 DEF MarkDelivered, OutboxTyped, outbox
  <2> QED BY <2>2, <2>3
<1>2. CASE ~StillHeld(c)
  BY <1>2 DEF MarkDelivered, rows, outbox, RowsTyped, OutboxTyped
<1> QED BY <1>1, <1>2

\* The end of a clean-up keeps the outbox typed and frees the worker.
LEMMA EndSyncTyped ==
  ASSUME TypeOK, NEW w \in Workers, NEW pending \in BOOLEAN, NEW failed \in BOOLEAN,
         EndSync(w, pending, failed)
  PROVE  /\ OutboxTyped'
         /\ pc' \in [Workers -> Steps] /\ refs' \in [Workers -> SUBSET Deliveries]
         /\ job' \in [Workers -> Jobs] /\ pc'[w] = "idle"
         /\ \A v \in Workers : v # w => pc'[v] = pc[v]
<1>1. OutboxTyped'
  <2>1. CASE syncClaim[about[w]] = w
    BY <2>1 DEF EndSync, TypeOK, OutboxTyped
  <2>2. CASE syncClaim[about[w]] # w
    BY <2>2 DEF EndSync, TypeOK, OutboxTyped, outbox
  <2> QED BY <2>1, <2>2
<1>2. /\ pc' \in [Workers -> Steps] /\ pc'[w] = "idle"
      /\ \A v \in Workers : v # w => pc'[v] = pc[v]
  BY DEF EndSync, TypeOK, Steps
<1>3. refs' \in [Workers -> SUBSET Deliveries] /\ job' \in [Workers -> Jobs]
  BY DEF EndSync, TypeOK, Jobs
<1> QED BY <1>1, <1>2, <1>3

\* An action that ends a clean-up, or looks for its issues, and leaves the rest.
LEMMA SyncStepTyped ==
  ASSUME Typed, NEW w \in Workers, OutboxTyped', faults' \in Nat,
         pc' \in [Workers -> Steps], refs' \in [Workers -> SUBSET Deliveries],
         job' \in [Workers -> Jobs], pc'[w] \notin {"record", "claimRow"},
         \A v \in Workers : v # w => pc'[v] = pc[v],
         UNCHANGED <<rows, incident, notified, ruleListed, about, batch, current,
                     result, outside, resets>>
  PROVE  Typed'
<1>1. TypeOK'
  BY DEF Typed, TypeOK, OutboxTyped, rows, outside
<1>2. AtCall'
  BY DEF Typed, AtCall
<1> QED BY <1>1, <1>2 DEF Typed

\* Typed is inductive.
LEMMA TypedInit == Init => Typed
  BY DeliveryAssumption
  DEF Init, Typed, TypeOK, AtCall, RowStatus, Jobs, Steps, Claim, NoClaim

\* Every action keeps the types and the facts of a call.
LEMMA TypedStep == Typed /\ [Next]_vars => Typed'
<1> SUFFICES ASSUME Typed, [Next]_vars PROVE Typed'
  OBVIOUS
<1> USE DEF Typed
<1>t. RowsTyped /\ OutboxTyped
  BY DEF TypeOK, RowsTyped, OutboxTyped
<1>1. ASSUME NEW w \in Workers, Enqueue(w) PROVE Typed'
  BY <1>1 DEF TypeOK, AtCall, RowStatus, Steps, Enqueue, events, outbox, outside, budgets
<1>2. ASSUME NEW w \in Workers, ClaimDueForEvent(w) PROVE Typed'
  <2> DEFINE ds == {d \in RowsOf(about[w]) : Claimable(d)}
  <2>1. ds \in SUBSET Deliveries
    BY DEF RowsOf
  <2>2. RowsTyped' /\ batch' \in [Workers -> SUBSET Claim]
    <3>1. CASE ds = {}
      BY <1>2, <1>t, <3>1 DEF ClaimDueForEvent, TypeOK, rows, RowsTyped
    <3>2. CASE ds # {}
      <4>1. ClaimRows(w, ds)
        BY <1>2, <3>2 DEF ClaimDueForEvent
      <4> QED BY <4>1, <2>1, <1>t, ClaimRowsTyped DEF TypeOK
    <3> QED BY <3>1, <3>2
  <2>3. pc' \in [Workers -> Steps]
    BY <1>2 DEF ClaimDueForEvent, TypeOK, Steps, AfterBatch
  <2>4. \A v \in Workers : v # w => pc'[v] = pc[v] /\ batch'[v] = batch[v]
    BY <1>2 DEF ClaimDueForEvent, TypeOK, ClaimRows
  <2>5. pc'[w] \notin {"record", "claimRow"}
    BY <1>2 DEF ClaimDueForEvent, TypeOK, AfterBatch
  <2>6. UNCHANGED <<events, job, about, current, result, refs, outside, budgets>>
    BY <1>2 DEF ClaimDueForEvent
  <2>7. TypeOK'
    BY <2>2, <2>3, <2>6 DEF TypeOK, RowsTyped, events, outbox, outside, budgets
  <2>8. AtCall'
    BY <2>4, <2>5, <2>6 DEF AtCall
  <2> QED BY <2>7, <2>8
<1>3. ASSUME NEW w \in Workers, SweepLookup(w) PROVE Typed'
  BY <1>3 DEF TypeOK, AtCall, Steps, Jobs, SweepLookup, rows, events, outbox, outside, budgets
<1>4. ASSUME NEW w \in Workers, ClaimById(w) PROVE Typed'
  <2> DEFINE d == current[w].of
  <2>1. pc[w] = "claimRow" /\ d \in Deliveries
    BY <1>4 DEF ClaimById, AtCall
  <2>2. RowsTyped' /\ batch' \in [Workers -> SUBSET Claim]
    <3>1. CASE Claimable(d)
      <4>1. ClaimRows(w, {d})
        BY <1>4, <3>1 DEF ClaimById
      <4> QED BY <4>1, <2>1, <1>t, ClaimRowsTyped DEF TypeOK
    <3>2. CASE ~Claimable(d)
      BY <1>4, <1>t, <3>2 DEF ClaimById, TypeOK, rows, RowsTyped
    <3> QED BY <3>1, <3>2
  <2>3. pc' \in [Workers -> Steps]
    BY <1>4 DEF ClaimById, TypeOK, Steps
  <2>4. \A v \in Workers : v # w =>
          pc'[v] = pc[v] /\ batch'[v] = batch[v] /\ current'[v] = current[v]
    BY <1>4 DEF ClaimById, TypeOK, ClaimRows
  <2>5. pc'[w] \notin {"record", "claimRow"}
    BY <1>4 DEF ClaimById, TypeOK
  <2>6. UNCHANGED <<events, about, result, refs, outside, budgets>> /\ job' \in [Workers -> Jobs]
    BY <1>4 DEF ClaimById, TypeOK, Jobs
  <2>7. current' \in [Workers -> Claim \cup {NoClaim}]
    BY <1>4 DEF ClaimById, TypeOK
  <2>8. TypeOK'
    BY <2>2, <2>3, <2>6, <2>7 DEF TypeOK, RowsTyped, events, outbox, outside, budgets
  <2>9. AtCall'
    BY <2>4, <2>5, <2>6 DEF AtCall
  <2> QED BY <2>8, <2>9
<1>5. ASSUME NEW w \in Workers, CheckIncident(w) PROVE Typed'
  BY <1>5 DEF TypeOK, AtCall, Steps, CheckIncident, rows, events, outbox, outside, budgets
<1>6. ASSUME NEW w \in Workers, AbandonOne(w) PROVE Typed'
  <2>1. PICK c \in batch[w] : MarkFailed(c, "none") /\ Drop(w, c, "abandon")
    BY <1>6 DEF AbandonOne
  <2>2. RowsTyped'
    BY <2>1, <1>t, MarkFailedTyped
  <2>3. /\ batch' \in [Workers -> SUBSET Claim]
        /\ pc' \in [Workers -> Steps] /\ job' \in [Workers -> Jobs]
        /\ pc'[w] \notin {"record", "claimRow"}
        /\ \A v \in Workers : v # w => pc'[v] = pc[v] /\ batch'[v] = batch[v]
    BY <2>1 DEF Drop, TypeOK, Steps, Jobs, AfterBatch
  <2>4. UNCHANGED <<events, about, current, result, refs, outside, budgets>>
    BY <1>6 DEF AbandonOne
  <2>5. TypeOK'
    BY <2>2, <2>3, <2>4 DEF TypeOK, RowsTyped, events, outbox, outside, budgets
  <2>6. AtCall'
    BY <2>3, <2>4 DEF AtCall
  <2> QED BY <2>5, <2>6
<1>7. ASSUME NEW w \in Workers, CallProvider(w) PROVE Typed'
  <2>c. PICK c \in batch[w] :
          /\ current' = [current EXCEPT ![w] = c]
          /\ \/ /\ result' = [result EXCEPT ![w] = "reuse"]
                /\ UNCHANGED <<created, faults>>
             \/ \E o \in CallOutcomes(c.of) :
                  /\ IF o.seen = "ok" THEN UNCHANGED faults ELSE Fault
                  /\ created' = [created EXCEPT ![c.of] = IF o.taken THEN @ + 1 ELSE @]
                  /\ result' = [result EXCEPT ![w] = o.seen]
    BY <1>7 DEF CallProvider
  <2>1. c \in Claim
    BY DEF TypeOK
  <2>2. \A o \in CallOutcomes(c.of) : o.seen \in {"ok", "retry", "fail"}
    BY DEF CallOutcomes
  <2>3. PICK seen \in {"ok", "reuse", "retry", "fail"} : result' = [result EXCEPT ![w] = seen]
    BY <2>c, <2>2
  <2>f. faults \in Nat /\ faults + 1 \in Nat
    BY DEF TypeOK
  <2>4. created' \in [Deliveries -> Nat] /\ faults' \in Nat
    <3>1. faults' = faults \/ faults' = faults + 1
      BY <2>c DEF Fault
    <3>2. \/ created' = created
          \/ created' = [created EXCEPT ![c.of] = created[c.of] + 1]
          \/ created' = [created EXCEPT ![c.of] = created[c.of]]
      BY <2>c
    <3>3. created \in [Deliveries -> Nat]
      BY DEF TypeOK
    <3>4. created' \in [Deliveries -> Nat]
      BY <3>2, <3>3
    <3> QED BY <2>f, <3>1, <3>4
  <2>5. /\ current' \in [Workers -> Claim \cup {NoClaim}]
        /\ result' \in [Workers -> {"none", "ok", "reuse", "retry", "fail"}]
        /\ current'[w] = c /\ result'[w] = seen
        /\ \A v \in Workers : v # w => current'[v] = current[v] /\ result'[v] = result[v]
    BY <2>c, <2>1, <2>3 DEF TypeOK
  <2>6. UNCHANGED <<rows, events, job, about, batch, refs, closed, mapped, linked, resets>>
    BY <1>7 DEF CallProvider
  <2>7. /\ pc' \in [Workers -> Steps] /\ pc'[w] = "record"
        /\ \A v \in Workers : v # w => pc'[v] = pc[v]
    BY <1>7 DEF CallProvider, TypeOK, Steps
  <2>8. TypeOK'
    BY <2>4, <2>5, <2>6, <2>7 DEF TypeOK, rows, events, outbox
  <2>9. AtCall'
    BY <2>5, <2>6, <2>7 DEF AtCall
  <2> QED BY <2>8, <2>9
<1>8. ASSUME NEW w \in Workers, Record(w) PROVE Typed'
  <2> DEFINE c == current[w]
  <2>2. RowsTyped' /\ OutboxTyped'
    <3>1. CASE MarkDelivered(c)
      BY <3>1, <1>t, MarkDeliveredTyped
    <3>2. ASSUME NEW how \in {"later", "none"}, MarkFailed(c, how), UNCHANGED outbox
          PROVE  RowsTyped' /\ OutboxTyped'
      BY <3>2, <1>t, MarkFailedTyped DEF outbox, OutboxTyped
    <3> QED BY <1>8, <3>1, <3>2 DEF Record
  <2>3. Drop(w, c, "send")
    BY <1>8 DEF Record
  <2>4. /\ batch' \in [Workers -> SUBSET Claim]
        /\ pc' \in [Workers -> Steps] /\ job' \in [Workers -> Jobs]
        /\ pc'[w] \notin {"record", "claimRow"}
        /\ \A v \in Workers : v # w => pc'[v] = pc[v] /\ batch'[v] = batch[v]
    BY <2>3 DEF Drop, TypeOK, Steps, Jobs, AfterBatch
  <2>5. /\ current' \in [Workers -> Claim \cup {NoClaim}]
        /\ result' \in [Workers -> {"none", "ok", "reuse", "retry", "fail"}]
        /\ \A v \in Workers : v # w => current'[v] = current[v] /\ result'[v] = result[v]
    BY <1>8 DEF Record, TypeOK
  <2>6. UNCHANGED <<incident, notified, ruleListed, about, refs, outside, budgets>>
    BY <1>8 DEF Record
  <2>7. TypeOK'
    BY <2>2, <2>4, <2>5, <2>6 DEF TypeOK, RowsTyped, OutboxTyped, outside, budgets
  <2>8. AtCall'
    BY <2>4, <2>5 DEF AtCall
  <2> QED BY <2>7, <2>8
<1>9. ASSUME NEW w \in Workers, Settle(w) PROVE Typed'
  BY <1>9 DEF TypeOK, AtCall, Steps, Jobs, Settle, rows, events, outbox, outside, budgets
<1>10. ASSUME NEW w \in Workers, MarkNotificationSent(w) PROVE Typed'
  BY <1>10 DEF TypeOK, AtCall, Steps, Jobs, MarkNotificationSent, rows, outbox, outside,
               budgets
<1>11. ASSUME NEW w \in Workers, ConfirmIssues(w) PROVE Typed'
  <2> DEFINE e == about[w]
  <2>1. syncPending[e] \in BOOLEAN /\ syncFailed[e] \in BOOLEAN
    BY DEF TypeOK
  <2>2. UNCHANGED <<rows, incident, notified, ruleListed, about, batch, current,
                    result, outside, budgets>>
    BY <1>11 DEF ConfirmIssues
  <2>3. CASE EndSync(w, syncPending[e], syncFailed[e])
    BY <2>1, <2>2, <2>3, EndSyncTyped, SyncStepTyped DEF TypeOK, budgets
  <2>4. CASE /\ refs' = [refs EXCEPT ![w] = IssuesOf(e) \cup (linked \cap RowsOf(e))]
             /\ Go(w, "close")
             /\ UNCHANGED outbox
    <3>1. IssuesOf(e) \cup (linked \cap RowsOf(e)) \subseteq Deliveries
      BY DEF IssuesOf, RowsOf
    <3>2. OutboxTyped'
      BY <1>t, <2>4 DEF OutboxTyped, outbox
    <3>3. /\ pc' \in [Workers -> Steps] /\ pc'[w] = "close"
          /\ \A v \in Workers : v # w => pc'[v] = pc[v]
          /\ refs' \in [Workers -> SUBSET Deliveries] /\ job' \in [Workers -> Jobs]
      BY <2>4, <3>1 DEF TypeOK, Steps, Jobs
    <3> QED BY <2>2, <3>2, <3>3, SyncStepTyped DEF TypeOK, budgets
  <2> QED BY <1>11, <2>3, <2>4 DEF ConfirmIssues
<1>12. ASSUME NEW w \in Workers, CloseIssues(w) PROVE Typed'
  BY <1>12 DEF TypeOK, AtCall, Steps, CloseIssues, rows, events, outbox, budgets
<1>13. ASSUME NEW w \in Workers, ClearSync(w) PROVE Typed'
  <2>1. EndSync(w, FALSE, FALSE)
    BY <1>13 DEF ClearSync
  <2> QED BY <1>13, <2>1, EndSyncTyped, SyncStepTyped DEF ClearSync, TypeOK, budgets
<1>14. ASSUME NEW w \in Workers, Refuse(w) PROVE Typed'
  <2>1. PICK c \in batch[w], r \in {"retry", "fail"} :
          /\ current' = [current EXCEPT ![w] = c]
          /\ result' = [result EXCEPT ![w] = r]
    BY <1>14 DEF Refuse
  <2>2. c \in Claim
    BY DEF TypeOK
  <2>3. UNCHANGED <<rows, events, job, about, batch, refs, outside, resets>>
    BY <1>14 DEF Refuse
  <2>4. faults' \in Nat /\ pc' \in [Workers -> Steps] /\ pc'[w] = "record"
        /\ \A v \in Workers : v # w => pc'[v] = pc[v]
    BY <1>14 DEF Refuse, Fault, TypeOK, Steps
  <2>5. TypeOK'
    BY <2>1, <2>2, <2>3, <2>4 DEF TypeOK, rows, events, outbox, outside
  <2>6. /\ current'[w] = c /\ result'[w] = r
        /\ \A v \in Workers : v # w => current'[v] = current[v] /\ result'[v] = result[v]
    BY <2>1 DEF TypeOK
  <2>7. AtCall'
    BY <2>3, <2>4, <2>6 DEF AtCall
  <2> QED BY <2>5, <2>7
<1>15. ASSUME NEW w \in Workers, RecordFails(w) PROVE Typed'
  BY <1>15 DEF TypeOK, AtCall, RecordFails, Fault, rows, events, outbox, outside
<1>16. ASSUME NEW w \in Workers, CloseFails(w) PROVE Typed'
  <2>1. syncPending[about[w]] \in BOOLEAN /\ syncFailed[about[w]] \in BOOLEAN
    BY DEF TypeOK
  <2>2. PICK pending \in BOOLEAN, failed \in BOOLEAN : EndSync(w, pending, failed)
    BY <1>16, <2>1 DEF CloseFails
  <2>3. faults' \in Nat
    BY <1>16 DEF CloseFails, Fault, TypeOK
  <2> QED BY <1>16, <2>2, <2>3, EndSyncTyped, SyncStepTyped DEF CloseFails
<1>17. ASSUME NEW w \in Workers, Crash(w) PROVE Typed'
  BY <1>17 DEF TypeOK, AtCall, Steps, Jobs, Crash, Fault, rows, events, outbox, outside
<1>18. ASSUME NEW w \in Workers, NEW e \in Events, BeginDispatch(w, e) PROVE Typed'
  BY <1>18 DEF TypeOK, AtCall, Steps, Jobs, BeginDispatch, Start, rows, events, outbox, outside,
               budgets
<1>19. ASSUME NEW w \in Workers, NEW e \in Events, BeginSync(w, e) PROVE Typed'
  BY <1>19 DEF TypeOK, AtCall, Steps, Jobs, BeginSync, Start, rows, outside, budgets
<1>20. ASSUME NEW w \in Workers, NEW d \in Deliveries, SweepClaim(w, d) PROVE Typed'
  <2>1. RowsTyped' /\ batch' \in [Workers -> SUBSET Claim]
    BY <1>20, <1>t, ClaimRowsTyped DEF SweepClaim, TypeOK
  <2>2. \A v \in Workers : v # w => pc'[v] = pc[v] /\ batch'[v] = batch[v]
    BY <1>20 DEF SweepClaim, Start, ClaimRows, TypeOK
  <2>3. EventOf[d] \in Events
    BY DeliveryAssumption
  <2>4. /\ pc' \in [Workers -> Steps] /\ pc'[w] = "lookup"
        /\ job' \in [Workers -> Jobs] /\ about' \in [Workers -> Events]
    BY <1>20, <2>3 DEF SweepClaim, Start, TypeOK, Steps, Jobs
  <2>5. UNCHANGED <<events, current, result, refs, outside, budgets>>
    BY <1>20 DEF SweepClaim
  <2>6. TypeOK'
    BY <2>1, <2>4, <2>5 DEF TypeOK, RowsTyped, events, outbox, outside, budgets
  <2>7. AtCall'
    BY <2>2, <2>4, <2>5 DEF AtCall
  <2> QED BY <2>6, <2>7
<1>21. ASSUME NEW w \in Workers, NEW d \in Deliveries, ResetForRetry(w, d) PROVE Typed'
  <2>1. RowsTyped'
    <3>1. now' \in Nat
      BY <1>21 DEF ResetForRetry, TypeOK
    <3>2. Release([of |-> d, at |-> claimedAt[d]], "pending", "none")
      BY <1>21 DEF ResetForRetry
    <3> QED BY <1>t, <3>1, <3>2, ReleaseTyped DEF RowStatus
  <2>2. EventOf[d] \in Events
    BY DeliveryAssumption
  <2>3. /\ pc' \in [Workers -> Steps] /\ pc'[w] = "claimRow"
        /\ job' \in [Workers -> Jobs] /\ about' \in [Workers -> Events]
        /\ \A v \in Workers : v # w => pc'[v] = pc[v]
    BY <1>21, <2>2 DEF ResetForRetry, Start, TypeOK, Steps, Jobs
  <2>4. /\ current' \in [Workers -> Claim \cup {NoClaim}] /\ current'[w].of = d
        /\ \A v \in Workers : v # w => current'[v] = current[v]
        /\ resets' \in Nat
    BY <1>21 DEF ResetForRetry, TypeOK, Claim
  <2>5. UNCHANGED <<events, batch, result, refs, outside, faults>>
    BY <1>21 DEF ResetForRetry
  <2>6. TypeOK'
    BY <2>1, <2>3, <2>4, <2>5 DEF TypeOK, RowsTyped, events, outbox, outside
  <2>7. AtCall'
    BY <2>3, <2>4, <2>5 DEF AtCall
  <2> QED BY <2>6, <2>7
<1>22. ASSUME NEW e \in Events, Resolve(e) PROVE Typed'
  BY <1>22 DEF TypeOK, AtCall, Resolve, ResolveAll, rows, workers, outside, budgets
<1>23. ASSUME NEW e \in Events, SyncLeaseLapses(e) PROVE Typed'
  BY <1>23 DEF TypeOK, AtCall, SyncLeaseLapses, Fault, rows, workers, outside
<1>24. ASSUME NEW d \in Deliveries, LeaseLapses(d) PROVE Typed'
  BY <1>24 DEF TypeOK, AtCall, LeaseLapses, Fault, events, outbox, workers, outside
<1>25. ASSUME NEW d \in Deliveries, BackoffElapses(d) PROVE Typed'
  BY <1>25 DEF TypeOK, AtCall, BackoffElapses, events, outbox, workers, outside, budgets
<1>28. ASSUME NEW w \in Workers, RecordMapping(w) PROVE Typed'
  BY <1>28 DEF TypeOK, AtCall, RecordMapping, Succeeded, Claim, rows, events, outbox, workers,
               budgets
<1>29. ASSUME NEW w \in Workers, SweepFails(w) PROVE Typed'
  <2>1. RowsTyped'
    BY <1>29, <1>t, MarkFailedTyped DEF SweepFails
  <2>2. /\ batch' \in [Workers -> SUBSET Claim]
        /\ current' \in [Workers -> Claim \cup {NoClaim}]
        /\ result' \in [Workers -> {"none", "ok", "reuse", "retry", "fail"}]
        /\ pc' \in [Workers -> Steps] /\ job' \in [Workers -> Jobs]
        /\ pc'[w] = "idle" /\ faults' \in Nat
        /\ \A v \in Workers : v # w => /\ pc'[v] = pc[v] /\ batch'[v] = batch[v]
                                       /\ current'[v] = current[v] /\ result'[v] = result[v]
    BY <1>29 DEF SweepFails, TypeOK, Steps, Jobs, Fault
  <2>3. UNCHANGED <<events, about, refs, outside, resets>>
    BY <1>29 DEF SweepFails
  <2>4. TypeOK'
    BY <2>1, <2>2, <2>3 DEF TypeOK, RowsTyped, events, outbox, outside
  <2>5. AtCall'
    BY <2>2, <2>3 DEF AtCall
  <2> QED BY <2>4, <2>5
<1>30. ASSUME NEW d \in Deliveries, MapElsewhere(d) PROVE Typed'
  BY <1>30 DEF TypeOK, AtCall, MapElsewhere, rows, events, outbox, workers, budgets
<1>26. CASE RequestRuleDeletion
  BY <1>26 DEF TypeOK, AtCall, RequestRuleDeletion, ResolveAll, rows, workers, outside, budgets
<1>27. CASE UNCHANGED vars
  BY <1>27 DEF TypeOK, AtCall, vars, rows, events, outbox, workers, outside, budgets
<1> QED
  BY <1>1, <1>2, <1>3, <1>4, <1>5, <1>6, <1>7, <1>8, <1>9, <1>10, <1>11, <1>12, <1>13, <1>14,
     <1>15, <1>16, <1>17, <1>18, <1>19, <1>20, <1>21, <1>22, <1>23, <1>24, <1>25, <1>26, <1>27,
     <1>28, <1>29, <1>30
  DEF Next, WorkerStep

\* The types hold in every behaviour, with what a worker holds in mid-call.
THEOREM TypeCorrect == Spec => []TypeOK
<1>1. Typed => TypeOK
  BY DEF Typed
<1> QED BY <1>1, TypedInit, TypedStep, PTL DEF Spec

-----------------------------------------------------------------------------
(* What a step can touch *)

\* The steps of one worker, and those of people and clocks.
Works(w) ==
  \/ WorkerStep(w) \/ Refuse(w) \/ RecordFails(w) \/ SweepFails(w) \/ CloseFails(w)
  \/ Crash(w)
  \/ \E e \in Events : BeginDispatch(w, e) \/ BeginSync(w, e)
  \/ \E d \in Deliveries : SweepClaim(w, d) \/ ResetForRetry(w, d)

Outside ==
  \/ \E e \in Events : Resolve(e) \/ SyncLeaseLapses(e)
  \/ \E d \in Deliveries : LeaseLapses(d) \/ BackoffElapses(d) \/ MapElsewhere(d)
  \/ RequestRuleDeletion
  \/ UNCHANGED vars

\* A step is one of a worker, or one of people and clocks.
LEMMA EveryStep == [Next]_vars <=> (\E w \in Workers : Works(w)) \/ Outside
  BY DEF Next, Works, Outside

\* People and clocks change no row's status, no worker and no history; other
\* incidents may give a job its issue.
Quiet ==
  /\ UNCHANGED <<status, claimedAt, workers, created, closed, linked, notified>>
  /\ mapped \subseteq mapped'
  /\ \A e \in Events : incident[e] = "resolved" => incident'[e] = "resolved"

\* Proved action by action.
LEMMA OutsideIsQuiet ==
  ASSUME TypeOK, Outside
  PROVE  Quiet
<1> USE DEF Quiet
<1>1. ASSUME NEW e \in Events, Resolve(e) PROVE Quiet
  BY <1>1 DEF TypeOK, Resolve, ResolveAll, rows, outside
<1>2. ASSUME NEW e \in Events, SyncLeaseLapses(e) PROVE Quiet
  BY <1>2 DEF SyncLeaseLapses, rows, outside
<1>3. ASSUME NEW d \in Deliveries, LeaseLapses(d) PROVE Quiet
  BY <1>3 DEF LeaseLapses, events, outside
<1>4. ASSUME NEW d \in Deliveries, BackoffElapses(d) PROVE Quiet
  BY <1>4 DEF BackoffElapses, events, outside
<1>5. ASSUME NEW d \in Deliveries, MapElsewhere(d) PROVE Quiet
  BY <1>5 DEF MapElsewhere, rows, events
<1>6. ASSUME RequestRuleDeletion PROVE Quiet
  BY <1>6 DEF TypeOK, RequestRuleDeletion, ResolveAll, rows, outside
<1>7. ASSUME UNCHANGED vars PROVE Quiet
  BY <1>7 DEF vars, rows, events, outside
<1> QED BY <1>1, <1>2, <1>3, <1>4, <1>5, <1>6, <1>7 DEF Outside

\* A worker leaves the others alone.
Kept(v) ==
  /\ pc'[v] = pc[v] /\ job'[v] = job[v] /\ about'[v] = about[v] /\ batch'[v] = batch[v]
  /\ current'[v] = current[v] /\ result'[v] = result[v] /\ refs'[v] = refs[v]

\* Proved action by action.
LEMMA OthersKept ==
  ASSUME TypeOK, NEW w \in Workers, Works(w), NEW v \in Workers, v # w
  PROVE  Kept(v)
<1> USE DEF TypeOK, Kept
<1>1. CASE Enqueue(w)
  BY <1>1 DEF Enqueue
<1>2. CASE ClaimDueForEvent(w)
  BY <1>2 DEF ClaimDueForEvent, ClaimRows
<1>3. CASE SweepLookup(w)
  BY <1>3 DEF SweepLookup
<1>4. CASE ClaimById(w)
  BY <1>4 DEF ClaimById, ClaimRows
<1>5. CASE CheckIncident(w)
  BY <1>5 DEF CheckIncident
<1>6. CASE AbandonOne(w)
  BY <1>6 DEF AbandonOne, Drop
<1>7. CASE CallProvider(w)
  BY <1>7 DEF CallProvider
<1>8. CASE Record(w)
  BY <1>8 DEF Record, Drop
<1>9. CASE Settle(w)
  BY <1>9 DEF Settle
<1>10. CASE MarkNotificationSent(w)
  BY <1>10 DEF MarkNotificationSent
<1>11. CASE ConfirmIssues(w)
  BY <1>11 DEF ConfirmIssues, EndSync
<1>12. CASE CloseIssues(w)
  BY <1>12 DEF CloseIssues
<1>13. CASE ClearSync(w)
  BY <1>13 DEF ClearSync, EndSync
<1>14. CASE Refuse(w)
  BY <1>14 DEF Refuse
<1>15. CASE RecordFails(w)
  BY <1>15 DEF RecordFails
<1>16. CASE CloseFails(w)
  BY <1>16 DEF CloseFails, EndSync
<1>17. CASE Crash(w)
  BY <1>17 DEF Crash
<1>22. CASE RecordMapping(w)
  BY <1>22 DEF RecordMapping, workers
<1>23. CASE SweepFails(w)
  BY <1>23 DEF SweepFails
<1>18. ASSUME NEW e \in Events, BeginDispatch(w, e) PROVE Kept(v)
  BY <1>18 DEF BeginDispatch, Start
<1>19. ASSUME NEW e \in Events, BeginSync(w, e) PROVE Kept(v)
  BY <1>19 DEF BeginSync, Start
<1>20. ASSUME NEW d \in Deliveries, SweepClaim(w, d) PROVE Kept(v)
  BY <1>20 DEF SweepClaim, Start, ClaimRows
<1>21. ASSUME NEW d \in Deliveries, ResetForRetry(w, d) PROVE Kept(v)
  BY <1>21 DEF ResetForRetry, Start
<1> QED
  BY <1>1, <1>2, <1>3, <1>4, <1>5, <1>6, <1>7, <1>8, <1>9, <1>10, <1>11, <1>12, <1>13, <1>14,
     <1>15, <1>16, <1>17, <1>18, <1>19, <1>20, <1>21, <1>22, <1>23
  DEF Works, WorkerStep

-----------------------------------------------------------------------------
(* Rows *)

\* A worker moves a row to delivered only by recording the success of its own
\* call; delivered rows stay, and enqueued rows stay enqueued.
Moves(w, d) ==
  /\ status[d] = "delivered" => status'[d] = "delivered"
  /\ status[d] # "absent" => status'[d] # "absent"
  /\ status'[d] = "delivered" /\ status[d] # "delivered" =>
       pc[w] = "record" /\ Succeeded(w) /\ current[w].of = d /\ MarkDelivered(current[w])

\* A recorded failure delivers nothing.
LEMMA MarkFailedMoves ==
  ASSUME TypeOK, NEW w \in Workers, NEW d \in Deliveries, NEW c, NEW retry, MarkFailed(c, retry)
  PROVE  Moves(w, d)
  BY DEF TypeOK, Moves, MarkFailed, StillHeld, Release, rows

\* Proved action by action.
LEMMA StatusMoves ==
  ASSUME Typed, NEW w \in Workers, Works(w), NEW d \in Deliveries
  PROVE  Moves(w, d)
<1> USE DEF Typed, TypeOK, Moves
<1>1. CASE Enqueue(w)
  BY <1>1 DEF Enqueue
<1>2. CASE ClaimDueForEvent(w)
  <2>1. CASE UNCHANGED rows
    BY <2>1 DEF rows
  <2>2. CASE ClaimRows(w, {r \in RowsOf(about[w]) : Claimable(r)})
    BY <2>2 DEF ClaimRows, Claimable
  <2> QED BY <1>2, <2>1, <2>2 DEF ClaimDueForEvent
<1>3. CASE ClaimById(w)
  <2>1. CASE UNCHANGED rows
    BY <2>1 DEF rows
  <2>2. CASE Claimable(current[w].of) /\ ClaimRows(w, {current[w].of})
    BY <2>2 DEF ClaimRows, Claimable
  <2> QED BY <1>3, <2>1, <2>2 DEF ClaimById
<1>4. CASE AbandonOne(w)
  BY <1>4, MarkFailedMoves DEF AbandonOne
<1>5. CASE Record(w)
  <2>1. CASE Succeeded(w) /\ MarkDelivered(current[w])
    <3>1. \/ UNCHANGED rows
          \/ StillHeld(current[w]) /\ Release(current[w], "delivered", "none")
      BY <2>1 DEF MarkDelivered
    <3>2. pc[w] = "record"
      BY <1>5 DEF Record
    <3> QED BY <2>1, <3>1, <3>2 DEF StillHeld, Release, rows
  <2>2. CASE \E how \in {"later", "none"} : MarkFailed(current[w], how)
    BY <2>2, MarkFailedMoves
  <2> QED BY <1>5, <2>1, <2>2 DEF Record
<1>10. CASE SweepFails(w)
  BY <1>10, MarkFailedMoves DEF SweepFails
<1>6. ASSUME NEW r \in Deliveries, SweepClaim(w, r) PROVE Moves(w, d)
  BY <1>6 DEF SweepClaim, ClaimRows, Claimable
<1>7. ASSUME NEW r \in Deliveries, ResetForRetry(w, r) PROVE Moves(w, d)
  BY <1>7 DEF ResetForRetry, Release
<1>8. CASE UNCHANGED rows
  BY <1>8 DEF rows
<1>9. SweepLookup(w) \/ CheckIncident(w) \/ CallProvider(w) \/ Settle(w)
        \/ MarkNotificationSent(w) \/ ConfirmIssues(w) \/ CloseIssues(w) \/ ClearSync(w)
        \/ Refuse(w) \/ RecordFails(w) \/ RecordMapping(w) \/ CloseFails(w) \/ Crash(w)
        \/ (\E e \in Events : BeginDispatch(w, e) \/ BeginSync(w, e)) => UNCHANGED rows
  BY DEF SweepLookup, CheckIncident, CallProvider, Settle, MarkNotificationSent, ConfirmIssues,
         CloseIssues, ClearSync, Refuse, RecordFails, RecordMapping, CloseFails, Crash,
         BeginDispatch, BeginSync
<1> QED
  BY <1>1, <1>2, <1>3, <1>4, <1>5, <1>6, <1>7, <1>8, <1>9, <1>10 DEF Works, WorkerStep

\* A delivered row is final: no late failure, stale worker, take-over or press
\* of Retry moves it again.
THEOREM DeliveredStays == Spec => DeliveredIsFinal
<1>1. Typed /\ [Next]_vars
        => [\A d \in Deliveries : status[d] = "delivered" => status'[d] = "delivered"]_vars
  <2> SUFFICES ASSUME Typed, [Next]_vars, NEW d \in Deliveries, status[d] = "delivered"
               PROVE  status'[d] = "delivered"
    OBVIOUS
  <2>1. CASE Outside
    BY <2>1, OutsideIsQuiet DEF Typed, Quiet
  <2>2. ASSUME NEW w \in Workers, Works(w) PROVE status'[d] = "delivered"
    BY <2>2, StatusMoves DEF Moves
  <2> QED BY <2>1, <2>2, EveryStep
<1> QED BY <1>1, TypedInit, TypedStep, PTL DEF Spec, DeliveredIsFinal

-----------------------------------------------------------------------------
(* Provider calls *)

\* Only a provider call adds to the history of the provider.
Calls(w, c) ==
  /\ c \in batch[w] /\ pc[w] = "send" /\ pc'[w] = "record" /\ current'[w] = c
  /\ UNCHANGED <<status, mapped>>
  /\ \/ result'[w] = "reuse" /\ c.of \in mapped /\ created' = created
     \/ \E o \in CallOutcomes(c.of) :
          /\ result'[w] = o.seen
          /\ created' = [created EXCEPT ![c.of] = IF o.taken THEN @ + 1 ELSE @]

\* Every call is of this form.
LEMMA CallsAre ==
  ASSUME Typed, NEW w \in Workers, CallProvider(w)
  PROVE  \E c \in batch[w] : Calls(w, c)
<1>1. PICK c \in batch[w] :
        /\ current' = [current EXCEPT ![w] = c]
        /\ \/ /\ c.of \in mapped
              /\ result' = [result EXCEPT ![w] = "reuse"]
              /\ created' = created
           \/ \E o \in CallOutcomes(c.of) :
                /\ created' = [created EXCEPT ![c.of] = IF o.taken THEN @ + 1 ELSE @]
                /\ result' = [result EXCEPT ![w] = o.seen]
  BY DEF CallProvider
<1>2. /\ pc[w] = "send" /\ pc'[w] = "record" /\ current'[w] = c
      /\ UNCHANGED <<status, mapped>>
  BY <1>1 DEF CallProvider, Typed, TypeOK, rows
<1>3. \A seen : result' = [result EXCEPT ![w] = seen] => result'[w] = seen
  BY DEF Typed, TypeOK
<1> QED BY <1>1, <1>2, <1>3 DEF Calls

\* Nothing else touches the history; mappings only grow.
LEMMA CallsMove ==
  ASSUME Typed, NEW w \in Workers, Works(w)
  PROVE  /\ created' = created \/ \E c \in batch[w] : Calls(w, c)
         /\ mapped \subseteq mapped'
<1>1. CASE CallProvider(w)
  BY <1>1, CallsAre DEF Calls
<1>2. CASE Enqueue(w) \/ ClaimDueForEvent(w) \/ SweepLookup(w) \/ ClaimById(w)
             \/ CheckIncident(w) \/ AbandonOne(w) \/ Record(w) \/ Settle(w)
             \/ MarkNotificationSent(w) \/ ConfirmIssues(w) \/ CloseIssues(w) \/ ClearSync(w)
  BY <1>2 DEF Enqueue, ClaimDueForEvent, SweepLookup, ClaimById, CheckIncident, AbandonOne,
              Record, Settle, MarkNotificationSent, ConfirmIssues, CloseIssues, ClearSync, outside
<1>3. CASE Refuse(w) \/ RecordFails(w) \/ RecordMapping(w) \/ SweepFails(w) \/ CloseFails(w)
             \/ Crash(w)
  BY <1>3 DEF Refuse, RecordFails, RecordMapping, SweepFails, CloseFails, Crash, outside
<1>4. CASE \E e \in Events : BeginDispatch(w, e) \/ BeginSync(w, e)
  BY <1>4 DEF BeginDispatch, BeginSync, outside
<1>5. CASE \E d \in Deliveries : SweepClaim(w, d) \/ ResetForRetry(w, d)
  BY <1>5 DEF SweepClaim, ResetForRetry, outside
<1> QED BY <1>1, <1>2, <1>3, <1>4, <1>5 DEF Works, WorkerStep

-----------------------------------------------------------------------------
(* What the provider was told *)

\* How a worker gets into the recording of a success.
EntersSuccess(w) ==
  pc'[w] = "record" /\ Succeeded(w)' =>
    \/ \E c \in batch[w] : Calls(w, c)
    \/ pc[w] = "record" /\ Succeeded(w) /\ current'[w] = current[w]

\* By a call only; to write the mapping first is to stay in it.
LEMMA SuccessMoves ==
  ASSUME Typed, NEW w \in Workers, Works(w)
  PROVE  EntersSuccess(w)
<1> USE DEF Typed, TypeOK, EntersSuccess, Succeeded
<1>1. CASE CallProvider(w)
  BY <1>1, CallsAre
<1>2. CASE Record(w)
  BY <1>2 DEF Record, Drop, AfterBatch
<1>3. CASE Refuse(w)
  BY <1>3 DEF Refuse
<1>4. CASE AbandonOne(w)
  BY <1>4 DEF AbandonOne, Drop, AfterBatch
<1>5. CASE ClaimDueForEvent(w) \/ ClaimById(w)
  BY <1>5 DEF ClaimDueForEvent, ClaimById, AfterBatch
<1>6. CASE Enqueue(w) \/ SweepLookup(w) \/ CheckIncident(w) \/ Settle(w)
             \/ MarkNotificationSent(w) \/ CloseIssues(w)
  BY <1>6 DEF Enqueue, SweepLookup, CheckIncident, Settle, MarkNotificationSent, CloseIssues
<1>7. CASE ConfirmIssues(w) \/ ClearSync(w) \/ CloseFails(w)
  BY <1>7 DEF ConfirmIssues, ClearSync, CloseFails, EndSync
<1>8. CASE RecordFails(w)
  BY <1>8 DEF RecordFails
<1>9. CASE RecordMapping(w)
  BY <1>9 DEF RecordMapping, workers
<1>10. CASE SweepFails(w) \/ Crash(w)
  BY <1>10 DEF SweepFails, Crash
<1>11. ASSUME NEW e \in Events, BeginDispatch(w, e) \/ BeginSync(w, e)
       PROVE  pc'[w] # "record"
  BY <1>11 DEF BeginDispatch, BeginSync, Start
<1>12. ASSUME NEW d \in Deliveries, SweepClaim(w, d) \/ ResetForRetry(w, d)
       PROVE  pc'[w] # "record"
  BY <1>12 DEF SweepClaim, ResetForRetry, Start
<1> QED
  BY <1>1, <1>2, <1>3, <1>4, <1>5, <1>6, <1>7, <1>8, <1>9, <1>10, <1>11, <1>12
  DEF Works, WorkerStep

\* A worker about to record a success has told the provider, or found an issue.
Told == \A w \in Workers : pc[w] = "record" /\ Succeeded(w) => Taken(current[w].of)

\* The provider forgets no message, the database no issue.
LEMMA HistoryGrows ==
  ASSUME Typed, NEW w \in Workers, Works(w), NEW d \in Deliveries, Taken(d)
  PROVE  Taken(d)'
<1>0. mapped \subseteq mapped' /\ created \in [Deliveries -> Nat]
  BY CallsMove DEF Typed, TypeOK
<1>1. CASE created' = created
  BY <1>0, <1>1 DEF Taken
<1>2. CASE \E c \in batch[w] : Calls(w, c)
  <2>1. PICK c \in batch[w] : Calls(w, c)
    BY <1>2
  <2>2. created'[d] \in {created[d], created[d] + 1}
    BY <1>0, <2>1 DEF Calls
  <2> QED BY <1>0, <2>2 DEF Taken
<1> QED BY <1>1, <1>2, CallsMove

\* A call that succeeds has taken the message, or found an issue.
LEMMA CallsTell ==
  ASSUME Typed, NEW w \in Workers, NEW c \in batch[w], Calls(w, c), Succeeded(w)'
  PROVE  Taken(c.of)'
<1>1. c.of \in Deliveries
  BY DEF Typed, TypeOK, Claim
<1>2. CASE c.of \in mapped
  BY <1>2 DEF Calls, Taken
<1>3. CASE c.of \notin mapped
  <2>1. PICK o \in CallOutcomes(c.of) :
          /\ result'[w] = o.seen
          /\ created' = [created EXCEPT ![c.of] = IF o.taken THEN @ + 1 ELSE @]
    BY <1>3 DEF Calls
  <2>2. o.taken
    BY <2>1 DEF CallOutcomes, Succeeded
  <2>3. created'[c.of] = created[c.of] + 1 /\ created[c.of] \in Nat
    BY <1>1, <2>1, <2>2 DEF Typed, TypeOK
  <2> QED BY <2>3 DEF Taken
<1> QED BY <1>2, <1>3

\* A success that is being recorded stays true.
LEMMA ToldStep == Typed /\ Told /\ [Next]_vars => Told'
<1> SUFFICES ASSUME Typed, Told, [Next]_vars,
                    NEW v \in Workers, pc'[v] = "record", Succeeded(v)'
             PROVE  Taken(current[v].of)'
  BY DEF Told
<1>1. CASE Outside
  BY <1>1, OutsideIsQuiet DEF Typed, Quiet, Told, Taken, Succeeded, workers
<1>2. ASSUME NEW w \in Workers, Works(w) PROVE Taken(current[v].of)'
  <2>1. CASE /\ pc[v] = "record" /\ Succeeded(v) /\ current'[v] = current[v]
    <3>1. current[v].of \in Deliveries /\ Taken(current[v].of)
      BY <2>1 DEF Typed, TypeOK, AtCall, Claim, Told
    <3>2. Taken(current[v].of)' <=> created'[current'[v].of] > 0 \/ current'[v].of \in mapped'
      BY DEF Taken
    <3>3. created'[current[v].of] > 0 \/ current[v].of \in mapped'
      BY <1>2, <3>1, HistoryGrows DEF Taken
    <3> QED BY <2>1, <3>2, <3>3
  <2>2. CASE v # w
    BY <1>2, <2>1, <2>2, OthersKept DEF Typed, Kept, Succeeded
  <2>3. CASE v = w /\ \E c \in batch[w] : Calls(w, c)
    BY <2>3, CallsTell DEF Calls, Taken
  <2> QED BY <1>2, <2>1, <2>2, <2>3, SuccessMoves DEF EntersSuccess
<1> QED BY <1>1, <1>2, EveryStep

\* A delivered row stays true: the success that made it so was.
LEMMA WasTakenStep == Typed /\ Told /\ DeliveredWasTaken /\ [Next]_vars => DeliveredWasTaken'
<1> SUFFICES ASSUME Typed, Told, DeliveredWasTaken, [Next]_vars,
                    NEW d \in Deliveries, status'[d] = "delivered"
             PROVE  Taken(d)'
  BY DEF DeliveredWasTaken
<1>1. CASE Outside
  BY <1>1, OutsideIsQuiet DEF Typed, Quiet, DeliveredWasTaken, Taken
<1>2. ASSUME NEW w \in Workers, Works(w) PROVE Taken(d)'
  <2>1. Taken(d)
    BY <1>2, StatusMoves DEF Moves, Told, DeliveredWasTaken
  <2> QED BY <1>2, <2>1, HistoryGrows
<1> QED BY <1>1, <1>2, EveryStep

\* A delivered row says the truth: the provider took the message, or the job of
\* the incident has an issue.
THEOREM DeliveredIsTrue == Spec => []DeliveredWasTaken
<1>1. Init => Told /\ DeliveredWasTaken
  BY DEF Init, Told, DeliveredWasTaken
<1> QED BY <1>1, TypedInit, TypedStep, ToldStep, WasTakenStep, PTL DEF Spec

-----------------------------------------------------------------------------
(* Messages sent again only for a cause *)

\* The worker has the provider's last word on claim c.
Answered(w, c) == pc[w] = "record" /\ current[w] = c /\ result[w] # "retry"

\* Worker w may still send, or put back, delivery d.
Holds(w, d) == \E c \in batch[w] : c.of = d /\ ~Answered(w, c)
Holders(d)  == {w \in Workers : Holds(w, d)}

\* Delivery d can be claimed, now or later, without a further fault.
Free(d) ==
  \/ status[d] \in {"absent", "pending"}
  \/ status[d] = "failed" /\ nextRetryAt[d] # "none"
  \/ status[d] = "claimed" /\ (lapsed[d] \/ ~Held(d))

\* A worker holds claims only between its claim query and their outcomes, and
\* one of each delivery.
EmptySteps == {"idle", "enqueue", "claimEvent", "claimRow",
               "settle", "mark", "confirm", "close", "clear"}
Hand(w) ==
  /\ pc[w] \in EmptySteps => batch[w] = {}
  /\ \A b, c \in batch[w] : b.of = c.of => b = c
Hands == \A w \in Workers : Hand(w)

\* Each message taken, each chance to send it again, was paid for.
Counts ==
  \A d \in Deliveries :
    created[d] + Cardinality(Holders(d)) + (IF Free(d) THEN 1 ELSE 0) <= 1 + faults + resets

\* A claim query leaves one claim of each row in the hands of its worker.
LEMMA ClaimRowsHand ==
  ASSUME TypeOK, NEW w \in Workers, NEW ds, ClaimRows(w, ds)
  PROVE  \A b, c \in batch'[w] : b.of = c.of => b = c
  BY DEF ClaimRows, TypeOK

\* Proved action by action.
LEMMA HandStep ==
  ASSUME Typed, Hands, NEW w \in Workers, Works(w)
  PROVE  Hand(w)'
<1>h. Hand(w)
  BY DEF Hands
<1>t. TypeOK
  BY DEF Typed
<1> USE DEF Hand, EmptySteps
<1>1. CASE ClaimDueForEvent(w)
  <2>1. CASE UNCHANGED batch /\ pc[w] = "claimEvent"
    BY <1>h, <2>1
  <2>2. ASSUME NEW ds, ClaimRows(w, ds), pc'[w] \in {"abandon", "check"} PROVE Hand(w)'
    BY <1>t, <2>2, ClaimRowsHand
  <2> QED BY <1>1, <2>1, <2>2 DEF ClaimDueForEvent, Typed, TypeOK
<1>2. CASE ClaimById(w)
  <2>1. CASE UNCHANGED batch /\ pc[w] = "claimRow"
    BY <1>h, <2>1
  <2>2. ASSUME NEW ds, ClaimRows(w, ds), pc'[w] = "check" PROVE Hand(w)'
    BY <1>t, <2>2, ClaimRowsHand
  <2> QED BY <1>2, <2>1, <2>2 DEF ClaimById, Typed, TypeOK
<1>3. ASSUME NEW d \in Deliveries, SweepClaim(w, d) PROVE Hand(w)'
  <2>1. pc'[w] = "lookup" /\ ClaimRows(w, {d})
    BY <1>3 DEF SweepClaim, Start, Typed, TypeOK
  <2> QED BY <1>t, <2>1, ClaimRowsHand
<1>4. ASSUME NEW c, Drop(w, c, "send") \/ Drop(w, c, "abandon") PROVE Hand(w)'
  BY <1>4, <1>h DEF Drop, Typed, TypeOK
<1>5. CASE AbandonOne(w) \/ Record(w)
  BY <1>4, <1>5 DEF AbandonOne, Record
<1>6. CASE SweepFails(w) \/ Crash(w)
  BY <1>6 DEF SweepFails, Crash, Typed, TypeOK
<1>7. ASSUME batch' = batch, pc[w] \in EmptySteps \/ pc'[w] \notin EmptySteps PROVE Hand(w)'
  BY <1>7, <1>h
<1>8. CASE Enqueue(w) \/ SweepLookup(w) \/ CheckIncident(w) \/ CallProvider(w) \/ Refuse(w)
             \/ RecordMapping(w) \/ RecordFails(w)
  BY <1>7, <1>8 DEF Enqueue, SweepLookup, CheckIncident, CallProvider, Refuse, RecordMapping,
                    RecordFails, workers, Typed, TypeOK
<1>9. CASE Settle(w) \/ MarkNotificationSent(w) \/ ConfirmIssues(w) \/ CloseIssues(w)
             \/ ClearSync(w) \/ CloseFails(w)
  BY <1>7, <1>9 DEF Settle, MarkNotificationSent, ConfirmIssues, CloseIssues, ClearSync,
                    CloseFails
<1>10. ASSUME NEW e \in Events, BeginDispatch(w, e) \/ BeginSync(w, e) PROVE Hand(w)'
  BY <1>7, <1>10 DEF BeginDispatch, BeginSync, Start
<1>11. ASSUME NEW d \in Deliveries, ResetForRetry(w, d) PROVE Hand(w)'
  BY <1>7, <1>11 DEF ResetForRetry, Start
<1> QED
  BY <1>1, <1>2, <1>3, <1>5, <1>6, <1>8, <1>9, <1>10, <1>11 DEF Works, WorkerStep

LEMMA HandsStep == Typed /\ Hands /\ [Next]_vars => Hands'
<1> SUFFICES ASSUME Typed, Hands, [Next]_vars, NEW v \in Workers PROVE Hand(v)'
  BY DEF Hands
<1>1. Hand(v)
  BY DEF Hands
<1>2. CASE Outside
  BY <1>1, <1>2, OutsideIsQuiet DEF Typed, Quiet, workers, Hand
<1>3. ASSUME NEW w \in Workers, Works(w) PROVE Hand(v)'
  <2>1. CASE v = w
    BY <1>3, <2>1, HandStep
  <2>2. CASE v # w
    BY <1>1, <1>3, <2>2, OthersKept DEF Typed, Kept, Hand
  <2> QED BY <2>1, <2>2
<1> QED BY <1>2, <1>3, EveryStep

\* What worker w and the row can still add to the messages of d.
Stake(w, d) ==
  created[d] + (IF Holds(w, d) THEN 1 ELSE 0) + (IF Free(d) THEN 1 ELSE 0)

\* A step adds to it only what a fault or a press of Retry pays for.
Pays(w, d) == Stake(w, d)' + faults + resets <= Stake(w, d) + faults' + resets'

\* A claim that stays in its worker's hands stays on its row.
LEMMA HeldStays ==
  ASSUME Typed, NEW w \in Workers, Works(w), NEW d \in Deliveries,
         claimedAt'[d] = claimedAt[d], Held(d),
         \A c \in batch[w] : c.of = d /\ c.at = claimedAt[d] => c \in batch'[w]
  PROVE  Held(d)'
<1>1. PICK v \in Workers : \E c \in batch[v] : c.of = d /\ c.at = claimedAt[d]
  BY DEF Held
<1>2. PICK c \in batch[v] : c.of = d /\ c.at = claimedAt[d]
  BY <1>1
<1>3. c \in batch'[v]
  BY <1>2, OthersKept DEF Typed, Kept
<1> QED BY <1>2, <1>3 DEF Held

\* A row that is left alone becomes free only by losing its last holder.
LEMMA FreeStays ==
  ASSUME NEW d \in Deliveries,
         status'[d] = status[d], nextRetryAt'[d] = nextRetryAt[d], lapsed'[d] = lapsed[d],
         status[d] = "claimed" /\ Held(d) => Held(d)',
         Free(d)'
  PROVE  Free(d)
  BY DEF Free

\* A worker that keeps its claims and leaves the rows alone frees none.
LEMMA FreeKept ==
  ASSUME Typed, NEW w \in Workers, Works(w), UNCHANGED <<rows, batch>>,
         NEW d \in Deliveries, Free(d)'
  PROVE  Free(d)
<1>1. Held(d) => Held(d)'
  BY DEF Held, rows
<1> QED BY <1>1, FreeStays DEF rows

\* A claim query takes free rows and nothing else.
LEMMA ClaimsPay ==
  ASSUME Typed, NEW w \in Workers, Works(w), batch[w] = {}, pc'[w] # "record",
         NEW ds \in SUBSET Deliveries, \A r \in ds : Claimable(r), ClaimRows(w, ds),
         UNCHANGED <<created, budgets>>, NEW d \in Deliveries
  PROVE  Pays(w, d)
<1>1. created[d] \in Nat /\ faults \in Nat /\ resets \in Nat /\ created'[d] = created[d]
      /\ faults' = faults /\ resets' = resets /\ ~Holds(w, d)
  BY DEF Typed, TypeOK, Holds, budgets
<1>b. batch'[w] = {[of |-> r, at |-> now] : r \in ds}
  BY DEF ClaimRows, Typed, TypeOK
<1>2. CASE d \in ds
  <2>1. Free(d)
    BY <1>2 DEF Claimable, Free
  <2>2. Held(d)'
    <3>1. [of |-> d, at |-> now] \in batch'[w] /\ claimedAt'[d] = now
      BY <1>2, <1>b DEF ClaimRows
    <3> QED BY <3>1 DEF Held
  <2>3. ~Free(d)'
    BY <1>2, <2>2 DEF Free, ClaimRows
  <2> QED BY <1>1, <2>1, <2>3 DEF Pays, Stake
<1>3. CASE d \notin ds
  <2>1. ~Holds(w, d)'
    BY <1>3, <1>b DEF Holds
  <2>2. UNCHANGED <<status[d], claimedAt[d], nextRetryAt[d], lapsed[d]>>
    BY <1>3 DEF ClaimRows, Typed, TypeOK
  <2>3. Free(d)' => Free(d)
    BY <2>2, HeldStays, FreeStays
  <2> QED BY <1>1, <2>1, <2>3 DEF Pays, Stake
<1> QED BY <1>2, <1>3

\* An outcome gives one claim up; one that is to be retried was still held.
LEMMA OutcomePays ==
  ASSUME Typed, Hands, NEW w \in Workers, Works(w), NEW c \in batch[w],
         NEW to \in {"failed", "delivered"}, NEW retry \in {"none", "later"},
         IF StillHeld(c) THEN Release(c, to, retry) ELSE UNCHANGED rows,
         retry = "none" \/ (to = "failed" /\ ~Answered(w, c)),
         pc[w] # "record" \/ current[w] = c,
         batch'[w] = batch[w] \ {c}, pc'[w] # "record",
         UNCHANGED <<created, budgets>>, NEW d \in Deliveries
  PROVE  Pays(w, d)
<1>1. created[d] \in Nat /\ faults \in Nat /\ resets \in Nat /\ created'[d] = created[d]
      /\ faults' = faults /\ resets' = resets
  BY DEF Typed, TypeOK, budgets
<1>2. c \in Claim /\ c.of \in Deliveries
  BY DEF Typed, TypeOK, Claim
<1>3. CASE d = c.of
  <2>1. ~Holds(w, d)'
    BY <1>3 DEF Hands, Hand, Holds
  <2>2. CASE StillHeld(c)
    <3>1. status'[d] = to /\ nextRetryAt'[d] = retry
      BY <1>2, <1>3, <2>2 DEF Release, Typed, TypeOK
    <3>2. CASE retry = "none"
      <4>1. ~Free(d)'
        BY <3>1, <3>2 DEF Free
      <4> QED BY <1>1, <2>1, <4>1 DEF Pays, Stake
    <3>3. CASE ~Answered(w, c)
      <4>1. Holds(w, d)
        BY <1>3, <3>3 DEF Holds
      <4> QED BY <1>1, <2>1, <4>1 DEF Pays, Stake
    <3> QED BY <3>2, <3>3
  <2>3. CASE ~StillHeld(c)
    <3>1. UNCHANGED <<status, claimedAt, nextRetryAt, lapsed>>
      BY <2>3 DEF rows
    <3>2. status[d] = "claimed" => claimedAt[d] # c.at
      BY <1>3, <2>3 DEF StillHeld
    <3>3. status[d] = "claimed" /\ Held(d) => Held(d)'
      BY <3>1, <3>2, HeldStays
    <3>4. Free(d)' => Free(d)
      BY <3>1, <3>3, FreeStays
    <3> QED BY <1>1, <2>1, <3>4 DEF Pays, Stake
  <2> QED BY <2>2, <2>3
<1>4. CASE d # c.of
  <2>1. Holds(w, d)' => Holds(w, d)
    BY <1>4 DEF Holds, Answered
  <2>2. UNCHANGED <<status[d], claimedAt[d], nextRetryAt[d], lapsed[d]>>
    BY <1>4 DEF Release, rows, Typed, TypeOK
  <2>3. Held(d) => Held(d)'
    BY <1>4, <2>2, HeldStays
  <2>4. Free(d)' => Free(d)
    BY <2>2, <2>3, FreeStays
  <2> QED BY <1>1, <2>1, <2>4 DEF Pays, Stake
<1> QED BY <1>3, <1>4

\* A call spends the claim, or is a failure.
LEMMA CallPays ==
  ASSUME Typed, Hands, NEW w \in Workers, CallProvider(w), NEW d \in Deliveries
  PROVE  Pays(w, d)
<1>w. Works(w)
  BY DEF Works, WorkerStep
<1>1. created[d] \in Nat /\ faults \in Nat /\ resets \in Nat
  BY DEF Typed, TypeOK
<1>2. Free(d)' => Free(d)
  BY <1>w, FreeKept DEF CallProvider
<1>3. PICK c \in batch[w] :
        /\ current' = [current EXCEPT ![w] = c]
        /\ \/ /\ result' = [result EXCEPT ![w] = "reuse"]
              /\ UNCHANGED <<created, faults>>
           \/ \E o \in CallOutcomes(c.of) :
                /\ IF o.seen = "ok" THEN UNCHANGED faults ELSE Fault
                /\ created' = [created EXCEPT ![c.of] = IF o.taken THEN @ + 1 ELSE @]
                /\ result' = [result EXCEPT ![w] = o.seen]
  BY DEF CallProvider
<1>4. c.of \in Deliveries
  BY DEF Typed, TypeOK, Claim
<1>5. pc[w] = "send" /\ pc'[w] = "record" /\ current'[w] = c /\ resets' = resets
      /\ batch' = batch
  BY <1>3 DEF CallProvider, Typed, TypeOK
<1>6. Holds(w, d)' => Holds(w, d)
  BY <1>5 DEF Holds, Answered
<1>7. created'[d] \in {created[d], created[d] + 1} /\ (d # c.of => created'[d] = created[d])
  BY <1>3, <1>4 DEF Typed, TypeOK
<1>8. CASE faults' = faults + 1
  BY <1>1, <1>2, <1>5, <1>6, <1>7, <1>8 DEF Pays, Stake
<1>9. CASE faults' = faults /\ result'[w] \in {"ok", "reuse"}
  <2>1. d = c.of => Holds(w, d) /\ ~Holds(w, d)'
    <3>1. d = c.of => Holds(w, d)
      BY <1>5 DEF Holds, Answered
    <3>2. \A b \in batch[w] : b.of = c.of => b = c
      BY DEF Hands, Hand
    <3> QED BY <1>5, <1>9, <3>1, <3>2 DEF Holds, Answered
  <2> QED BY <1>1, <1>2, <1>5, <1>6, <1>7, <1>9, <2>1 DEF Pays, Stake
<1>10. \/ faults' = faults + 1
       \/ faults' = faults /\ result'[w] \in {"ok", "reuse"}
  BY <1>3 DEF Fault, Typed, TypeOK
<1> QED BY <1>8, <1>9, <1>10

\* Proved action by action.
LEMMA WorkPays ==
  ASSUME Typed, Typed', Hands, NEW w \in Workers, Works(w), NEW d \in Deliveries
  PROVE  Pays(w, d)
<1>n. /\ created[d] \in Nat /\ faults \in Nat /\ resets \in Nat
      /\ created'[d] \in Nat /\ faults' \in Nat /\ resets' \in Nat
  BY DEF Typed, TypeOK
<1>h. Hand(w)
  BY DEF Hands
<1>1. CASE ClaimDueForEvent(w)
  <2> DEFINE ds == {r \in RowsOf(about[w]) : Claimable(r)}
  <2>1. ds \in SUBSET Deliveries /\ \A r \in ds : Claimable(r)
    BY DEF RowsOf
  <2>2. batch[w] = {} /\ pc'[w] # "record" /\ UNCHANGED <<created, budgets>>
    BY <1>1, <1>h DEF ClaimDueForEvent, Hand, EmptySteps, AfterBatch, outside, Typed, TypeOK
  <2>3. UNCHANGED <<rows, batch>> \/ ClaimRows(w, ds)
    BY <1>1 DEF ClaimDueForEvent
  <2> HIDE DEF ds
  <2>4. CASE ClaimRows(w, ds)
    BY <2>1, <2>2, <2>4, ClaimsPay
  <2>5. CASE UNCHANGED <<rows, batch>>
    <3>1. Free(d)' => Free(d)
      BY <2>5, FreeKept
    <3>2. ~Holds(w, d)'
      BY <2>2, <2>5 DEF Holds
    <3> QED BY <1>n, <2>2, <3>1, <3>2 DEF Pays, Stake, budgets
  <2> QED BY <2>3, <2>4, <2>5
<1>2. CASE ClaimById(w)
  <2>1. current[w].of \in Deliveries
    BY <1>2 DEF ClaimById, Typed, AtCall
  <2>2. batch[w] = {} /\ pc'[w] # "record" /\ UNCHANGED <<created, budgets>>
    BY <1>2, <1>h DEF ClaimById, Hand, EmptySteps, outside, Typed, TypeOK
  <2>3. CASE Claimable(current[w].of) /\ ClaimRows(w, {current[w].of})
    BY <2>1, <2>2, <2>3, ClaimsPay
  <2>4. CASE UNCHANGED <<rows, batch>>
    <3>1. Free(d)' => Free(d)
      BY <2>4, FreeKept
    <3>2. ~Holds(w, d)'
      BY <2>2, <2>4 DEF Holds
    <3> QED BY <1>n, <2>2, <3>1, <3>2 DEF Pays, Stake, budgets
  <2> QED BY <1>2, <2>3, <2>4 DEF ClaimById
<1>3. ASSUME NEW r \in Deliveries, SweepClaim(w, r) PROVE Pays(w, d)
  <2>1. batch[w] = {} /\ pc'[w] # "record" /\ UNCHANGED <<created, budgets>>
    BY <1>3, <1>h DEF SweepClaim, Start, Hand, EmptySteps, outside, Typed, TypeOK
  <2> QED BY <1>3, <2>1, ClaimsPay DEF SweepClaim
<1>4. CASE AbandonOne(w)
  <2>1. PICK c \in batch[w] : MarkFailed(c, "none") /\ Drop(w, c, "abandon")
    BY <1>4 DEF AbandonOne
  <2>2. IF StillHeld(c) THEN Release(c, "failed", "none") ELSE UNCHANGED rows
    BY <2>1 DEF MarkFailed
  <2>3. /\ pc[w] # "record" /\ batch'[w] = batch[w] \ {c} /\ pc'[w] # "record"
        /\ UNCHANGED <<created, budgets>>
    BY <1>4, <2>1 DEF AbandonOne, Drop, AfterBatch, outside, Typed, TypeOK
  <2> QED BY <2>2, <2>3, OutcomePays
<1>5. CASE Record(w)
  <2>1. /\ pc[w] = "record" /\ current[w] \in batch[w] /\ pc'[w] # "record"
        /\ batch'[w] = batch[w] \ {current[w]} /\ UNCHANGED <<created, budgets>>
    BY <1>5 DEF Record, AtCall, Drop, AfterBatch, outside, Typed, TypeOK
  <2>2. CASE MarkDelivered(current[w])
    <3>1. IF StillHeld(current[w]) THEN Release(current[w], "delivered", "none")
          ELSE UNCHANGED rows
      BY <2>2 DEF MarkDelivered
    <3> QED BY <2>1, <3>1, OutcomePays
  <2>3. CASE result[w] = "retry" /\ MarkFailed(current[w], "later")
    <3>1. IF StillHeld(current[w]) THEN Release(current[w], "failed", "later")
          ELSE UNCHANGED rows
      BY <2>3 DEF MarkFailed
    <3>2. ~Answered(w, current[w])
      BY <2>3 DEF Answered
    <3> QED BY <2>1, <3>1, <3>2, OutcomePays
  <2>4. CASE MarkFailed(current[w], "none")
    <3>1. IF StillHeld(current[w]) THEN Release(current[w], "failed", "none")
          ELSE UNCHANGED rows
      BY <2>4 DEF MarkFailed
    <3> QED BY <2>1, <3>1, OutcomePays
  <2> QED BY <1>5, <2>2, <2>3, <2>4 DEF Record
<1>6. CASE CallProvider(w)
  BY <1>6, CallPays
<1>7. CASE SweepFails(w) \/ Crash(w)
  <2>1. ~Holds(w, d)'
    BY <1>7 DEF SweepFails, Crash, Holds, Typed, TypeOK
  <2>2. created' = created /\ faults' = faults + 1 /\ resets' = resets
    BY <1>7 DEF SweepFails, Crash, Fault, outside
  <2> QED BY <1>n, <2>1, <2>2 DEF Pays, Stake
<1>8. CASE Refuse(w) \/ RecordFails(w)
  <2>1. Free(d)' => Free(d)
    BY <1>8, FreeKept DEF Refuse, RecordFails
  <2>2. created' = created /\ faults' = faults + 1 /\ resets' = resets
    BY <1>8 DEF Refuse, RecordFails, Fault, outside
  <2> QED BY <1>n, <2>1, <2>2 DEF Pays, Stake
<1>9. ASSUME NEW r \in Deliveries, ResetForRetry(w, r) PROVE Pays(w, d)
  <2>1. ~Holds(w, d)'
    BY <1>9, <1>h DEF ResetForRetry, Start, Hand, EmptySteps, Holds
  <2>2. created' = created /\ faults' = faults /\ resets' = resets + 1
    BY <1>9 DEF ResetForRetry, outside
  <2> QED BY <1>n, <2>1, <2>2 DEF Pays, Stake
<1>10. CASE Enqueue(w)
  <2>1. ~Holds(w, d)'
    BY <1>10, <1>h DEF Enqueue, Hand, EmptySteps, Holds
  <2>2. UNCHANGED <<created, faults, resets>>
    BY <1>10 DEF Enqueue, outside, budgets
  <2>3. Held(d)' <=> Held(d)
    BY <1>10 DEF Enqueue, Held
  <2>4. Free(d)' => Free(d)
    BY <1>10, <2>3 DEF Enqueue, Free
  <2> QED BY <1>n, <2>1, <2>2, <2>4 DEF Pays, Stake
<1>11. ASSUME UNCHANGED <<rows, batch, created, resets>>, faults' >= faults,
              pc[w] = "record" => UNCHANGED workers, pc'[w] = "record" => pc[w] = "record"
       PROVE  Pays(w, d)
  <2>1. Holds(w, d)' => Holds(w, d)
    BY <1>11 DEF Holds, Answered, workers
  <2>2. Free(d)' => Free(d)
    BY <1>11, FreeKept
  <2> QED BY <1>n, <1>11, <2>1, <2>2 DEF Pays, Stake
<1>12. CASE SweepLookup(w) \/ CheckIncident(w) \/ Settle(w) \/ MarkNotificationSent(w)
  BY <1>11, <1>12, <1>n DEF SweepLookup, CheckIncident, Settle, MarkNotificationSent, outside,
                            budgets, Typed, TypeOK
<1>13. CASE RecordMapping(w)
  BY <1>11, <1>13, <1>n DEF RecordMapping, workers, budgets
<1>14. CASE ConfirmIssues(w) \/ CloseIssues(w) \/ ClearSync(w) \/ CloseFails(w)
  <2>1. pc[w] # "record" /\ pc'[w] # "record"
    BY <1>14 DEF ConfirmIssues, CloseIssues, ClearSync, CloseFails, EndSync, Typed, TypeOK
  <2>2. UNCHANGED <<rows, batch, created, resets>>
    BY <1>14 DEF ConfirmIssues, CloseIssues, ClearSync, CloseFails, outside, budgets
  <2>3. faults' = faults \/ faults' = faults + 1
    BY <1>14 DEF ConfirmIssues, CloseIssues, ClearSync, CloseFails, Fault, budgets
  <2> QED BY <1>n, <1>11, <2>1, <2>2, <2>3
<1>15. ASSUME NEW e \in Events, BeginDispatch(w, e) \/ BeginSync(w, e) PROVE Pays(w, d)
  <2>1. pc[w] # "record" /\ pc'[w] # "record"
    BY <1>15 DEF BeginDispatch, BeginSync, Start, Typed, TypeOK
  <2>2. UNCHANGED <<rows, batch, created, resets>> /\ faults' >= faults
    BY <1>15, <1>n DEF BeginDispatch, BeginSync, outside, budgets
  <2> QED BY <1>11, <2>1, <2>2
<1> QED
  BY <1>1, <1>2, <1>3, <1>4, <1>5, <1>6, <1>7, <1>8, <1>9, <1>10, <1>12, <1>13, <1>14, <1>15
  DEF Works, WorkerStep

\* Clocks free only the row of a lease that its holder outlives, for a fault.
LEMMA OutsidePays ==
  ASSUME Typed, Outside, NEW d \in Deliveries
  PROVE  /\ ((Free(d)' => Free(d)) /\ faults' = faults) \/ faults' = faults + 1
         /\ resets' = resets
<1>q. Quiet
  BY OutsideIsQuiet DEF Typed
<1>d. Held(d)' <=> Held(d)
  BY <1>q DEF Quiet, Held, workers
<1>1. ASSUME NEW r \in Deliveries, LeaseLapses(r)
      PROVE  /\ ((Free(d)' => Free(d)) /\ faults' = faults) \/ faults' = faults + 1
             /\ resets' = resets
  <2>1. resets' = resets
    BY <1>1 DEF LeaseLapses
  <2>2. CASE Held(r)
    BY <1>1, <2>1, <2>2 DEF LeaseLapses, Fault
  <2>3. CASE ~Held(r)
    <3>1. Free(d)' => Free(d)
      BY <1>1, <1>d, <2>3 DEF LeaseLapses, Free, Typed, TypeOK
    <3> QED BY <1>1, <2>1, <2>3, <3>1 DEF LeaseLapses
  <2> QED BY <2>2, <2>3
<1>2. ASSUME NEW r \in Deliveries, BackoffElapses(r)
      PROVE  (Free(d)' => Free(d)) /\ UNCHANGED <<faults, resets>>
  BY <1>2, <1>d DEF BackoffElapses, Free, budgets, Typed, TypeOK
<1>3. ASSUME UNCHANGED rows PROVE Free(d)' => Free(d)
  BY <1>3, <1>d, FreeStays DEF rows
<1>4. ASSUME NEW e \in Events, Resolve(e) PROVE UNCHANGED <<rows, faults, resets>>
  BY <1>4 DEF Resolve, budgets
<1>5. ASSUME NEW e \in Events, SyncLeaseLapses(e)
      PROVE  UNCHANGED <<rows, resets>> /\ (faults' = faults \/ faults' = faults + 1)
  BY <1>5 DEF SyncLeaseLapses, Fault
<1>6. ASSUME NEW r \in Deliveries, MapElsewhere(r) PROVE UNCHANGED <<rows, faults, resets>>
  BY <1>6 DEF MapElsewhere, budgets
<1>7. CASE RequestRuleDeletion \/ UNCHANGED vars
  <2>1. UNCHANGED <<rows, faults, resets>>
    BY <1>7 DEF RequestRuleDeletion, vars, budgets
  <2> QED BY <2>1, <1>3
<1> QED BY <1>1, <1>2, <1>3, <1>4, <1>5, <1>6, <1>7 DEF Outside

\* The holders of a delivery change by the one worker that steps.
LEMMA HoldersMove ==
  ASSUME Typed, NEW w \in Workers, Works(w), NEW d \in Deliveries
  PROVE  /\ Cardinality(Holders(d)) \in Nat /\ Cardinality(Holders(d)') \in Nat
         /\ Cardinality(Holders(d)') + (IF Holds(w, d) THEN 1 ELSE 0)
              = Cardinality(Holders(d)) + (IF Holds(w, d)' THEN 1 ELSE 0)
<1> DEFINE Rest == Holders(d) \ {w}
<1>1. ASSUME NEW v \in Workers, v # w PROVE Holds(v, d)' <=> Holds(v, d)
  BY <1>1, OthersKept DEF Typed, Kept, Holds, Answered
<1>2. IsFiniteSet(Rest)
  <2>1. Rest \subseteq Workers /\ IsFiniteSet(Workers)
    BY DeliveryAssumption DEF Holders
  <2> QED BY <2>1, FS_Subset
<1>3. Holders(d) = IF Holds(w, d) THEN Rest \cup {w} ELSE Rest
  BY DEF Holders
<1>4. Holders(d)' = IF Holds(w, d)' THEN Rest \cup {w} ELSE Rest
  BY <1>1 DEF Holders
<1>5. Cardinality(Rest) \in Nat /\ Cardinality(Rest \cup {w}) = Cardinality(Rest) + 1
  BY <1>2, FS_CardinalityType, FS_AddElement
<1> HIDE DEF Rest
<1> QED BY <1>3, <1>4, <1>5

\* Nobody adds to what a delivery may still cost but for a cause.
LEMMA CountsStep == Typed /\ Typed' /\ Hands /\ Counts /\ [Next]_vars => Counts'
<1> SUFFICES ASSUME Typed, Typed', Hands, Counts, [Next]_vars, NEW d \in Deliveries
             PROVE  (created[d] + Cardinality(Holders(d)) + (IF Free(d) THEN 1 ELSE 0))'
                      <= 1 + faults' + resets'
  BY DEF Counts
<1>n. /\ created[d] \in Nat /\ faults \in Nat /\ resets \in Nat
      /\ created'[d] \in Nat /\ faults' \in Nat /\ resets' \in Nat
  BY DEF Typed, TypeOK
<1>1. created[d] + Cardinality(Holders(d)) + (IF Free(d) THEN 1 ELSE 0) <= 1 + faults + resets
  BY DEF Counts
<1>2. CASE Outside
  <2>1. Holders(d)' = Holders(d) /\ created' = created
    BY <1>2, OutsideIsQuiet DEF Typed, Quiet, Holders, Holds, Answered, workers
  <2>2. IsFiniteSet(Holders(d))
    BY DeliveryAssumption, FS_Subset DEF Holders
  <2>3. Cardinality(Holders(d)) \in Nat
    BY <2>2, FS_CardinalityType
  <2> QED BY <1>n, <1>1, <1>2, <2>1, <2>3, OutsidePays
<1>3. ASSUME NEW w \in Workers, Works(w)
      PROVE  (created[d] + Cardinality(Holders(d)) + (IF Free(d) THEN 1 ELSE 0))'
               <= 1 + faults' + resets'
  <2>1. Pays(w, d)
    BY <1>3, WorkPays
  <2>2. /\ Cardinality(Holders(d)) \in Nat /\ Cardinality(Holders(d)') \in Nat
        /\ Cardinality(Holders(d)') + (IF Holds(w, d) THEN 1 ELSE 0)
             = Cardinality(Holders(d)) + (IF Holds(w, d)' THEN 1 ELSE 0)
    BY <1>3, HoldersMove
  <2> QED BY <1>n, <1>1, <2>1, <2>2 DEF Pays, Stake
<1> QED BY <1>2, <1>3, EveryStep

\* Whatever the interleaving of claims, take-overs, stale answers and Retry
\* presses, a message is sent again only for a failure, a crash, an outlived
\* lease or a press of Retry.
THEOREM SentAgainForCause == Spec => []ResentForCause
<1>1. Init => Hands /\ Counts
  <2> SUFFICES ASSUME Init PROVE Hands /\ Counts
    OBVIOUS
  <2>1. Hands
    BY DEF Init, Hands, Hand
  <2>2. ASSUME NEW d \in Deliveries PROVE Holders(d) = {} /\ created[d] = 0
    BY DEF Init, Holders, Holds
  <2>3. Cardinality({}) = 0
    BY FS_EmptySet
  <2>4. faults = 0 /\ resets = 0
    BY DEF Init
  <2> QED BY <2>1, <2>2, <2>3, <2>4 DEF Counts
<1>2. Typed /\ Counts => ResentForCause
  <2> SUFFICES ASSUME Typed, Counts, NEW d \in Deliveries
               PROVE  created[d] <= 1 + faults + resets
    BY DEF ResentForCause
  <2>1. created[d] \in Nat /\ faults \in Nat /\ resets \in Nat
    BY DEF Typed, TypeOK
  <2>2. Cardinality(Holders(d)) \in Nat
    BY DeliveryAssumption, FS_Subset, FS_CardinalityType DEF Holders
  <2> QED BY <2>1, <2>2 DEF Counts
<1> QED BY <1>1, <1>2, TypedInit, TypedStep, HandsStep, CountsStep, PTL DEF Spec

-----------------------------------------------------------------------------
(* Notifications that are complete *)

\* The rows of an incident are enqueued together, and every job but the clean-up
\* works on an incident whose rows are; the count that lets a worker mark the
\* incident stays true until the mark.
Together ==
  \A c, d \in Deliveries :
    EventOf[c] = EventOf[d] /\ status[c] = "absent" => status[d] = "absent"

Dispatch(w) ==
  /\ pc[w] \notin {"idle", "enqueue"} /\ job[w] # "resolve" =>
       \A d \in RowsOf(about[w]) : status[d] # "absent"
  /\ pc[w] \in {"lookup", "settle"} => job[w] # "resolve"
  /\ pc[w] = "mark" => \A d \in RowsOf(about[w]) : status[d] = "delivered"

Counted == Together /\ NotifiedIsComplete /\ \A w \in Workers : Dispatch(w)

\* Each step of a worker keeps what it knows of its incident's rows.
LEMMA DispatchStep ==
  ASSUME Typed, Counted, NEW w \in Workers, Works(w)
  PROVE  Dispatch(w)'
<1>m. \A d \in Deliveries : /\ status[d] = "delivered" => status'[d] = "delivered"
                            /\ status[d] # "absent" => status'[d] # "absent"
  BY StatusMoves DEF Moves
<1>d. Dispatch(w)
  BY DEF Counted
<1> USE DEF Typed, TypeOK, Dispatch, RowsOf
<1>1. CASE Enqueue(w)
  BY <1>1 DEF Enqueue
<1>2. CASE ClaimDueForEvent(w)
  BY <1>2, <1>m, <1>d DEF ClaimDueForEvent, AfterBatch
<1>3. CASE SweepLookup(w)
  BY <1>3, <1>m, <1>d DEF SweepLookup
<1>4. CASE ClaimById(w)
  BY <1>4, <1>m, <1>d DEF ClaimById
<1>5. CASE CheckIncident(w) \/ CallProvider(w) \/ Refuse(w) \/ RecordFails(w)
  BY <1>5, <1>m, <1>d DEF CheckIncident, CallProvider, Refuse, RecordFails
<1>6. CASE AbandonOne(w)
  BY <1>6, <1>m, <1>d DEF AbandonOne, Drop, AfterBatch
<1>7. CASE Record(w)
  BY <1>7, <1>m, <1>d DEF Record, Drop, AfterBatch
<1>17. CASE RecordMapping(w)
  BY <1>17, <1>m, <1>d DEF RecordMapping, workers
<1>18. CASE SweepFails(w)
  BY <1>18 DEF SweepFails
<1>8. CASE Settle(w)
  <2>1. \A d \in RowsOf(about[w]) : status[d] # "absent"
    BY <1>8, <1>d DEF Settle
  <2>2. UNCHANGED <<status, about>> /\ pc'[w] \in {"idle", "mark"}
    BY <1>8 DEF Settle, rows
  <2>3. pc'[w] = "mark" =>
          /\ \A d \in RowsOf(about[w]) : status[d] = "delivered"
          /\ job'[w] = job[w]
    BY <1>8, <2>1 DEF Settle
  <2> QED BY <2>1, <2>2, <2>3
<1>9. CASE MarkNotificationSent(w)
  BY <1>9 DEF MarkNotificationSent
<1>10. CASE ConfirmIssues(w) \/ ClearSync(w) \/ CloseFails(w)
  BY <1>10, <1>m, <1>d DEF ConfirmIssues, ClearSync, CloseFails, EndSync
<1>11. CASE CloseIssues(w)
  BY <1>11, <1>m, <1>d DEF CloseIssues
<1>12. CASE Crash(w)
  BY <1>12 DEF Crash
<1>13. ASSUME NEW e \in Events, BeginDispatch(w, e) PROVE Dispatch(w)'
  BY <1>13 DEF BeginDispatch, Start, rows, Counted, NotifiedIsComplete
<1>14. ASSUME NEW e \in Events, BeginSync(w, e) PROVE Dispatch(w)'
  BY <1>14 DEF BeginSync, Start
<1>15. ASSUME NEW r \in Deliveries, SweepClaim(w, r) PROVE Dispatch(w)'
  <2>1. \A d \in RowsOf(EventOf[r]) : status[d] # "absent"
    BY <1>15 DEF SweepClaim, Claimable, Counted, Together
  <2> QED BY <1>15, <1>m, <2>1 DEF SweepClaim, Start
<1>16. ASSUME NEW r \in Deliveries, ResetForRetry(w, r) PROVE Dispatch(w)'
  <2>1. \A d \in RowsOf(EventOf[r]) : status[d] # "absent"
    BY <1>16 DEF ResetForRetry, Counted, Together
  <2> QED BY <1>16, <1>m, <2>1 DEF ResetForRetry, Start
<1> QED
  BY <1>1, <1>2, <1>3, <1>4, <1>5, <1>6, <1>7, <1>8, <1>9, <1>10, <1>11, <1>12, <1>13, <1>14,
     <1>15, <1>16, <1>17, <1>18
  DEF Works, WorkerStep

\* Rows appear only by the enqueueing of all channels of an incident.
LEMMA TogetherStep ==
  ASSUME Typed, Together, NEW w \in Workers, Works(w)
  PROVE  Together'
<1>1. CASE Enqueue(w)
  BY <1>1 DEF Enqueue, Together, RowsOf, Typed, TypeOK
<1>2. CASE ~Enqueue(w)
  <2>1. \A d \in Deliveries : status'[d] = "absent" => status[d] = "absent"
    BY StatusMoves DEF Moves
  <2>2. \A d \in Deliveries : status[d] = "absent" => status'[d] = "absent"
    <3> SUFFICES ASSUME NEW d \in Deliveries, status[d] = "absent" PROVE status'[d] = "absent"
      OBVIOUS
    <3> USE DEF Typed, TypeOK
    <3>1. CASE UNCHANGED rows
      BY <3>1 DEF rows
    <3>2. ASSUME NEW ds, ClaimRows(w, ds), \A r \in ds : Claimable(r) PROVE status'[d] = "absent"
      BY <3>2 DEF ClaimRows, Claimable
    <3>3. ASSUME ClaimDueForEvent(w) \/ ClaimById(w) \/ \E r \in Deliveries : SweepClaim(w, r)
          PROVE  status'[d] = "absent"
      <4>1. CASE ClaimDueForEvent(w)
        BY <3>1, <3>2, <4>1 DEF ClaimDueForEvent
      <4>2. CASE ClaimById(w)
        BY <3>1, <3>2, <4>2 DEF ClaimById
      <4>3. CASE \E r \in Deliveries : SweepClaim(w, r)
        BY <3>2, <4>3 DEF SweepClaim
      <4> QED BY <3>3, <4>1, <4>2, <4>3
    <3>4. CASE AbandonOne(w)
      <4>1. PICK c : MarkFailed(c, "none")
        BY <3>4 DEF AbandonOne
      <4> QED BY <4>1 DEF MarkFailed, StillHeld, Release, rows
    <3>5. CASE Record(w)
      <4>1. PICK c : \/ MarkDelivered(c)
                     \/ \E how \in {"later", "none"} : MarkFailed(c, how)
        BY <3>5 DEF Record, AtCall
      <4> QED BY <4>1 DEF MarkFailed, MarkDelivered, StillHeld, Release, rows
    <3>6. ASSUME NEW r \in Deliveries, ResetForRetry(w, r) PROVE status'[d] = "absent"
      BY <3>6 DEF ResetForRetry, Release
    <3>8. CASE SweepFails(w)
      <4>1. PICK c : MarkFailed(c, "later")
        BY <3>8 DEF SweepFails
      <4> QED BY <4>1 DEF MarkFailed, StillHeld, Release, rows
    <3>7. SweepLookup(w) \/ RecordMapping(w) \/ CheckIncident(w) \/ CallProvider(w) \/ Settle(w)
            \/ MarkNotificationSent(w) \/ ConfirmIssues(w) \/ CloseIssues(w) \/ ClearSync(w)
            \/ Refuse(w) \/ RecordFails(w) \/ CloseFails(w) \/ Crash(w)
            \/ (\E e \in Events : BeginDispatch(w, e) \/ BeginSync(w, e)) => UNCHANGED rows
      BY DEF SweepLookup, RecordMapping, CheckIncident, CallProvider, Settle,
             MarkNotificationSent, ConfirmIssues, CloseIssues, ClearSync, Refuse, RecordFails,
             CloseFails, Crash, BeginDispatch, BeginSync
    <3> QED BY <1>2, <3>1, <3>3, <3>4, <3>5, <3>6, <3>7, <3>8 DEF Works, WorkerStep
  <2> QED BY <2>1, <2>2 DEF Together
<1> QED BY <1>1, <1>2

\* notification_sent_at changes only in the last step of a dispatch.
LEMMA NotifiedMoves ==
  ASSUME NEW w \in Workers, Works(w)
  PROVE  notified' = notified \/ MarkNotificationSent(w)
<1>1. CASE Enqueue(w) \/ ClaimDueForEvent(w) \/ SweepLookup(w) \/ ClaimById(w)
             \/ CheckIncident(w) \/ AbandonOne(w) \/ CallProvider(w) \/ Record(w) \/ Settle(w)
  BY <1>1 DEF Enqueue, ClaimDueForEvent, SweepLookup, ClaimById, CheckIncident, AbandonOne,
              CallProvider, Record, Settle, events
<1>2. CASE ConfirmIssues(w) \/ CloseIssues(w) \/ ClearSync(w) \/ Refuse(w) \/ RecordFails(w)
             \/ CloseFails(w) \/ Crash(w) \/ RecordMapping(w) \/ SweepFails(w)
  BY <1>2 DEF ConfirmIssues, CloseIssues, ClearSync, Refuse, RecordFails, CloseFails, Crash,
              RecordMapping, SweepFails, events
<1>3. CASE \E e \in Events : BeginDispatch(w, e) \/ BeginSync(w, e)
  BY <1>3 DEF BeginDispatch, BeginSync, events
<1>4. CASE \E d \in Deliveries : SweepClaim(w, d) \/ ResetForRetry(w, d)
  BY <1>4 DEF SweepClaim, ResetForRetry, events
<1> QED BY <1>1, <1>2, <1>3, <1>4 DEF Works, WorkerStep

\* The rows of a notified incident stay complete.
LEMMA CountedStep == Typed /\ Counted /\ [Next]_vars => Counted'
<1> SUFFICES ASSUME Typed, Counted, [Next]_vars PROVE Counted'
  OBVIOUS
<1>1. CASE Outside
  <2>1. UNCHANGED <<status, pc, job, about, notified>>
    BY <1>1, OutsideIsQuiet DEF Typed, Quiet, workers
  <2> QED BY <2>1 DEF Counted, Together, NotifiedIsComplete, Dispatch, RowsOf
<1>2. ASSUME NEW w \in Workers, Works(w) PROVE Counted'
  <2>1. \A d \in Deliveries : /\ status[d] = "delivered" => status'[d] = "delivered"
                              /\ status[d] # "absent" => status'[d] # "absent"
    BY <1>2, StatusMoves DEF Moves
  <2>2. Together'
    BY <1>2, TogetherStep DEF Counted
  <2>3. ASSUME NEW v \in Workers PROVE Dispatch(v)'
    <3>1. CASE v = w
      BY <1>2, <3>1, DispatchStep
    <3>2. CASE v # w
      <4>1. pc'[v] = pc[v] /\ job'[v] = job[v] /\ about'[v] = about[v]
        BY <1>2, <3>2, OthersKept DEF Typed, Kept
      <4> QED BY <2>1, <4>1 DEF Counted, Dispatch, RowsOf
    <3> QED BY <3>1, <3>2
  <2>4. NotifiedIsComplete'
    <3>1. CASE notified' = notified
      BY <2>1, <3>1 DEF Counted, NotifiedIsComplete, RowsOf
    <3>2. CASE MarkNotificationSent(w)
      <4>1. \A d \in RowsOf(about[w]) : status[d] = "delivered"
        BY <3>2 DEF MarkNotificationSent, Counted, Dispatch
      <4>2. \A e \in Events : notified'[e] => notified[e] \/ e = about[w]
        BY <3>2 DEF MarkNotificationSent, Typed, TypeOK
      <4> QED BY <2>1, <4>1, <4>2 DEF Counted, NotifiedIsComplete, RowsOf
    <3> QED BY <1>2, <3>1, <3>2, NotifiedMoves
  <2> QED BY <2>2, <2>3, <2>4 DEF Counted
<1> QED BY <1>1, <1>2, EveryStep

\* notification_sent_at means that every channel has been delivered.
THEOREM NotifiedIsTrue == Spec => []NotifiedIsComplete
<1>1. Init => Counted
  BY DEF Init, Counted, Together, NotifiedIsComplete, Dispatch
<1>2. Counted => NotifiedIsComplete
  BY DEF Counted
<1> QED BY <1>1, <1>2, TypedInit, TypedStep, CountedStep, PTL DEF Spec

-----------------------------------------------------------------------------
(* Clean-ups that forget no issue *)

\* A clean-up that still holds its claim knows every recorded issue, then has
\* closed every one.
Cleanup(w) ==
  /\ pc[w] \in {"confirm", "close", "clear"} => job[w] = "resolve"
  /\ pc[w] # "idle" /\ job[w] = "resolve" => incident[about[w]] = "resolved"
  /\ pc[w] = "close" /\ syncClaim[about[w]] = w => IssuesOf(about[w]) \subseteq refs[w]
  /\ pc[w] = "clear" /\ syncClaim[about[w]] = w => IssuesOf(about[w]) \subseteq closed

Cleaned == CleanupIsQueued /\ \A w \in Workers : Cleanup(w)

\* What a worker can do to the outbox entry of an incident: queue or requeue it,
\* leave it, give it up on record, or clear it at the end of a clean-up.
Outboxes(w, e) ==
  \/ syncPending'[e] \/ syncFailed'[e]
  \/ syncPending'[e] = syncPending[e] /\ syncFailed'[e] = syncFailed[e]
  \/ pc[w] = "clear" /\ about[w] = e /\ syncClaim[e] = w /\ UNCHANGED <<status, closed>>

\* It takes the entry's claim for itself only at the start of a clean-up, and
\* incidents are not resolved by these jobs.
Claims(w, e) ==
  /\ incident'[e] = incident[e]
  /\ \A v \in Workers : v # w /\ syncClaim'[e] = v => syncClaim[e] = v
  /\ syncClaim'[e] = w => syncClaim[e] = w \/ pc'[w] = "claimEvent"

\* The end of a clean-up changes the entry only if its claim is still held.
LEMMA EndSyncMoves ==
  ASSUME TypeOK, NEW w \in Workers, NEW e \in Events,
         NEW pending \in BOOLEAN, NEW failed \in BOOLEAN, EndSync(w, pending, failed),
         UNCHANGED <<status, closed>>,
         about[w] = e /\ syncClaim[e] = w =>
           \/ pending = syncPending[e] /\ failed = syncFailed[e]
           \/ failed
           \/ pc[w] = "clear"
  PROVE  /\ Outboxes(w, e)
         /\ \A v \in Workers : syncClaim'[e] = v => syncClaim[e] = v
<1>0. NoOne \notin Workers
  BY DeliveryAssumption
<1>1. CASE about[w] = e /\ syncClaim[e] = w
  BY <1>0, <1>1 DEF EndSync, TypeOK, Outboxes
<1>2. CASE about[w] # e \/ syncClaim[e] # w
  <2>1. syncPending'[e] = syncPending[e] /\ syncFailed'[e] = syncFailed[e]
        /\ syncClaim'[e] = syncClaim[e]
    <3>1. CASE syncClaim[about[w]] = w
      BY <1>2, <3>1 DEF EndSync, TypeOK
    <3>2. CASE syncClaim[about[w]] # w
      BY <3>2 DEF EndSync, outbox
    <3> QED BY <3>1, <3>2
  <2> QED BY <2>1 DEF Outboxes
<1> QED BY <1>1, <1>2

\* Proved action by action.
LEMMA OutboxMoves ==
  ASSUME Typed, NEW w \in Workers, Works(w), NEW e \in Events
  PROVE  Outboxes(w, e) /\ Claims(w, e)
<1>0. NoOne \notin Workers
  BY DeliveryAssumption
<1>t. syncPending[e] \in BOOLEAN /\ syncFailed[e] \in BOOLEAN
  BY DEF Typed, TypeOK
<1>1. CASE ConfirmIssues(w)
  <2>1. UNCHANGED <<status, closed, incident>>
    BY <1>1 DEF ConfirmIssues, rows, outside
  <2>2. CASE UNCHANGED outbox
    BY <2>1, <2>2 DEF Outboxes, Claims, outbox
  <2>3. CASE EndSync(w, syncPending[about[w]], syncFailed[about[w]])
    <3>1. syncPending[about[w]] \in BOOLEAN /\ syncFailed[about[w]] \in BOOLEAN
      BY DEF Typed, TypeOK
    <3> QED BY <2>1, <2>3, <3>1, EndSyncMoves DEF Typed, Claims
  <2> QED BY <1>1, <2>2, <2>3 DEF ConfirmIssues
<1>2. CASE ClearSync(w)
  <2>1. UNCHANGED <<status, closed, incident>>
    BY <1>2 DEF ClearSync, rows, outside
  <2> QED BY <1>2, <2>1, EndSyncMoves DEF ClearSync, Typed, Claims
<1>3. CASE CloseFails(w)
  <2>1. UNCHANGED <<status, closed, incident>>
    BY <1>3 DEF CloseFails, rows, outside
  <2>2. CASE EndSync(w, syncPending[about[w]], syncFailed[about[w]])
    <3>1. syncPending[about[w]] \in BOOLEAN /\ syncFailed[about[w]] \in BOOLEAN
      BY DEF Typed, TypeOK
    <3> QED BY <2>1, <2>2, <3>1, EndSyncMoves DEF Typed, Claims
  <2>3. CASE EndSync(w, FALSE, TRUE)
    BY <2>1, <2>3, EndSyncMoves DEF Typed, Claims
  <2> QED BY <1>3, <2>2, <2>3 DEF CloseFails
<1>4. CASE Record(w)
  <2>1. incident' = incident
    BY <1>4 DEF Record
  <2>2. CASE UNCHANGED outbox
    BY <2>1, <2>2 DEF Outboxes, Claims, outbox
  <2>3. CASE MarkDelivered(current[w])
    <3>1. CASE UNCHANGED outbox
      BY <2>2, <3>1
    <3>2. CASE \E f : /\ syncPending' = [syncPending EXCEPT ![f] = TRUE]
                      /\ syncClaim' = [syncClaim EXCEPT ![f] = NoOne]
                      /\ syncFailed' = [syncFailed EXCEPT ![f] = FALSE]
      BY <1>0, <2>1, <3>2 DEF Outboxes, Claims, Typed, TypeOK
    <3> QED BY <2>3, <3>1, <3>2 DEF MarkDelivered
  <2> QED BY <1>4, <2>2, <2>3 DEF Record, Typed, AtCall
<1>5. ASSUME NEW f \in Events, BeginSync(w, f) PROVE Outboxes(w, e) /\ Claims(w, e)
  BY <1>5 DEF BeginSync, Start, Outboxes, Claims, Typed, TypeOK
<1>6. ASSUME UNCHANGED <<incident, outbox>> PROVE Outboxes(w, e) /\ Claims(w, e)
  BY <1>6 DEF Outboxes, Claims, outbox
<1>7. Enqueue(w) \/ ClaimDueForEvent(w) \/ SweepLookup(w) \/ ClaimById(w) \/ CheckIncident(w)
        \/ AbandonOne(w) \/ CallProvider(w) \/ RecordMapping(w) \/ SweepFails(w)
        => UNCHANGED <<incident, outbox>>
  BY DEF Enqueue, ClaimDueForEvent, SweepLookup, ClaimById, CheckIncident, AbandonOne,
         CallProvider, RecordMapping, SweepFails, events
<1>8. Settle(w) \/ MarkNotificationSent(w) \/ CloseIssues(w) \/ Refuse(w) \/ RecordFails(w)
        \/ Crash(w) => UNCHANGED <<incident, outbox>>
  BY DEF Settle, MarkNotificationSent, CloseIssues, Refuse, RecordFails, Crash, events
<1>9. (\E f \in Events : BeginDispatch(w, f))
        \/ (\E d \in Deliveries : SweepClaim(w, d) \/ ResetForRetry(w, d))
        => UNCHANGED <<incident, outbox>>
  BY DEF BeginDispatch, SweepClaim, ResetForRetry, events
<1> QED BY <1>1, <1>2, <1>3, <1>4, <1>5, <1>6, <1>7, <1>8, <1>9 DEF Works, WorkerStep

\* A late issue of a resolved incident queues the clean-up again and takes it
\* away from whoever holds it.
LEMMA IssuesMove ==
  ASSUME Typed, NEW w \in Workers, Works(w), NEW e \in Events, incident[e] = "resolved"
  PROVE  \/ IssuesOf(e)' \subseteq IssuesOf(e)
         \/ syncPending'[e] /\ syncClaim'[e] = NoOne
<1> SUFFICES ASSUME NEW d \in IssuesOf(e)', d \notin IssuesOf(e)
             PROVE  syncPending'[e] /\ syncClaim'[e] = NoOne
  OBVIOUS
<1>1. d \in Deliveries /\ d \in Linear /\ EventOf[d] = e
      /\ status'[d] = "delivered" /\ status[d] # "delivered"
  BY DEF IssuesOf, RowsOf
<1>2. current[w].of = d /\ MarkDelivered(current[w])
  BY <1>1, StatusMoves DEF Moves
<1>3. StillHeld(current[w])
  BY <1>1, <1>2 DEF MarkDelivered, rows
<1>4. /\ syncPending' = [syncPending EXCEPT ![e] = TRUE]
      /\ syncClaim' = [syncClaim EXCEPT ![e] = NoOne]
  BY <1>1, <1>2, <1>3 DEF MarkDelivered
<1> QED BY <1>4 DEF Typed, TypeOK

\* Each step of a worker keeps what its clean-up knows.
LEMMA CleanupStep ==
  ASSUME Typed, Cleaned, NEW w \in Workers, Works(w)
  PROVE  Cleanup(w)'
<1>d. Cleanup(w)
  BY DEF Cleaned
<1>i. incident' = incident
  <2>1. \A e \in Events : incident'[e] = incident[e]
    BY OutboxMoves DEF Claims
  <2>2. incident \in [Events -> {"firing", "resolved"}]
    BY DEF Typed, TypeOK
  <2>3. incident' \in [Events -> {"firing", "resolved"}]
    BY TypedStep, EveryStep DEF Typed, TypeOK
  <2> QED BY <2>1, <2>2, <2>3
<1> USE DEF Typed, TypeOK, Cleanup
<1>1. CASE ConfirmIssues(w)
  <2>1. UNCHANGED <<status, about>>
    BY <1>1 DEF ConfirmIssues, rows
  <2>2. CASE pc'[w] = "idle"
    BY <2>2
  <2>3. CASE /\ refs' = [refs EXCEPT
                  ![w] = IssuesOf(about[w]) \cup (linked \cap RowsOf(about[w]))]
             /\ Go(w, "close")
    BY <1>1, <1>d, <1>i, <2>1, <2>3 DEF ConfirmIssues, IssuesOf, RowsOf
  <2> QED BY <1>1, <2>2, <2>3 DEF ConfirmIssues, EndSync
<1>2. CASE CloseIssues(w)
  BY <1>2, <1>d, <1>i DEF CloseIssues, IssuesOf, RowsOf, rows, events, outbox
<1>3. CASE ClearSync(w) \/ CloseFails(w)
  BY <1>3 DEF ClearSync, CloseFails, EndSync
<1>4. CASE ClaimDueForEvent(w)
  BY <1>4, <1>d, <1>i DEF ClaimDueForEvent, AfterBatch
<1>5. CASE AbandonOne(w)
  BY <1>5, <1>d, <1>i DEF AbandonOne, Drop, AfterBatch
<1>6. CASE Record(w)
  BY <1>6, <1>d, <1>i DEF Record, Drop, AfterBatch
<1>7. CASE Enqueue(w) \/ ClaimById(w) \/ CheckIncident(w) \/ CallProvider(w) \/ Refuse(w)
             \/ RecordFails(w) \/ RecordMapping(w)
  BY <1>7, <1>d, <1>i
  DEF Enqueue, ClaimById, CheckIncident, CallProvider, Refuse, RecordFails, RecordMapping,
      workers
<1>8. CASE SweepLookup(w)
  BY <1>8, <1>d, <1>i DEF SweepLookup
<1>9. CASE Settle(w)
  BY <1>9, <1>d, <1>i DEF Settle
<1>10. CASE MarkNotificationSent(w) \/ SweepFails(w) \/ Crash(w)
  BY <1>10 DEF MarkNotificationSent, SweepFails, Crash
<1>11. ASSUME NEW e \in Events, BeginDispatch(w, e) PROVE Cleanup(w)'
  BY <1>11 DEF BeginDispatch, Start
<1>12. ASSUME NEW e \in Events, BeginSync(w, e) PROVE Cleanup(w)'
  BY <1>12, <1>i DEF BeginSync, Start
<1>13. ASSUME NEW d \in Deliveries, SweepClaim(w, d) \/ ResetForRetry(w, d) PROVE Cleanup(w)'
  BY <1>13 DEF SweepClaim, ResetForRetry, Start
<1> QED
  BY <1>1, <1>2, <1>3, <1>4, <1>5, <1>6, <1>7, <1>8, <1>9, <1>10, <1>11, <1>12, <1>13
  DEF Works, WorkerStep

\* People queue the clean-up of every incident they resolve, and hand no claim
\* to a worker; clocks leave the outbox alone.
Requeues(e) ==
  /\ incident'[e] = "resolved" =>
       \/ syncPending'[e]
       \/ /\ incident[e] = "resolved"
          /\ syncPending'[e] = syncPending[e] /\ syncFailed'[e] = syncFailed[e]
  /\ \A v \in Workers : syncClaim'[e] = v => syncClaim[e] = v

\* Resolving queues, and takes the claim away.
LEMMA ResolveAllMoves ==
  ASSUME TypeOK, NEW es \in SUBSET Events, ResolveAll(es), NEW e \in Events
  PROVE  Requeues(e)
<1>0. NoOne \notin Workers
  BY DeliveryAssumption
<1>1. CASE e \in es /\ incident[e] = "firing"
  BY <1>0, <1>1 DEF ResolveAll, Requeues
<1>2. CASE ~(e \in es /\ incident[e] = "firing")
  <2>1. /\ incident'[e] = incident[e] /\ syncPending'[e] = syncPending[e]
        /\ syncClaim'[e] = syncClaim[e] /\ syncFailed'[e] = syncFailed[e]
    BY <1>2 DEF ResolveAll, TypeOK
  <2> QED BY <2>1 DEF Requeues
<1> QED BY <1>1, <1>2

\* Proved action by action.
LEMMA OutsideRequeues ==
  ASSUME TypeOK, Outside, NEW e \in Events
  PROVE  Requeues(e)
<1>1. ASSUME NEW f \in Events, Resolve(f) PROVE Requeues(e)
  BY <1>1, ResolveAllMoves DEF Resolve
<1>2. CASE RequestRuleDeletion
  BY <1>2, ResolveAllMoves DEF RequestRuleDeletion
<1>3. ASSUME NEW f \in Events, SyncLeaseLapses(f) PROVE Requeues(e)
  BY <1>3 DEF SyncLeaseLapses, Requeues
<1>4. ASSUME NEW d \in Deliveries, LeaseLapses(d) \/ BackoffElapses(d) \/ MapElsewhere(d)
      PROVE  Requeues(e)
  BY <1>4 DEF LeaseLapses, BackoffElapses, MapElsewhere, events, outbox, Requeues
<1>5. ASSUME UNCHANGED vars PROVE Requeues(e)
  BY <1>5 DEF vars, events, outbox, Requeues
<1> QED BY <1>1, <1>2, <1>3, <1>4, <1>5 DEF Outside

\* An issue that Durabull closed is not forgotten.
LEMMA ClosedGrows ==
  ASSUME NEW w \in Workers, Works(w)
  PROVE  closed \subseteq closed'
<1>1. CASE CloseIssues(w)
  BY <1>1 DEF CloseIssues
<1>2. CASE Enqueue(w) \/ ClaimDueForEvent(w) \/ SweepLookup(w) \/ ClaimById(w)
             \/ CheckIncident(w) \/ AbandonOne(w) \/ CallProvider(w) \/ Record(w) \/ Settle(w)
  BY <1>2 DEF Enqueue, ClaimDueForEvent, SweepLookup, ClaimById, CheckIncident, AbandonOne,
              CallProvider, Record, Settle, outside
<1>3. CASE MarkNotificationSent(w) \/ ConfirmIssues(w) \/ ClearSync(w) \/ Refuse(w)
             \/ RecordMapping(w) \/ RecordFails(w) \/ SweepFails(w) \/ CloseFails(w)
             \/ Crash(w)
  BY <1>3 DEF MarkNotificationSent, ConfirmIssues, ClearSync, Refuse, RecordMapping,
              RecordFails, SweepFails, CloseFails, Crash, outside
<1>4. CASE \E e \in Events : BeginDispatch(w, e) \/ BeginSync(w, e)
  BY <1>4 DEF BeginDispatch, BeginSync, outside
<1>5. CASE \E d \in Deliveries : SweepClaim(w, d) \/ ResetForRetry(w, d)
  BY <1>5 DEF SweepClaim, ResetForRetry, outside
<1> QED BY <1>1, <1>2, <1>3, <1>4, <1>5 DEF Works, WorkerStep

\* No clean-up is forgotten by a step.
LEMMA CleanedStep == Typed /\ Cleaned /\ [Next]_vars => Cleaned'
<1> SUFFICES ASSUME Typed, Cleaned, [Next]_vars PROVE Cleaned'
  OBVIOUS
<1>0. NoOne \notin Workers
  BY DeliveryAssumption
<1>1. CASE Outside
  <2>1. /\ UNCHANGED <<status, pc, job, about, refs, closed>>
        /\ \A e \in Events : incident[e] = "resolved" => incident'[e] = "resolved"
    BY <1>1, OutsideIsQuiet DEF Typed, Quiet, workers
  <2>2. \A e \in Events : IssuesOf(e)' = IssuesOf(e)
    BY <2>1 DEF IssuesOf, RowsOf
  <2>3. \A e \in Events : Requeues(e)
    BY <1>1, OutsideRequeues DEF Typed
  <2>4. CleanupIsQueued'
    BY <2>1, <2>2, <2>3 DEF Cleaned, CleanupIsQueued, Requeues
  <2>5. ASSUME NEW v \in Workers PROVE Cleanup(v)'
    <3>1. about[v] \in Events /\ Cleanup(v)
      BY DEF Typed, TypeOK, Cleaned
    <3> QED BY <2>1, <2>2, <2>3, <3>1 DEF Cleanup, Requeues
  <2> QED BY <2>4, <2>5 DEF Cleaned
<1>2. ASSUME NEW w \in Workers, Works(w) PROVE Cleaned'
  <2>c. closed \subseteq closed'
    BY <1>2, ClosedGrows
  <2>1. ASSUME NEW v \in Workers PROVE Cleanup(v)'
    <3>1. CASE v = w
      BY <1>2, <3>1, CleanupStep
    <3>2. CASE v # w
      <4>1. Kept(v)
        BY <1>2, <3>2, OthersKept DEF Typed
      <4>e. PICK e \in Events : e = about[v]
        BY DEF Typed, TypeOK
      <4>2. Cleanup(v)
        BY DEF Cleaned
      <4>3. incident'[e] = incident[e] /\ (syncClaim'[e] = v => syncClaim[e] = v)
        BY <1>2, <3>2, OutboxMoves DEF Claims
      <4>4. incident[e] = "resolved" /\ syncClaim'[e] = v => IssuesOf(e)' \subseteq IssuesOf(e)
        BY <1>0, <1>2, IssuesMove
      <4>5. pc'[v] = pc[v] /\ job'[v] = job[v] /\ about'[v] = e /\ refs'[v] = refs[v]
        BY <4>1, <4>e DEF Kept
      <4>6. IssuesOf(about[v])' = IssuesOf(e)'
        BY <4>5 DEF IssuesOf, RowsOf
      <4>7. pc[v] \in {"close", "clear"} => incident[e] = "resolved"
        BY <4>e, <4>2 DEF Cleanup
      <4> QED BY <2>c, <4>e, <4>2, <4>3, <4>4, <4>5, <4>6, <4>7 DEF Cleanup
    <3> QED BY <3>1, <3>2
  <2>2. CleanupIsQueued'
    <3> SUFFICES ASSUME NEW e \in Events, incident'[e] = "resolved"
                 PROVE  IssuesOf(e)' \subseteq closed' \/ syncPending'[e] \/ syncFailed'[e]
      BY DEF CleanupIsQueued
    <3>1. incident[e] = "resolved" /\ Outboxes(w, e)
      BY <1>2, OutboxMoves DEF Claims
    <3>2. IssuesOf(e)' \subseteq IssuesOf(e) \/ syncPending'[e]
      BY <1>2, <3>1, IssuesMove
    <3>3. IssuesOf(e) \subseteq closed \/ syncPending[e] \/ syncFailed[e]
      BY <3>1 DEF Cleaned, CleanupIsQueued
    <3>4. pc[w] = "clear" /\ about[w] = e /\ syncClaim[e] = w => IssuesOf(e) \subseteq closed
      BY DEF Cleaned, Cleanup
    <3> QED BY <2>c, <3>1, <3>2, <3>3, <3>4 DEF Outboxes
  <2> QED BY <2>1, <2>2 DEF Cleaned
<1> QED BY <1>1, <1>2, EveryStep

\* The clean-up of a resolved incident is never forgotten.
THEOREM CleanupStaysQueued == Spec => []CleanupIsQueued
<1>1. Init => Cleaned
  BY DEF Init, Cleaned, CleanupIsQueued, Cleanup
<1>2. Cleaned => CleanupIsQueued
  BY DEF Cleaned
<1> QED BY <1>1, <1>2, TypedInit, TypedStep, CleanedStep, PTL DEF Spec

-----------------------------------------------------------------------------
(* The outbox implements DeliveryPromise.  The steps are sorted by what they *)
(* do to the rows.  A claim is an attempt (Try), the record of an outcome    *)
(* ends it (Deliver, PutBack, GiveUp), the Retry button takes it back        *)
(* (PutBack, Revive), a call that reaches the provider is a Take; a lapsed   *)
(* lease, an elapsed backoff, a crash and a stale outcome are none.  That    *)
(* Deliver follows a Take rests on Told, that Announce waits for every       *)
(* delivery on Counted.                                                      *)

\* A claim is only ever held on a row that was enqueued.
Enqueued == \A w \in Workers : \A c \in batch[w] : status[c.of] # "absent"

\* What the abstract outbox sees of a row.
LEMMA FateOf ==
  ASSUME TypeOK, NEW d \in Deliveries
  PROVE  /\ status[d] = "absent" => Fate[d] = "absent"
         /\ status[d] = "claimed" => Fate[d] = "trying"
         /\ status[d] = "pending" => Fate[d] = "waiting"
         /\ status[d] = "delivered" => Fate[d] = "delivered"
         /\ status[d] = "failed" =>
              Fate[d] = IF nextRetryAt[d] = "none" THEN "abandoned" ELSE "waiting"
  BY DEF Fate

\* A row that was enqueued is not absent.
LEMMA FateOfRow ==
  ASSUME TypeOK, NEW d \in Deliveries, status[d] # "absent"
  PROVE  Fate[d] # "absent"
<1>1. status[d] \in {"claimed", "pending", "delivered", "failed"}
  BY DEF TypeOK, RowStatus
<1>2. CASE status[d] = "failed"
  BY <1>2, FateOf
<1>3. CASE status[d] # "failed"
  BY <1>1, <1>3, FateOf
<1> QED BY <1>2, <1>3

LEMMA FateOfNext ==
  ASSUME TypeOK', NEW d \in Deliveries
  PROVE  /\ status'[d] = "absent" => Fate'[d] = "absent"
         /\ status'[d] = "claimed" => Fate'[d] = "trying"
         /\ status'[d] = "pending" => Fate'[d] = "waiting"
         /\ status'[d] = "delivered" => Fate'[d] = "delivered"
         /\ status'[d] = "failed" =>
              Fate'[d] = IF nextRetryAt'[d] = "none" THEN "abandoned" ELSE "waiting"
  BY DEF Fate

\* An abstract move, given delivery by delivery.
LEMMA Moving ==
  ASSUME NEW ds \in SUBSET Deliveries, NEW from, NEW to,
         \A d \in ds : Fate[d] \in from /\ Fate'[d] = to,
         \A d \in Deliveries \ ds : Fate'[d] = Fate[d],
         UNCHANGED <<created, mapped, notified>>
  PROVE  Promise!Move(ds, from, to)
<1>1. Fate' = [d \in Deliveries |-> Fate'[d]]
  BY DEF Fate
<1>2. Fate' = [d \in Deliveries |-> IF d \in ds THEN to ELSE Fate[d]]
  BY <1>1
<1>3. {d \in Deliveries : Taken(d)}' = {d \in Deliveries : Taken(d)}
      /\ {e \in Events : notified[e]}' = {e \in Events : notified[e]}
  BY DEF Taken
<1> QED BY <1>2, <1>3 DEF Promise!Move

\* A step that leaves the rows, or only what of them the promise does not show.
LEMMA FateKept ==
  ASSUME UNCHANGED <<status, nextRetryAt>>
  PROVE  Fate' = Fate
  BY DEF Fate

-----------------------------------------------------------------------------
(* What a step does to the rows *)

\* A claim query is a Try of the rows it takes.
LEMMA ClaimsTry ==
  ASSUME TypeOK, TypeOK', NEW w \in Workers, NEW ds \in SUBSET Deliveries,
         \A d \in ds : Claimable(d), ClaimRows(w, ds), UNCHANGED <<created, mapped, notified>>
  PROVE  Promise!Try(ds)
<1>1. \A d \in ds : Fate[d] \in {"waiting", "trying"} /\ Fate'[d] = "trying"
  <2> SUFFICES ASSUME NEW d \in ds
               PROVE  Fate[d] \in {"waiting", "trying"} /\ Fate'[d] = "trying"
    OBVIOUS
  <2>1. status[d] \in {"pending", "failed", "claimed"} /\ (status[d] = "failed" => nextRetryAt[d] = "due")
    BY DEF Claimable
  <2>2. status'[d] = "claimed"
    BY DEF ClaimRows
  <2> QED BY <2>1, <2>2, FateOf, FateOfNext
<1>2. \A d \in Deliveries \ ds : Fate'[d] = Fate[d]
  BY DEF ClaimRows, Fate
<1> QED BY <1>1, <1>2, Moving DEF Promise!Try

\* A recorded failure ends the attempt, or is stale and does nothing.
LEMMA FailureEnds ==
  ASSUME TypeOK, TypeOK', NEW c \in Claim, NEW retry \in {"none", "later", "due"},
         MarkFailed(c, retry), UNCHANGED <<created, mapped, notified>>
  PROVE  \/ UNCHANGED <<status, nextRetryAt>>
         \/ Promise!PutBack(c.of)
         \/ Promise!GiveUp(c.of)
<1>1. CASE ~StillHeld(c)
  BY <1>1 DEF MarkFailed, rows
<1>2. CASE StillHeld(c)
  <2>1. c.of \in Deliveries
    BY DEF Claim
  <2>2. status[c.of] = "claimed" /\ status'[c.of] = "failed" /\ nextRetryAt'[c.of] = retry
    BY <1>2, <2>1 DEF StillHeld, MarkFailed, Release, TypeOK
  <2>3. \A d \in Deliveries \ {c.of} : Fate'[d] = Fate[d]
    BY <1>2, <2>1 DEF MarkFailed, Release, Fate, TypeOK
  <2>4. Fate[c.of] = "trying"
    BY <2>1, <2>2, FateOf
  <2>5. Fate'[c.of] = IF retry = "none" THEN "abandoned" ELSE "waiting"
    BY <2>1, <2>2, FateOfNext
  <2>6. CASE retry = "none"
    BY <2>1, <2>3, <2>4, <2>5, <2>6, Moving DEF Promise!GiveUp
  <2>7. CASE retry # "none"
    BY <2>1, <2>3, <2>4, <2>5, <2>7, Moving DEF Promise!PutBack
  <2> QED BY <2>6, <2>7
<1> QED BY <1>1, <1>2

\* A recorded success delivers a message the provider has taken.
LEMMA SuccessDelivers ==
  ASSUME TypeOK, TypeOK', NEW c \in Claim, MarkDelivered(c), Taken(c.of),
         UNCHANGED <<created, mapped, notified>>
  PROVE  UNCHANGED <<status, nextRetryAt>> \/ Promise!Deliver(c.of)
<1>1. CASE ~StillHeld(c)
  BY <1>1 DEF MarkDelivered, rows
<1>2. CASE StillHeld(c)
  <2>1. c.of \in Deliveries
    BY DEF Claim
  <2>2. Release(c, "delivered", "none")
    BY <1>2 DEF MarkDelivered
  <2>3. status[c.of] = "claimed" /\ status'[c.of] = "delivered"
    BY <1>2, <2>1, <2>2 DEF StillHeld, Release, TypeOK
  <2>4. \A d \in Deliveries \ {c.of} : Fate'[d] = Fate[d]
    BY <2>1, <2>2 DEF Release, Fate, TypeOK
  <2>5. Fate[c.of] = "trying" /\ Fate'[c.of] = "delivered"
    BY <2>1, <2>3, FateOf, FateOfNext
  <2> QED BY <2>1, <2>4, <2>5, Moving DEF Promise!Deliver
<1> QED BY <1>1, <1>2

\* The Retry button takes an attempt back or revives what was given up.
LEMMA ResetRevives ==
  ASSUME TypeOK, TypeOK', NEW w \in Workers, NEW d \in Deliveries, ResetForRetry(w, d)
  PROVE  Fate' = Fate \/ Promise!PutBack(d) \/ Promise!Revive(d)
<1>1. /\ status[d] \in {"failed", "claimed"} /\ status'[d] = "pending"
      /\ UNCHANGED <<created, mapped, notified>>
      /\ \A r \in Deliveries \ {d} : Fate'[r] = Fate[r]
  BY DEF ResetForRetry, Release, TypeOK, Fate, outside, events
<1>2. Fate'[d] = "waiting"
  BY <1>1, FateOfNext
<1>3. CASE Fate[d] = "trying"
  BY <1>1, <1>2, <1>3, Moving DEF Promise!PutBack
<1>4. CASE Fate[d] = "abandoned"
  BY <1>1, <1>2, <1>4, Moving DEF Promise!Revive
<1>5. CASE Fate[d] = "waiting"
  BY <1>1, <1>2, <1>5 DEF Fate
<1> QED BY <1>1, <1>3, <1>4, <1>5, FateOf

-----------------------------------------------------------------------------
(* Every claim is on an enqueued row *)

\* A worker gets new claims from a claim query only.
LEMMA NewClaims ==
  ASSUME Typed, NEW w \in Workers, Works(w), NEW c \in batch'[w], c \notin batch[w]
  PROVE  \E ds \in SUBSET Deliveries : ClaimRows(w, ds)
<1>1. CASE ClaimDueForEvent(w)
  <2>1. {d \in RowsOf(about[w]) : Claimable(d)} \in SUBSET Deliveries
    BY DEF RowsOf
  <2> QED BY <1>1, <2>1 DEF ClaimDueForEvent
<1>2. CASE ClaimById(w)
  <2>1. {current[w].of} \in SUBSET Deliveries
    BY <1>2 DEF ClaimById, Typed, AtCall
  <2> QED BY <1>2, <2>1 DEF ClaimById
<1>3. ASSUME NEW d \in Deliveries, SweepClaim(w, d)
      PROVE  \E ds \in SUBSET Deliveries : ClaimRows(w, ds)
  BY <1>3 DEF SweepClaim
<1>4. AbandonOne(w) \/ Record(w) => FALSE
  <2>1. (\E b, more : Drop(w, b, more)) => FALSE
    BY DEF Drop, Typed, TypeOK
  <2> QED BY <2>1 DEF AbandonOne, Record
<1>5. SweepFails(w) \/ Crash(w) => FALSE
  BY DEF SweepFails, Crash, Typed, TypeOK
<1>6. ASSUME batch' = batch PROVE FALSE
  BY <1>6
<1>7. Enqueue(w) \/ SweepLookup(w) \/ CheckIncident(w) \/ CallProvider(w) \/ Settle(w)
        \/ MarkNotificationSent(w) \/ ConfirmIssues(w) \/ CloseIssues(w) \/ ClearSync(w)
        \/ Refuse(w) \/ RecordFails(w) \/ RecordMapping(w) \/ CloseFails(w)
        \/ (\E e \in Events : BeginDispatch(w, e) \/ BeginSync(w, e))
        \/ (\E d \in Deliveries : ResetForRetry(w, d)) => batch' = batch
  BY DEF Enqueue, SweepLookup, CheckIncident, CallProvider, Settle, MarkNotificationSent,
         ConfirmIssues, CloseIssues, ClearSync, Refuse, RecordFails, RecordMapping, CloseFails,
         BeginDispatch, BeginSync, ResetForRetry, EndSync, workers
<1> QED BY <1>1, <1>2, <1>3, <1>4, <1>5, <1>6, <1>7 DEF Works, WorkerStep

\* Claiming takes enqueued rows only, and no row is ever unqueued.
LEMMA EnqueuedStep == Typed /\ Enqueued /\ [Next]_vars => Enqueued'
<1> SUFFICES ASSUME Typed, Enqueued, [Next]_vars PROVE Enqueued'
  OBVIOUS
<1>1. CASE Outside
  <2>1. UNCHANGED <<status, batch>>
    BY <1>1, OutsideIsQuiet DEF Typed, Quiet, workers
  <2> QED BY <2>1 DEF Enqueued
<1>2. ASSUME NEW w \in Workers, Works(w), NEW v \in Workers, NEW c \in batch'[v]
      PROVE  status'[c.of] # "absent"
  <2>0. Typed'
    BY TypedStep
  <2>1. c.of \in Deliveries
    BY <2>0 DEF Typed, TypeOK, Claim
  <2>2. CASE c \in batch[v]
    BY <1>2, <2>1, <2>2, StatusMoves DEF Enqueued, Moves
  <2>3. CASE c \notin batch[v]
    <3>1. v = w
      BY <1>2, <2>3, OthersKept DEF Typed, Kept
    <3>2. \E ds \in SUBSET Deliveries : ClaimRows(w, ds)
      BY <1>2, <2>3, <3>1, NewClaims
    <3> QED BY <1>2, <2>0, <2>1, <3>1, <3>2 DEF ClaimRows, Typed, TypeOK
  <2> QED BY <2>2, <2>3
<1> QED BY <1>1, <1>2, EveryStep DEF Enqueued

-----------------------------------------------------------------------------
(* The simulation *)

Invariant == Typed /\ Told /\ Counted /\ Enqueued

\* What the abstract outbox shows of the history.
TakenOf == {d \in Deliveries : Taken(d)}

\* Each step of a worker is a step of the abstract outbox, or none.
LEMMA WorkerSimulates ==
  ASSUME Invariant, Typed', NEW w \in Workers, Works(w)
  PROVE  Promise!Next \/ UNCHANGED <<Fate, TakenOf, notified>>
<1> USE DEF Invariant
<1>t. TypeOK /\ TypeOK'
  BY DEF Typed
<1>u. UNCHANGED <<created, mapped>> => UNCHANGED TakenOf
  BY DEF TakenOf, Taken
<1>1. CASE Enqueue(w)
  <2> DEFINE ds == {d \in RowsOf(about[w]) : status[d] = "absent"}
  <2>1. ds \in SUBSET Deliveries
    BY DEF RowsOf
  <2>2. UNCHANGED <<created, mapped, notified>>
    BY <1>1 DEF Enqueue, outside, events
  <2>3. \A d \in ds : Fate[d] \in {"absent"} /\ Fate'[d] = "waiting"
    <3> SUFFICES ASSUME NEW d \in ds PROVE Fate[d] = "absent" /\ Fate'[d] = "waiting"
      OBVIOUS
    <3>1. d \in Deliveries /\ status[d] = "absent" /\ status'[d] = "pending"
      BY <1>1, <2>1 DEF Enqueue
    <3> QED BY <1>t, <3>1, FateOf, FateOfNext
  <2>4. \A d \in Deliveries \ ds : Fate'[d] = Fate[d]
    BY <1>1 DEF Enqueue, Fate
  <2> HIDE DEF ds
  <2>5. Promise!Enqueue(ds)
    BY <2>1, <2>2, <2>3, <2>4, Moving DEF Promise!Enqueue
  <2> QED BY <2>1, <2>5 DEF Promise!Next
<1>2. CASE ClaimDueForEvent(w)
  <2> DEFINE ds == {d \in RowsOf(about[w]) : Claimable(d)}
  <2>1. ds \in SUBSET Deliveries /\ \A d \in ds : Claimable(d)
    BY DEF RowsOf
  <2>2. UNCHANGED <<created, mapped, notified>>
    BY <1>2 DEF ClaimDueForEvent, outside, events
  <2>3. UNCHANGED rows \/ ClaimRows(w, ds)
    BY <1>2 DEF ClaimDueForEvent
  <2> HIDE DEF ds
  <2>4. CASE ClaimRows(w, ds)
    BY <1>t, <2>1, <2>2, <2>4, ClaimsTry DEF Promise!Next
  <2>5. CASE UNCHANGED rows
    BY <2>2, <2>5, <1>u, FateKept DEF rows
  <2> QED BY <2>3, <2>4, <2>5
<1>3. CASE ClaimById(w)
  <2>1. current[w].of \in Deliveries
    BY <1>3 DEF ClaimById, Typed, AtCall
  <2>2. UNCHANGED <<created, mapped, notified>>
    BY <1>3 DEF ClaimById, outside, events
  <2>3. CASE Claimable(current[w].of) /\ ClaimRows(w, {current[w].of})
    <3>1. Promise!Try({current[w].of})
      BY <1>t, <2>1, <2>2, <2>3, ClaimsTry
    <3>2. {current[w].of} \in SUBSET Deliveries
      BY <2>1
    <3> QED BY <3>1, <3>2 DEF Promise!Next
  <2>4. CASE UNCHANGED rows
    BY <2>2, <2>4, <1>u, FateKept DEF rows
  <2> QED BY <1>3, <2>3, <2>4 DEF ClaimById
<1>4. ASSUME NEW d \in Deliveries, SweepClaim(w, d) PROVE Promise!Next
  <2>1. UNCHANGED <<created, mapped, notified>> /\ Claimable(d) /\ ClaimRows(w, {d})
    BY <1>4 DEF SweepClaim, outside, events
  <2>2. Promise!Try({d})
    BY <1>t, <2>1, ClaimsTry
  <2>3. {d} \in SUBSET Deliveries
    OBVIOUS
  <2> QED BY <2>2, <2>3 DEF Promise!Next
<1>5. CASE AbandonOne(w)
  <2>1. PICK c \in batch[w] : MarkFailed(c, "none")
    BY <1>5 DEF AbandonOne
  <2>2. UNCHANGED <<created, mapped, notified>>
    BY <1>5 DEF AbandonOne, outside, events
  <2>3. c \in Claim /\ c.of \in Deliveries
    BY <1>t DEF TypeOK, Claim
  <2>4. \/ UNCHANGED <<status, nextRetryAt>>
        \/ Promise!PutBack(c.of) \/ Promise!GiveUp(c.of)
    BY <1>t, <2>1, <2>2, <2>3, FailureEnds
  <2> QED BY <2>2, <2>3, <2>4, <1>u, FateKept DEF Promise!Next
<1>6. CASE Record(w)
  <2> DEFINE c == current[w]
  <2>1. pc[w] = "record" /\ result[w] \in {"ok", "reuse", "retry", "fail"} /\ c \in batch[w]
    BY <1>6 DEF Record, Typed, AtCall
  <2>2. UNCHANGED <<created, mapped, notified>>
    BY <1>6 DEF Record, outside
  <2>3. c \in Claim /\ c.of \in Deliveries
    BY <1>t, <2>1 DEF TypeOK, Claim
  <2>4. CASE Succeeded(w)
    <3>1. MarkDelivered(c) /\ Taken(c.of)
      BY <1>6, <2>1, <2>4 DEF Record, Told, Succeeded
    <3>2. UNCHANGED <<status, nextRetryAt>> \/ Promise!Deliver(c.of)
      BY <1>t, <2>2, <2>3, <3>1, SuccessDelivers
    <3> QED BY <2>2, <2>3, <3>2, <1>u, FateKept DEF Promise!Next
  <2>5. CASE result[w] \in {"retry", "fail"}
    <3>1. \E how \in {"none", "later", "due"} : MarkFailed(c, how)
      BY <1>6, <2>5 DEF Record, Succeeded
    <3>2. \/ UNCHANGED <<status, nextRetryAt>>
          \/ Promise!PutBack(c.of) \/ Promise!GiveUp(c.of)
      BY <1>t, <2>2, <2>3, <3>1, FailureEnds
    <3> QED BY <2>2, <2>3, <3>2, <1>u, FateKept DEF Promise!Next
  <2> QED BY <2>1, <2>4, <2>5 DEF Succeeded
<1>7. ASSUME NEW d \in Deliveries, ResetForRetry(w, d)
      PROVE  Promise!Next \/ UNCHANGED <<Fate, TakenOf, notified>>
  <2>1. UNCHANGED <<created, mapped, notified>>
    BY <1>7 DEF ResetForRetry, outside, events
  <2> QED BY <1>t, <1>u, <1>7, <2>1, ResetRevives DEF Promise!Next
<1>8. CASE CallProvider(w)
  <2>1. PICK c \in batch[w] : Calls(w, c)
    BY <1>8, CallsAre
  <2>3. c.of \in Deliveries /\ status[c.of] # "absent"
    BY <1>t DEF TypeOK, Claim, Enqueued
  <2>4. UNCHANGED <<status, nextRetryAt, mapped, notified>>
    BY <1>8 DEF CallProvider, rows, events
  <2>5. Fate' = Fate
    BY <2>4, FateKept
  <2>6. CASE created' = created
    BY <1>u, <2>4, <2>5, <2>6
  <2>7. CASE created' = [created EXCEPT ![c.of] = @ + 1]
    <3>1. TakenOf' = TakenOf \cup {c.of}
      <4>1. created'[c.of] = created[c.of] + 1 /\ created[c.of] \in Nat
        BY <1>t, <2>3, <2>7 DEF TypeOK
      <4>2. \A d \in Deliveries \ {c.of} : created'[d] = created[d]
        BY <1>t, <2>3, <2>7 DEF TypeOK
      <4>3. \A d \in Deliveries : Taken(d)' <=> Taken(d) \/ d = c.of
        BY <2>4, <4>1, <4>2 DEF Taken
      <4> QED BY <2>3, <4>3 DEF TakenOf
    <3>2. Fate[c.of] # "absent"
      BY <1>t, <2>3, FateOfRow
    <3>3. Promise!Take(c.of)
      BY <2>4, <2>5, <3>1, <3>2 DEF Promise!Take, TakenOf
    <3> QED BY <2>3, <3>3 DEF Promise!Next
  <2>8. created' = created \/ created' = [created EXCEPT ![c.of] = @ + 1]
    BY <1>t, <2>1 DEF Calls, TypeOK
  <2> QED BY <2>6, <2>7, <2>8
<1>12. CASE SweepFails(w)
  <2>1. PICK c \in batch[w] : MarkFailed(c, "later")
    BY <1>12 DEF SweepFails
  <2>2. UNCHANGED <<created, mapped, notified>>
    BY <1>12 DEF SweepFails, outside, events
  <2>3. c \in Claim /\ c.of \in Deliveries
    BY <1>t DEF TypeOK, Claim
  <2>4. \/ UNCHANGED <<status, nextRetryAt>>
        \/ Promise!PutBack(c.of) \/ Promise!GiveUp(c.of)
    BY <1>t, <2>1, <2>2, <2>3, FailureEnds
  <2> QED BY <2>2, <2>3, <2>4, <1>u, FateKept DEF Promise!Next
<1>13. CASE RecordMapping(w)
  <2>1. Taken(current[w].of)
    BY <1>13 DEF RecordMapping, Told
  <2>2. mapped' = mapped \cup {current[w].of}
        /\ UNCHANGED <<status, nextRetryAt, created, notified>>
    BY <1>13 DEF RecordMapping, rows, events
  <2>3. \A d \in Deliveries : Taken(d)' <=> Taken(d)
    BY <2>1, <2>2 DEF Taken
  <2> QED BY <2>2, <2>3, FateKept DEF TakenOf
<1>9. CASE MarkNotificationSent(w)
  <2>e. PICK e \in Events : e = about[w]
    BY <1>t DEF TypeOK
  <2>1. UNCHANGED <<status, nextRetryAt, created, mapped>>
    BY <1>9 DEF MarkNotificationSent, rows, outside
  <2>2. \A d \in Deliveries : EventOf[d] = e => Fate[d] = "delivered"
    <3>1. \A d \in RowsOf(e) : status[d] = "delivered"
      BY <1>9, <2>e DEF MarkNotificationSent, Counted, Dispatch
    <3> QED BY <1>t, <3>1, FateOf DEF RowsOf
  <2>3. {f \in Events : notified[f]}' = {f \in Events : notified[f]} \cup {e}
    BY <1>t, <1>9, <2>e DEF MarkNotificationSent, TypeOK
  <2>4. Promise!Announce(e)
    BY <1>u, <2>1, <2>2, <2>3, FateKept DEF Promise!Announce, TakenOf
  <2> QED BY <2>4 DEF Promise!Next
<1>10. SweepLookup(w) \/ CheckIncident(w) \/ Settle(w)
         \/ ConfirmIssues(w) \/ CloseIssues(w) \/ ClearSync(w)
         \/ Refuse(w) \/ RecordFails(w) \/ CloseFails(w) \/ Crash(w)
         \/ (\E e \in Events : BeginDispatch(w, e) \/ BeginSync(w, e))
         => UNCHANGED <<status, nextRetryAt, created, mapped, notified>>
  BY DEF SweepLookup, CheckIncident, Settle, ConfirmIssues, CloseIssues, ClearSync, Refuse,
         RecordFails, CloseFails, Crash, BeginDispatch, BeginSync, rows, outside, events
<1>11. UNCHANGED <<status, nextRetryAt, created, mapped, notified>>
         => UNCHANGED <<Fate, TakenOf, notified>>
  BY <1>u, FateKept
<1> QED
  BY <1>1, <1>2, <1>3, <1>4, <1>5, <1>6, <1>7, <1>8, <1>9, <1>10, <1>11, <1>12, <1>13
  DEF Works, WorkerStep

\* People and clocks are invisible: a backoff that elapses was waiting before.
LEMMA OutsideKeepsFate ==
  ASSUME TypeOK, Outside
  PROVE  Fate' = Fate
<1>1. status' = status
  BY OutsideIsQuiet DEF Quiet
<1>2. CASE \E d \in Deliveries : BackoffElapses(d)
  BY <1>1, <1>2 DEF BackoffElapses, Fate, TypeOK
<1>3. (\E e \in Events : Resolve(e) \/ SyncLeaseLapses(e)) \/ RequestRuleDeletion
        \/ (\E d \in Deliveries : LeaseLapses(d) \/ MapElsewhere(d)) \/ UNCHANGED vars
        => nextRetryAt' = nextRetryAt
  BY DEF Resolve, SyncLeaseLapses, RequestRuleDeletion, LeaseLapses, MapElsewhere, vars, rows
<1> QED BY <1>1, <1>2, <1>3, FateKept DEF Outside

\* Another incident can give a job its issue; nothing else outside adds to the
\* history.
LEMMA OutsideTakes ==
  ASSUME TypeOK, Outside
  PROVE  Promise!Next \/ UNCHANGED <<Fate, TakenOf, notified>>
<1>1. Fate' = Fate /\ UNCHANGED <<created, notified>>
  BY OutsideKeepsFate, OutsideIsQuiet DEF Quiet
<1>2. ASSUME NEW d \in Deliveries, MapElsewhere(d) PROVE Promise!Next
  <2>1. mapped' = mapped \cup {d} /\ d \in Tracked
    BY <1>2 DEF MapElsewhere
  <2>2. \A r \in Deliveries : Taken(r)' <=> Taken(r) \/ r = d
    BY <1>1, <2>1 DEF Taken
  <2>3. TakenOf' = TakenOf \cup {d}
    BY <2>2 DEF TakenOf
  <2>4. Promise!Take(d)
    BY <1>1, <2>1, <2>3 DEF Promise!Take, TakenOf
  <2> QED BY <2>4 DEF Promise!Next
<1>3. CASE UNCHANGED mapped
  BY <1>1, <1>3 DEF TakenOf, Taken
<1>4. (\E e \in Events : Resolve(e) \/ SyncLeaseLapses(e)) \/ RequestRuleDeletion
        \/ (\E d \in Deliveries : LeaseLapses(d) \/ BackoffElapses(d)) \/ UNCHANGED vars
        => UNCHANGED mapped
  BY DEF Resolve, SyncLeaseLapses, RequestRuleDeletion, LeaseLapses, BackoffElapses, vars,
         outside
<1> QED BY <1>2, <1>3, <1>4 DEF Outside

\* The outbox keeps its promise, whatever fails, lapses or is retried.
THEOREM PromiseKept == Spec => KeepsPromise
<1>1. Init => Promise!Init
  BY DEF Init, Promise!Init, Fate, Taken
<1>2. Init => Told /\ Counted /\ Enqueued
  BY DEF Init, Told, Counted, Together, NotifiedIsComplete, Dispatch, Enqueued
<1>3. Invariant /\ Typed' /\ [Next]_vars => [Promise!Next]_(Promise!vars)
  <2> SUFFICES ASSUME Invariant, Typed', [Next]_vars
               PROVE  Promise!Next \/ UNCHANGED Promise!vars
    OBVIOUS
  <2>3. UNCHANGED <<Fate, TakenOf, notified>> => UNCHANGED Promise!vars
    BY DEF Promise!vars, TakenOf
  <2>1. CASE Outside
    <3>1. Promise!Next \/ UNCHANGED <<Fate, TakenOf, notified>>
      BY <2>1, OutsideTakes DEF Invariant, Typed
    <3> QED BY <2>3, <3>1
  <2>2. ASSUME NEW w \in Workers, Works(w)
        PROVE  Promise!Next \/ UNCHANGED <<Fate, TakenOf, notified>>
    BY <2>2, WorkerSimulates
  <2> QED BY <2>1, <2>2, <2>3, EveryStep
<1> QED
  BY <1>1, <1>2, <1>3, TypedInit, TypedStep, ToldStep, CountedStep, EnqueuedStep, PTL
  DEF Spec, Invariant, KeepsPromise, Promise!Spec
===========================================================================
