--------------------------- MODULE AlertDelivery ---------------------------
(***************************************************************************)
(* The notification outbox of the alerting system.                         *)
(*                                                                         *)
(* Every incident (alert_event) has one alert_delivery row per channel.    *)
(* Four kinds of job work on the rows, in any number of API replicas: the  *)
(* rule evaluation that opened or re-observed the incident ("evaluate"),   *)
(* the delivery sweep ("sweep"), the operator's Retry button ("retry") and *)
(* the Linear clean-up of a resolved incident ("resolve").  They share     *)
(* nothing but the database: a row is claimed by writing claimed_at, the   *)
(* claim may be taken over once it is older than STALE_CLAIM_MS, and every *)
(* outcome is written only if the row still carries the writer's           *)
(* claimed_at.                                                             *)
(*                                                                         *)
(* Time is abstract.  `now' is a clock of milliseconds that moves when     *)
(* something takes longer than one: ten minutes until a claim may be taken *)
(* over (`lapsed'), the backoff until nextRetryAt, which is null ("none"), *)
(* in the future ("later") or reached ("due").  From the claim that a      *)
(* press of Retry resets to the next one it may move or not, so a row can  *)
(* be claimed twice with the same claimed_at.                              *)
(***************************************************************************)
EXTENDS Naturals, FiniteSets

CONSTANTS
  Events,            \* incidents, all of one rule
  Deliveries,        \* delivery rows, one per incident and channel
  EventOf,           \* the incident of each delivery
  Linear,            \* the deliveries whose channel creates a Linear issue
  Tracked,           \* those of them whose incident is about one job
  Workers,           \* concurrent jobs, over all replicas
  NoOne,             \* stands for a null claim token
  MaxFaults,         \* bound: failed calls, crashes, leases outlived by their holder;
                     \* a press of Retry takes the place of one
  MaxResets,         \* bound: presses of the Retry button
  OutliveLease       \* may a claim lapse while its holder still runs?

ASSUME DeliveryAssumption ==
  /\ EventOf \in [Deliveries -> Events]
  /\ Linear \subseteq Deliveries /\ Tracked \subseteq Linear
  /\ NoOne \notin Workers /\ IsFiniteSet(Workers)
  /\ MaxFaults \in Nat /\ MaxResets \in Nat
  /\ OutliveLease \in BOOLEAN

VARIABLES
  status,        \* alert_delivery.status; "absent" before enqueueMany
  claimedAt,     \* alert_delivery.claimed_at, 0 when null
  nextRetryAt,   \* alert_delivery.next_retry_at against the clock
  lapsed,        \* claimed_at <= now - STALE_CLAIM_MS
  now,           \* the clock
  incident,      \* alert_event.status
  notified,      \* alert_event.notification_sent_at is set
  ruleListed,    \* the rule exists and its deletion was not requested
  syncPending,   \* alert_event.linear_resolution_sync_pending
  syncClaim,     \* alert_event.linear_resolution_sync_claim_token
  syncLapsed,    \* ... claimed_at is older than its lease
  syncFailed,    \* alert_event.linear_resolution_failed_at is set
  pc, job,       \* where each worker is, and in which kind of job
  about,         \* the incident it works on
  batch,         \* the claims it holds and has not written an outcome for
  current,       \* the claim whose provider call is being made
  result,        \* the outcome of that call, as seen by the worker
  refs,          \* deliveries whose issue the clean-up is about to close
  mapped,        \* the deliveries whose job has a linear_job_issue row
  linked,        \* those of them whose incident is linked to that row
  created,       \* history: how often the provider took the message
  closed,        \* the deliveries whose Linear issue was closed
  faults, resets \* used up bounds

rows     == <<status, claimedAt, nextRetryAt, lapsed, now>>
outbox   == <<syncPending, syncClaim, syncLapsed, syncFailed>>
events   == <<incident, notified, ruleListed, outbox>>
workers  == <<pc, job, about, batch, current, result, refs>>
outside  == <<created, closed, mapped, linked>>
budgets  == <<faults, resets>>
vars     == <<rows, events, workers, outside, budgets>>

Claim == [of : Deliveries, at : Nat]
NoClaim == [of |-> NoOne, at |-> 0]

RowStatus == {"absent", "pending", "claimed", "delivered", "failed"}
Jobs      == {"none", "evaluate", "sweep", "orphan", "retry", "resolve"}
Steps     == {"idle", "enqueue", "claimEvent", "claimRow", "lookup", "check",
              "abandon", "send", "record", "settle", "mark", "confirm", "close", "clear"}

RowsOf(e) == {d \in Deliveries : EventOf[d] = e}

TypeOK ==
  /\ status \in [Deliveries -> RowStatus]
  /\ claimedAt \in [Deliveries -> Nat]
  /\ nextRetryAt \in [Deliveries -> {"none", "later", "due"}]
  /\ lapsed \in [Deliveries -> BOOLEAN]
  /\ now \in Nat
  /\ incident \in [Events -> {"firing", "resolved"}]
  /\ notified \in [Events -> BOOLEAN]
  /\ ruleListed \in BOOLEAN
  /\ syncPending \in [Events -> BOOLEAN]
  /\ syncClaim \in [Events -> Workers \cup {NoOne}]
  /\ syncLapsed \in [Events -> BOOLEAN]
  /\ syncFailed \in [Events -> BOOLEAN]
  /\ pc \in [Workers -> Steps]
  /\ job \in [Workers -> Jobs]
  /\ about \in [Workers -> Events]
  /\ batch \in [Workers -> SUBSET Claim]
  /\ current \in [Workers -> Claim \cup {NoClaim}]
  /\ result \in [Workers -> {"none", "ok", "reuse", "retry", "fail"}]
  /\ refs \in [Workers -> SUBSET Deliveries]
  /\ mapped \in SUBSET Tracked /\ linked \in SUBSET Tracked
  /\ created \in [Deliveries -> Nat]
  /\ closed \in SUBSET Deliveries
  /\ faults \in Nat /\ resets \in Nat

Init ==
  /\ status = [d \in Deliveries |-> "absent"]
  /\ claimedAt = [d \in Deliveries |-> 0]
  /\ nextRetryAt = [d \in Deliveries |-> "none"]
  /\ lapsed = [d \in Deliveries |-> FALSE]
  /\ now = 1
  /\ incident = [e \in Events |-> "firing"]
  /\ notified = [e \in Events |-> FALSE]
  /\ ruleListed = TRUE
  /\ syncPending = [e \in Events |-> FALSE]
  /\ syncClaim = [e \in Events |-> NoOne]
  /\ syncLapsed = [e \in Events |-> FALSE]
  /\ syncFailed = [e \in Events |-> FALSE]
  /\ pc = [w \in Workers |-> "idle"]
  /\ job = [w \in Workers |-> "none"]
  /\ about \in [Workers -> Events]
  /\ batch = [w \in Workers |-> {}]
  /\ current = [w \in Workers |-> NoClaim]
  /\ result = [w \in Workers |-> "none"]
  /\ refs = [w \in Workers |-> {}]
  /\ mapped = {} /\ linked = {}
  /\ created = [d \in Deliveries |-> 0]
  /\ closed = {}
  /\ faults = 0 /\ resets = 0

-----------------------------------------------------------------------------
(* Writing rows *)

\* Fault variant: nobody takes over a lapsed claim.
Claimable_NoTakeOver(d) ==
  /\ nextRetryAt[d] # "later"
  /\ \/ status[d] = "pending"
     \/ status[d] = "failed" /\ nextRetryAt[d] = "due"

\* Fault variant: a claim can be taken over at once.
Claimable_Claimed(d) ==
  /\ nextRetryAt[d] # "later"
  /\ \/ status[d] \in {"pending", "claimed"}
     \/ status[d] = "failed" /\ nextRetryAt[d] = "due"

\* The WHERE clause the three claim queries share.
Claimable(d) ==
  /\ nextRetryAt[d] # "later"
  /\ \/ status[d] = "pending"
     \/ status[d] = "failed" /\ nextRetryAt[d] = "due"
     \/ status[d] = "claimed" /\ lapsed[d]

\* UPDATE ... SET status = 'claimed', claimed_at = new Date() for the rows of
\* ds, in one statement; worker w receives the claims.
ClaimRows(w, ds) ==
  /\ status' = [d \in Deliveries |-> IF d \in ds THEN "claimed" ELSE status[d]]
  /\ claimedAt' = [d \in Deliveries |-> IF d \in ds THEN now ELSE claimedAt[d]]
  /\ lapsed' = [d \in Deliveries |-> d \notin ds /\ lapsed[d]]
  /\ batch' = [batch EXCEPT ![w] = {[of |-> d, at |-> now] : d \in ds}]
  /\ UNCHANGED <<nextRetryAt, now>>

\* The fence of markDelivered and markFailed.
StillHeld(c) == status[c.of] = "claimed" /\ claimedAt[c.of] = c.at

\* The row leaves the claim, with its next retry time.
Release(c, to, retry) ==
  /\ status' = [status EXCEPT ![c.of] = to]
  /\ claimedAt' = [claimedAt EXCEPT ![c.of] = 0]
  /\ nextRetryAt' = [nextRetryAt EXCEPT ![c.of] = retry]
  /\ lapsed' = [lapsed EXCEPT ![c.of] = FALSE]

\* Fault variant: a failure is written without the fence.
MarkFailed_Unfenced(c, retry) == Release(c, "failed", retry) /\ UNCHANGED now

MarkFailed(c, retry) ==
  IF StillHeld(c) THEN Release(c, "failed", retry) /\ UNCHANGED now ELSE UNCHANGED rows

\* A Linear reference that arrives after the incident was resolved queues the
\* clean-up again and takes it away from a collector that cannot know it.
MarkDelivered(c) ==
  LET e == EventOf[c.of]
  IN IF ~StillHeld(c) THEN UNCHANGED <<rows, outbox>>
     ELSE /\ Release(c, "delivered", "none") /\ UNCHANGED now
          /\ IF c.of \in Linear /\ incident[e] = "resolved"
             THEN /\ syncPending' = [syncPending EXCEPT ![e] = TRUE]
                  /\ syncClaim' = [syncClaim EXCEPT ![e] = NoOne]
                  /\ syncLapsed' = [syncLapsed EXCEPT ![e] = FALSE]
                  /\ syncFailed' = [syncFailed EXCEPT ![e] = FALSE]
             ELSE UNCHANGED outbox

Fault == faults + resets < MaxFaults /\ faults' = faults + 1

-----------------------------------------------------------------------------
(* Starting a job *)

Start(w, kind, e, step) ==
  /\ pc[w] = "idle"
  /\ pc' = [pc EXCEPT ![w] = step]
  /\ job' = [job EXCEPT ![w] = kind]
  /\ about' = [about EXCEPT ![w] = e]

\* Worker w goes on with its job, or is done with it.
Go(w, step) ==
  /\ pc' = [pc EXCEPT ![w] = step]
  /\ job' = [job EXCEPT ![w] = IF step = "idle" THEN "none" ELSE @]

\* The evaluation has created or read the firing incident.  Unless its
\* notification is complete it enqueues the channels, again if need be.
BeginDispatch(w, e) ==
  /\ incident[e] = "firing"
  /\ Start(w, "evaluate", e, IF notified[e] THEN "claimEvent" ELSE "enqueue")
  /\ UNCHANGED <<rows, events, batch, current, result, refs, outside, budgets>>

\* INSERT ... ON CONFLICT DO NOTHING for every channel.
Enqueue(w) ==
  /\ pc[w] = "enqueue"
  /\ status' = [d \in Deliveries |->
       IF d \in RowsOf(about[w]) /\ status[d] = "absent" THEN "pending" ELSE status[d]]
  /\ pc' = [pc EXCEPT ![w] = "claimEvent"]
  /\ UNCHANGED <<claimedAt, nextRetryAt, lapsed, now, events,
                 job, about, batch, current, result, refs, outside, budgets>>

\* What a worker does when no claim is left in its hands.
AfterBatch(w) ==
  CASE job[w] \in {"retry", "orphan"} -> "idle"
    [] job[w] = "resolve"            -> "confirm"
    [] OTHER                         -> "settle"

ClaimDueForEvent(w) ==
  /\ pc[w] = "claimEvent"
  /\ LET ds == {d \in RowsOf(about[w]) : Claimable(d)}
     IN IF ds = {}
        THEN /\ pc' = [pc EXCEPT ![w] = AfterBatch(w)]
             /\ UNCHANGED <<rows, batch>>
        ELSE /\ ClaimRows(w, ds)
             /\ pc' = [pc EXCEPT ![w] = IF job[w] = "resolve" THEN "abandon" ELSE "check"]
  /\ UNCHANGED <<events, job, about, current, result, refs, outside, budgets>>

\* The sweep claims due rows of all incidents and hands each to a lane of its
\* own; a lane is a worker.
SweepClaim(w, d) ==
  /\ Claimable(d)
  /\ Start(w, "sweep", EventOf[d], "lookup")
  /\ ClaimRows(w, {d})
  /\ UNCHANGED <<events, current, result, refs, outside, budgets>>

\* A lane whose rule is gone fails the row for good.
SweepLookup(w) ==
  /\ pc[w] = "lookup"
  /\ pc' = [pc EXCEPT ![w] = IF ruleListed THEN "check" ELSE "abandon"]
  /\ job' = [job EXCEPT ![w] = IF ruleListed THEN "sweep" ELSE "orphan"]
  /\ UNCHANGED <<rows, events, about, batch, current, result, refs, outside, budgets>>

\* The Retry button: the row becomes pending whatever its retry time, even if
\* a worker holds it.
ResetForRetry(w, d) ==
  /\ resets < MaxResets /\ resets' = resets + 1
  /\ status[d] \in {"failed", "claimed"}
  /\ Start(w, "retry", EventOf[d], "claimRow")
  /\ Release([of |-> d, at |-> claimedAt[d]], "pending", "none")
  /\ now' \in {now, now + 1}
  /\ current' = [current EXCEPT ![w] = [of |-> d, at |-> 0]]
  /\ UNCHANGED <<events, batch, result, refs, outside, faults>>

ClaimById(w) ==
  /\ pc[w] = "claimRow"
  /\ LET d == current[w].of
     IN IF Claimable(d)
        THEN ClaimRows(w, {d}) /\ Go(w, "check")
        ELSE Go(w, "idle") /\ UNCHANGED <<rows, batch>>
  /\ current' = [current EXCEPT ![w] = NoClaim]
  /\ UNCHANGED <<events, about, result, refs, outside, budgets>>

-----------------------------------------------------------------------------
(* Processing the claimed rows *)

\* Read once, after the claim and before the first call.
CheckIncident(w) ==
  /\ pc[w] = "check"
  /\ pc' = [pc EXCEPT ![w] = IF incident[about[w]] = "firing" THEN "send" ELSE "abandon"]
  /\ UNCHANGED <<rows, events, job, about, batch, current, result, refs, outside, budgets>>

Drop(w, c, more) ==
  /\ batch' = [batch EXCEPT ![w] = @ \ {c}]
  /\ Go(w, IF batch[w] = {c} THEN AfterBatch(w) ELSE more)

AbandonOne(w) ==
  /\ pc[w] = "abandon"
  /\ \E c \in batch[w] : MarkFailed(c, "none") /\ Drop(w, c, "abandon")
  /\ UNCHANGED <<events, about, current, result, refs, outside, budgets>>

\* An outcome decided before the provider is called: an expired webhook, a
\* plan without the feature, a missing or disabled destination, a database
\* error.
Refuse(w) ==
  /\ pc[w] = "send" /\ Fault
  /\ \E c \in batch[w], r \in {"retry", "fail"} :
       /\ current' = [current EXCEPT ![w] = c]
       /\ result' = [result EXCEPT ![w] = r]
  /\ pc' = [pc EXCEPT ![w] = "record"]
  /\ UNCHANGED <<rows, events, job, about, batch, refs, outside, resets>>

\* What a provider call can do: whether the message was taken, and what the
\* worker makes of the answer.  A Linear failure that may have created the
\* issue is not to be retried.
CallOutcomes(d) ==
  {[taken |-> TRUE, seen |-> "ok"]} \cup
  {o \in [taken : BOOLEAN, seen : {"retry", "fail"}] :
     d \in Linear /\ o.taken => o.seen = "fail"}

\* A job that has an issue already gets no second one: the issue is reused.
CallProvider(w) ==
  /\ pc[w] = "send"
  /\ \E c \in batch[w] :
       /\ current' = [current EXCEPT ![w] = c]
       /\ \/ /\ c.of \in mapped
             /\ result' = [result EXCEPT ![w] = "reuse"]
             /\ UNCHANGED <<created, faults>>
          \/ /\ c.of \notin mapped
             /\ \E o \in CallOutcomes(c.of) :
                  /\ IF o.seen = "ok" THEN UNCHANGED faults ELSE Fault
                  /\ created' = [created EXCEPT ![c.of] = IF o.taken THEN @ + 1 ELSE @]
                  /\ result' = [result EXCEPT ![w] = o.seen]
  /\ pc' = [pc EXCEPT ![w] = "record"]
  /\ UNCHANGED <<rows, events, job, about, batch, refs, closed, mapped, linked,
                 resets>>

Succeeded(w) == result[w] \in {"ok", "reuse"}

\* createOrGet: the issue becomes the job's, unless the job got one meanwhile,
\* and the incident is linked to the job's issue.
RecordMapping(w) ==
  /\ pc[w] = "record" /\ Succeeded(w)
  /\ current[w].of \in Tracked \ linked
  /\ mapped' = mapped \cup {current[w].of}
  /\ linked' = linked \cup {current[w].of}
  /\ UNCHANGED <<rows, events, workers, created, closed, budgets>>

\* Write the outcome.  When markDelivered finds the claim lost the error path
\* runs markFailed with the same claim, which changes nothing either.
Record(w) ==
  /\ pc[w] = "record"
  /\ \/ /\ Succeeded(w)
        /\ current[w].of \in Tracked => current[w].of \in linked
        /\ MarkDelivered(current[w])
     \/ result[w] = "retry" /\ MarkFailed(current[w], "later") /\ UNCHANGED outbox
     \/ result[w] = "fail" /\ MarkFailed(current[w], "none") /\ UNCHANGED outbox
  /\ Drop(w, current[w], "send")
  /\ current' = [current EXCEPT ![w] = NoClaim]
  /\ result' = [result EXCEPT ![w] = "none"]
  /\ UNCHANGED <<incident, notified, ruleListed, about, refs, outside, budgets>>

\* The mapping or the success cannot be written.  A Linear issue that was just
\* created is left for manual reconciliation; the rest is retried.
RecordFails(w) ==
  /\ pc[w] = "record" /\ Succeeded(w) /\ Fault
  /\ result' = [result EXCEPT ![w] =
       IF current[w].of \in Linear /\ result[w] = "ok" THEN "fail" ELSE "retry"]
  /\ UNCHANGED <<rows, events, pc, job, about, batch, current, refs, outside, resets>>

\* The sweep has a catch of its own: whatever is thrown before the outcome is
\* written, a failing markFailed included, is recorded under the same claim as
\* a failure to be retried, also after a call that may have created an issue.
\* In the other jobs such an error leaves the claim on the row, as a Crash does.
SweepFails(w) ==
  /\ job[w] \in {"sweep", "orphan"} /\ Fault
  /\ \/ pc[w] \in {"lookup", "check", "abandon", "send"}
     \/ pc[w] = "record" /\ ~Succeeded(w)
  /\ \E c \in batch[w] : MarkFailed(c, "later")
  /\ Go(w, "idle")
  /\ batch' = [batch EXCEPT ![w] = {}]
  /\ current' = [current EXCEPT ![w] = NoClaim]
  /\ result' = [result EXCEPT ![w] = "none"]
  /\ UNCHANGED <<events, about, refs, outside, resets>>

\* countByStatuses, and in a second statement markNotificationSent.
Settle(w) ==
  /\ pc[w] = "settle"
  /\ Go(w, IF \A d \in RowsOf(about[w]) : status[d] \in {"absent", "delivered"}
           THEN "mark" ELSE "idle")
  /\ UNCHANGED <<rows, events, about, batch, current, result, refs, outside, budgets>>

MarkNotificationSent(w) ==
  /\ pc[w] = "mark"
  /\ notified' = [notified EXCEPT ![about[w]] = TRUE]
  /\ Go(w, "idle")
  /\ UNCHANGED <<rows, incident, ruleListed, outbox,
                 about, batch, current, result, refs, outside, budgets>>

-----------------------------------------------------------------------------
(* Resolving incidents and cleaning up their Linear issues *)

\* status = 'resolved' and the outbox columns, for every firing incident of es.
ResolveAll(es) ==
  LET hit == {e \in es : incident[e] = "firing"}
  IN /\ incident' = [e \in Events |-> IF e \in hit THEN "resolved" ELSE incident[e]]
     /\ syncPending' = [e \in Events |-> e \in hit \/ syncPending[e]]
     /\ syncClaim' = [e \in Events |-> IF e \in hit THEN NoOne ELSE syncClaim[e]]
     /\ syncLapsed' = [e \in Events |-> e \notin hit /\ syncLapsed[e]]
     /\ syncFailed' = [e \in Events |-> e \notin hit /\ syncFailed[e]]

\* By hand, or by the monitor when the condition clears.
Resolve(e) ==
  /\ incident[e] = "firing"
  /\ ResolveAll({e})
  /\ UNCHANGED <<rows, notified, ruleListed, workers, outside, budgets>>

\* DELETE of the rule: hidden at once, its incidents resolved with it.
RequestRuleDeletion ==
  /\ ruleListed
  /\ ruleListed' = FALSE
  /\ ResolveAll(Events)
  /\ UNCHANGED <<rows, notified, workers, outside, budgets>>

\* claimLinearResolutionSync; the recovery worker then reclaims due rows.
BeginSync(w, e) ==
  /\ incident[e] = "resolved" /\ syncPending[e]
  /\ syncClaim[e] = NoOne \/ syncLapsed[e]
  /\ Start(w, "resolve", e, "claimEvent")
  /\ syncClaim' = [syncClaim EXCEPT ![e] = w]
  /\ syncLapsed' = [syncLapsed EXCEPT ![e] = FALSE]
  /\ UNCHANGED <<rows, incident, notified, ruleListed, syncPending, syncFailed,
                 batch, current, result, refs, outside, budgets>>

IssuesOf(e) == {d \in RowsOf(e) \cap Linear : status[d] = "delivered"}

EndSync(w, pending, failed) ==
  LET e == about[w]
  IN /\ Go(w, "idle")
     /\ refs' = [refs EXCEPT ![w] = {}]
     /\ IF syncClaim[e] = w
        THEN /\ syncClaim' = [syncClaim EXCEPT ![e] = NoOne]
             /\ syncLapsed' = [syncLapsed EXCEPT ![e] = FALSE]
             /\ syncPending' = [syncPending EXCEPT ![e] = pending]
             /\ syncFailed' = [syncFailed EXCEPT ![e] = failed]
        ELSE UNCHANGED outbox

\* Fault variant: a failed delivery also holds the clean-up back.
ConfirmIssues_WaitForFailed(w) ==
  /\ pc[w] = "confirm"
  /\ IF \E d \in RowsOf(about[w]) \cap Linear : status[d] \in {"claimed", "failed"}
     THEN EndSync(w, syncPending[about[w]], syncFailed[about[w]])
     ELSE /\ refs' = [refs EXCEPT ![w] = IssuesOf(about[w]) \cup (linked \cap RowsOf(about[w]))]
          /\ Go(w, "close")
          /\ UNCHANGED outbox
  /\ UNCHANGED <<rows, incident, notified, ruleListed, about, batch, current,
                 result, outside, budgets>>

\* listByEvent: while a Linear delivery is still claimed the clean-up is put
\* back, otherwise the issues linked to the incident or recorded on its
\* delivered rows are the ones to close.
ConfirmIssues(w) ==
  /\ pc[w] = "confirm"
  /\ IF \E d \in RowsOf(about[w]) \cap Linear : status[d] = "claimed"
     THEN EndSync(w, syncPending[about[w]], syncFailed[about[w]])
     ELSE /\ refs' = [refs EXCEPT ![w] = IssuesOf(about[w]) \cup (linked \cap RowsOf(about[w]))]
          /\ Go(w, "close")
          /\ UNCHANGED outbox
  /\ UNCHANGED <<rows, incident, notified, ruleListed, about, batch, current,
                 result, outside, budgets>>

CloseIssues(w) ==
  /\ pc[w] = "close"
  /\ closed' = closed \cup refs[w]
  /\ pc' = [pc EXCEPT ![w] = "clear"]
  /\ UNCHANGED <<rows, events, job, about, batch, current, result, refs, created, mapped, linked,
                 budgets>>

\* Fault variant: a failure of Linear ends the clean-up.
CloseFails_Forgets(w) ==
  /\ pc[w] = "close" /\ refs[w] # {} /\ Fault
  /\ EndSync(w, FALSE, FALSE)
  /\ UNCHANGED <<rows, incident, notified, ruleListed, about, batch, current,
                 result, outside, resets>>

\* A failure of Linear: the clean-up is released for another attempt, or
\* abandoned when it is permanent or the attempts are exhausted.
CloseFails(w) ==
  /\ pc[w] = "close" /\ refs[w] # {} /\ Fault
  /\ \/ EndSync(w, syncPending[about[w]], syncFailed[about[w]])
     \/ EndSync(w, FALSE, TRUE)
  /\ UNCHANGED <<rows, incident, notified, ruleListed, about, batch, current,
                 result, outside, resets>>

\* clearLinearResolutionSyncPending, fenced by the claim token.
ClearSync(w) ==
  /\ pc[w] = "clear"
  /\ EndSync(w, FALSE, FALSE)
  /\ UNCHANGED <<rows, incident, notified, ruleListed, about, batch, current,
                 result, outside, budgets>>

-----------------------------------------------------------------------------
(* Time and crashes *)

Held(d) == \E w \in Workers : \E c \in batch[w] : c.of = d /\ c.at = claimedAt[d]

LeaseLapses(d) ==
  /\ status[d] = "claimed" /\ ~lapsed[d]
  /\ IF Held(d) THEN OutliveLease /\ Fault ELSE UNCHANGED faults
  /\ lapsed' = [lapsed EXCEPT ![d] = TRUE]
  /\ now' = now + 1
  /\ UNCHANGED <<status, claimedAt, nextRetryAt, events, workers, outside, resets>>

SyncHeld(e) ==
  LET w == syncClaim[e]
  IN pc[w] # "idle" /\ job[w] = "resolve" /\ about[w] = e

\* Fifteen minutes later the clean-up's claim may be taken over.
SyncLeaseLapses(e) ==
  /\ syncClaim[e] # NoOne /\ ~syncLapsed[e]
  /\ IF SyncHeld(e) THEN OutliveLease /\ Fault ELSE UNCHANGED faults
  /\ syncLapsed' = [syncLapsed EXCEPT ![e] = TRUE]
  /\ UNCHANGED <<rows, incident, notified, ruleListed, syncPending, syncClaim, syncFailed,
                 workers, outside, resets>>

BackoffElapses(d) ==
  /\ nextRetryAt[d] = "later"
  /\ nextRetryAt' = [nextRetryAt EXCEPT ![d] = "due"]
  /\ now' = now + 1
  /\ UNCHANGED <<status, claimedAt, lapsed, events, workers, outside, budgets>>

\* Another incident about the same job gets its issue created.
MapElsewhere(d) ==
  /\ d \in Tracked \ mapped
  /\ mapped' = mapped \cup {d}
  /\ UNCHANGED <<rows, events, workers, linked, created, closed, budgets>>

\* The process dies; its claims stay on the rows.
Crash(w) ==
  /\ pc[w] # "idle" /\ Fault
  /\ Go(w, "idle")
  /\ batch' = [batch EXCEPT ![w] = {}]
  /\ current' = [current EXCEPT ![w] = NoClaim]
  /\ result' = [result EXCEPT ![w] = "none"]
  /\ refs' = [refs EXCEPT ![w] = {}]
  /\ UNCHANGED <<rows, events, about, outside, resets>>

-----------------------------------------------------------------------------

WorkerStep(w) ==
  \/ Enqueue(w) \/ ClaimDueForEvent(w) \/ SweepLookup(w) \/ ClaimById(w)
  \/ CheckIncident(w) \/ AbandonOne(w) \/ CallProvider(w)
  \/ RecordMapping(w) \/ Record(w) \/ Settle(w) \/ MarkNotificationSent(w)
  \/ ConfirmIssues(w) \/ CloseIssues(w) \/ ClearSync(w)

Next ==
  \/ \E w \in Workers :
       \/ WorkerStep(w) \/ Refuse(w) \/ RecordFails(w) \/ SweepFails(w) \/ CloseFails(w)
       \/ Crash(w)
       \/ \E e \in Events : BeginDispatch(w, e) \/ BeginSync(w, e)
       \/ \E d \in Deliveries : SweepClaim(w, d) \/ ResetForRetry(w, d)
  \/ \E e \in Events : Resolve(e) \/ SyncLeaseLapses(e)
  \/ \E d \in Deliveries : LeaseLapses(d) \/ BackoffElapses(d) \/ MapElsewhere(d)
  \/ RequestRuleDeletion

Spec == Init /\ [][Next]_vars

\* The timers of the monitor keep firing, so a row or an outbox entry that is
\* due again and again is taken in the end; a running job goes on; time passes.
Fairness ==
  /\ \A w \in Workers : WF_vars(WorkerStep(w))
  /\ \A d \in Deliveries :
       /\ SF_vars(\E w \in Workers : SweepClaim(w, d))
       /\ WF_vars(~Held(d) /\ LeaseLapses(d))
       /\ WF_vars(BackoffElapses(d))
  /\ \A e \in Events :
       /\ SF_vars(\E w \in Workers : BeginSync(w, e))
       /\ WF_vars(syncClaim[e] # NoOne /\ ~SyncHeld(e) /\ SyncLeaseLapses(e))

FairSpec == Spec /\ Fairness

-----------------------------------------------------------------------------
(* Properties *)

\* A message is sent again only for a cause: whatever the claims, the lapsed
\* leases and the restarts, a provider takes a delivery at most once more than
\* there were failures, crashes, outlived leases and presses of Retry.
ResentForCause == \A d \in Deliveries : created[d] <= 1 + faults + resets

\* A delivered row says the truth: the provider has taken the message, or the
\* job of the incident has an issue already.
Taken(d) == created[d] > 0 \/ d \in mapped
DeliveredWasTaken == \A d \in Deliveries : status[d] = "delivered" => Taken(d)

\* A delivered row is final: no late failure, stale worker, take-over or Retry
\* button moves it again (alert-delivery.ts, the fence and resetForRetry).
DeliveredIsFinal ==
  [][\A d \in Deliveries : status[d] = "delivered" => status'[d] = "delivered"]_vars

\* notification_sent_at stops the re-enqueueing of an incident's channels, so it
\* may only be set when every channel has been delivered, although the count
\* and the write are two statements and other jobs run between them.
NotifiedIsComplete ==
  \A e \in Events : notified[e] => \A d \in RowsOf(e) : status[d] = "delivered"

\* The clean-up of a resolved incident is never forgotten: an issue recorded on
\* a delivered row is closed, or its clean-up is queued, or it was given up on
\* record.  Deliveries that finish after the resolution are the hard case.
CleanupIsQueued ==
  \A e \in Events : incident[e] = "resolved" =>
    IssuesOf(e) \subseteq closed \/ syncPending[e] \/ syncFailed[e]

\* Every enqueued delivery is settled in the end: delivered, or failed with no
\* retry left; no crash, lapsed lease or retry leaves it hanging.
Unsettled(d) ==
  \/ status[d] \in {"pending", "claimed"}
  \/ status[d] = "failed" /\ nextRetryAt[d] # "none"

EveryRowSettles == \A d \in Deliveries : Unsettled(d) ~> ~Unsettled(d)

\* Every queued clean-up is finished or given up on record, although each
\* in-flight delivery sends it back to the queue.
CleanupFinishes == \A e \in Events : syncPending[e] ~> ~syncPending[e]

-----------------------------------------------------------------------------
(* The abstract outbox this one implements *)

\* A delivery as DeliveryPromise sees it: a claim is an attempt, a failure with
\* a retry time waits, one without is given up.
Fate == [d \in Deliveries |->
  IF status[d] = "claimed" THEN "trying"
  ELSE IF status[d] = "pending" \/ (status[d] = "failed" /\ nextRetryAt[d] # "none")
       THEN "waiting"
  ELSE IF status[d] = "failed" THEN "abandoned"
  ELSE status[d]]

Promise == INSTANCE DeliveryPromise WITH
  fate      <- Fate,
  Shared    <- Tracked,
  taken     <- {d \in Deliveries : Taken(d)},
  announced <- {e \in Events : notified[e]}

\* The outbox keeps its promise: with every claim, take-over, stale answer, crash
\* and press of Retry mapped to a step of the abstract outbox or to none.
KeepsPromise == Promise!Spec

-----------------------------------------------------------------------------
(* What the documents say *)

\* alert-notifier.ts, after a Linear call that may have created the issue:
\* "Manual reconciliation is required before retrying to avoid duplicate
\* issues"; linear.mdx says that the automatic retry stops.  (Refuted: when the
\* failure cannot be written the sweep schedules another attempt itself, and a
\* crash after the create leaves a claim that lapses and is taken over.)
AmbiguousCreateNotRescheduled ==
  [][\A d \in Linear :
       status[d] = "claimed" /\ status'[d] = "failed" /\ nextRetryAt'[d] # "none"
         => created[d] = 0]_vars
NoRetryAfterPossibleCreate ==
  [][\A d \in Linear :
       status[d] # "pending" /\ status'[d] = "claimed" /\ claimedAt'[d] # claimedAt[d]
         => created[d] = 0]_vars

\* alert-delivery.ts: the Retry button resets "a failed or stuck delivery" and
\* must not create "a duplicate downstream issue".  (Refuted: it also resets a
\* delivery whose provider call is being made.)
OneIssuePerDelivery == \A d \in Linear : created[d] <= 1
=============================================================================
