# Durabull: TLA+ models, checks and proofs

Durabull watches BullMQ queues in Redis, raises incidents when alert rules
trigger, notifies people by email, webhook and Linear, and cleans up after the
incidents are resolved. Its API runs in any number of replicas that share one
PostgreSQL database and nothing else. This directory models the part of that
which is hard to test: what the replicas do to each other between two database
statements, when a process dies, when a lease is outlived, when a call to a
provider may or may not have had its effect; and what an organization pays for
and may use, when Stripe's events are late, lost or repeated, purchases overlap
and plans change while resources are switched on and off.

Paths below are relative to the repository.

    tlc -workers 2 -config MCAlertDelivery.cfg MCAlertDelivery
    tlc -workers 2 -config MCBillingLive.cfg Billing
    tlapm AlertDelivery_proofs.tla
    tlapm AlertMonitor_proofs.tla
    tlapm AlertEvaluator_proofs.tla
    tlapm LinearResolution_proofs.tla
    tlapm BoundedAsyncQueue_proofs.tla
    tlapm Billing_proofs.tla                (and _purchases_proofs)
    tlapm Capacity_proofs.tla

`PROJECT.json` lists the runs, the faults each property is known to detect, the
source lines every definition stands for, the hazards and the theorems.

## Inventory

### The alerting core (modelled)

| Component | Code | State | Operations |
| --- | --- | --- | --- |
| Alert monitor | `apps/api/src/lib/alert-monitor.ts` | `alert_check_cursor` (one per queue and connection), timers, per-process flags | poll a connection, replay a pending sample, evaluate each rule, open / clear / suppress incidents, sweep deliveries, recover clean-ups, retention |
| Alert evaluator | `apps/api/src/lib/alert-evaluator.ts` | none; compares a snapshot with the cursor | failure threshold, failure rate, stalled queue, Redis health |
| Repositories of incidents, rules, cursors | `packages/dal/src/repositories/alert-{event,rule,check-cursor}.ts` | `alert_event`, `alert_rule` | fenced transactions that open, clear, suppress, resolve; edits; two-phase deletion |
| Notification outbox | `packages/dal/src/repositories/alert-delivery.ts`, `apps/api/src/lib/alert-notifier.ts` | `alert_delivery` | enqueue, three claim queries, send, record, retry by hand |
| Linear clean-up | `apps/api/src/lib/alert-resolution.ts`, `packages/dal/src/repositories/linear-{issue-resolution,job-issue}.ts` | outbox columns of `alert_event`, `linear_issue_resolution`, `linear_job_issue_event` | claim resolved incidents, check the issue's other incidents, close and comment, drain and delete rules |
| Alert routes | `apps/api/src/routes/alerts.ts` | none of their own | edit, snooze, delete rules; resolve incidents; retry deliveries |
| Bounded async queue | `apps/api/src/lib/bounded-async-queue.ts` | in-process counters and an array | enqueue, dispatch, flush, reset |

How they interact: the monitor reads Redis, writes the cursor, asks the
evaluator for a verdict and opens or clears incidents through the repositories.
For an open incident it enqueues deliveries and works on them at once; a sweep
every 5 to 15 seconds works on what is left or due again. Resolving an incident
(by the monitor, by hand, by an edit or by the deletion of its rule) queues the
clean-up of its Linear issue in the same statement; a recovery cycle claims such
incidents, fails the deliveries that are still waiting, closes the issue and
posts a comment. A rule whose deletion was requested disappears from the lists
at once and is deleted when nothing of it is left to clean up.

Every exchange between these parts goes through a row. There are no messages
and no locks held across calls: the only protections are conditional updates
(claim tokens, `claimed_at`, revisions, the identity of the cursor), unique
indexes and short transactions. That is what the models are about.

What is hard, and what makes each part correct:

- *monitor*: a process may die between publishing a sample and evaluating it;
  replicas overlap, so a slow one may act on an old sample or an old revision
  of a rule. No instant may be skipped, the newest sample decides, an edit voids
  what was evaluated under the old revision, one incident fires per rule.
- *outbox*: a claim may be taken over while its holder still runs; a call may
  have had its effect although it failed; incidents are resolved in between.
  Outcomes are written once and truthfully, a delivered row stays delivered,
  everything is settled in the end.
- *clean-up*: an issue is shared by incidents of several rules that come and go
  while it is being closed. No clean-up is lost, comments are not duplicated,
  deletions end.
- *evaluator*: counts fall when jobs are cleaned, polls are missed, metrics
  may be off. A verdict must describe jobs that exist.
- *async queue*: completions arrive after a reset. Slots are counted, work is
  not reordered, dropped only when full.

### Billing (modelled)

| Component | Code | State | Operations |
| --- | --- | --- | --- |
| Webhook inbox | `apps/api/src/billing/webhooks.ts`, `packages/dal/src/repositories/billing.ts` | `billing_webhook_event` | receive, claim for five minutes, process, retry, dead-letter, replay by an operator |
| Reconciliation | `apps/api/src/billing/reconcile.ts` | `billing_subscription`, the organization lock | list at Stripe, project, choose the current subscription, complete attempts, materialize |
| Checkout | `apps/api/src/billing/checkout.ts`, `gateway.ts` | `billing_checkout_attempt` | start, reuse, create and attach a session, return, cancel, sweep |
| Entitlements and capacity | `apps/api/src/billing/{entitlements,suspension}.ts`, `packages/billing/src/capacity.ts`, the capacity functions of the migration `20261020120000_cloud_billing` | `organization_entitlement`, `billing_resource_suspension` | materialize, adjustment window, suspend, restore, the owner's choice, the trigger on creation |
| Timers | `apps/api/src/billing/lifecycle.ts` | none | inbox every few seconds, sweep of deadlines, reconciliation of everything every six hours |

How they interact: a webhook is a row and a nudge, no more; whatever it says, it
makes a worker take the organization lock and ask Stripe what is true now. A
purchase is an attempt in the ledger (a unique index allows one open attempt)
and a session at Stripe that can be paid at any moment, whatever the API thinks
of it. Every reconciliation ends in a materialization, which decides under the
same lock what is suspended and restored. Capacity is enforced by a database
trigger against the row that the last materialization saved.

What is hard, and what makes each part correct:

- *inbox*: claims are taken over and outcomes are not fenced. An event may be
  marked only after what it announced was applied, and every event ends.
- *reconciliation*: what was listed may be old when it is written. The
  projection never goes back while the lock is held, and it converges.
- *checkout*: calls to Stripe may fail after their effect, purchases,
  cancellations, payments and sweeps cross. No session may stay payable that no
  attempt stands for, and there is one at a time; two ways around it are below.
- *capacity*: plans go up and down, people act in between, jobs fail half-way.
  An excess ends in time, what fits is restored, an evaluation of what was just
  evaluated moves nothing, and the founding owner stays.

### The rest (not modelled)

| Component | Code | Why not |
| --- | --- | --- |
| The resolver of plans | `packages/billing/src/resolve.ts` | a pure function of dates and statuses, with a table of unit tests; in `Capacity` the plan that applies is free |
| Transition notices, operator tools | `apps/api/src/billing/transition.ts` | a row claims each mail before it is sent; audited single writes |
| Redis health rules and history | `apps/api/src/lib/redis-health*.ts` | the cursor protocol of the monitor again, per connection |
| Redis connection cache | `apps/api/src/lib/redis.ts` | in-process: in-flight dedupe, failure backoff, replaced clients; planned |
| Rate limiting | `apps/api/src/middleware` | in-process token bucket; planned |
| Queue discovery | `apps/api/src/lib/queue-discovery.ts` | reads and caches key names |
| Linear OAuth and client, webhook client, destinations | `apps/api/src/lib` | HTTP; their outcomes are nondeterministic in the models |
| Queue, job, connection routes | `apps/api/src/routes` | single writes; BullMQ's state is external |
| MCP server, authentication, analytics | `packages/mcp`, `packages/auth`, `packages/analytics` | reads, third-party code, fire and forget |
| Email, web, desktop, docs, storybook, demo | `packages/email`, `apps/*` | formatting and user interface: two thirds of the repository's lines |

## Modules

| Module | Models | Proofs | Instances |
| --- | --- | --- | --- |
| `DeliveryPromise` | what the outbox promises of each delivery, with no claim, worker or clock: the abstract specification | | |
| `AlertDelivery` | the notification outbox, with the clean-up as the job that competes with it; implements `DeliveryPromise` | `AlertDelivery_proofs` | `MCAlertDelivery` |
| `IncidentPromise` | what the monitor promises of incidents: one observer who has the newest sample and acts on the rules as they are | | |
| `AlertMonitor` | polls of one queue by several replicas, rules and incidents; implements `IncidentPromise` | `AlertMonitor_proofs` | `MCAlertMonitor` |
| `AlertEvaluator` | what the three queue rules see over time | `AlertEvaluator_proofs` | itself |
| `LinearResolution` | closing an issue shared by incidents, deleting rules | `LinearResolution_proofs` | `MCLinearResolution` |
| `BoundedAsyncQueue` | the in-process queue | `BoundedAsyncQueue_proofs` | itself |
| `Billing` | the webhook inbox, the organization lock, reconciliation and Checkout, with Stripe as the other party | `Billing_proofs`, `Billing_purchases_proofs` | `MCBilling`, itself |
| `Capacity` | what a plan keeps, adjustment windows, suspension, restoration, the owner's choice | `Capacity_proofs` | `MCCapacity` |

Conventions. An action is one database statement or transaction, one call to a
provider, or one synchronous stretch of JavaScript, because nothing can come
between; a worker's `pc` names the next one. Locals a worker carries across an
`await` are its variables, which is how stale reads arise. Names are those of
the code where TLA+ allows it. Variables called *history* are read by properties
only. Definitions called *fault variant*, with a suffix after an underscore
(`MarkFailed_Unfenced`), are no part of any specification: each is the
definition without the suffix with a plausible bug put in, and shows that a
property would notice it (`mutants` in `PROJECT.json`).

### AlertDelivery

State: the columns of `alert_delivery` (`status`, `claimedAt`, `nextRetryAt`),
the incident's status, `notification_sent_at` and outbox columns, the issue a job
has (`mapped`) and whether the incident is linked to it (`linked`), and per worker
its job, step and the claims it holds. `created` counts what the provider took.

- `ClaimDueForEvent`, `SweepClaim`, `ClaimById` are the claim queries, with one
  WHERE clause (`Claimable`). `claimed_at` is the clock in milliseconds (`now`),
  which the fence compares for equality. The clock moves when something takes
  longer than one: ten minutes (`LeaseLapses`), a backoff (`BackoffElapses`), and
  the time between a claim and a press of Retry (`ResetForRetry`), which may be no
  time at all, so that a row is claimed twice with one `claimed_at`.
  `OutliveLease` lets a lease lapse although its holder still runs (it handles up
  to twenty deliveries one after the other).
- `CallProvider` reuses the issue of a job that has one. Otherwise the call may
  have its effect or not, independently of what the worker sees, except where the
  code rules it out: a Linear failure that may have created the issue is final,
  any other may be retried. `Refuse` is every outcome decided before the call,
  `RecordMapping` the write of the job's issue and of its link, `RecordFails` a
  database error in that or in `markDelivered`. `MapElsewhere` is another incident
  of the same job whose issue was created meanwhile.
- `SweepFails` is the catch of `processDueAlertDelivery`: what is thrown in a lane
  of the sweep before the outcome is written (a lookup, the settings, `markFailed`
  itself) becomes a failure to be retried under the same claim. In the other jobs,
  and when that write fails too, the claim stays on the row, as after a `Crash`.
  A row whose event or connection is gone cannot be met: deleting either deletes
  the row with it (foreign keys that cascade).
- `Settle` and `MarkNotificationSent` are the two statements behind
  `notification_sent_at`.
- `ResetForRetry`, `Resolve`, `RequestRuleDeletion` are the requests of users;
  `BeginSync`, `ConfirmIssues`, `CloseIssues`, `ClearSync` the clean-up as the
  outbox sees it. The full clean-up is in `LinearResolution`.
- `Crash` drops what a worker holds; its claims stay on the rows.

`KeepsPromise` is `DeliveryPromise!Spec` under the mapping `Fate`: a claim is an
attempt, a failure with a date for the next attempt is waiting, one without is
abandoned; `taken` is what the provider took, or a job that has its issue
already (`Shared` deliveries may be taken by someone else); `announced` the
incidents with `notification_sent_at`. A late call of a worker that was taken
over is a `Take` of the promise in whatever state the delivery is.

### AlertMonitor

State: the rule's revision, switches and snooze; the cursor and its `applied`
flag; the incidents; per poller the sample, the revisions loaded and the rules
to do. A sample stands for the interval from the cursor it is compared with to
its own instant, and its verdict on each rule is free (`hot`), which
covers any evaluator. `LoadRules`, `ReadCursor`, `Collect`, `Publish`, `Finish`
are `processConnection`; `NextRule` to `ClearIncident` are
`processAlertEvaluation`, each write with its fence (`Current`: the rule is the
revision loaded and the cursor is the sample at hand). Users edit, disable,
enable, delete and snooze rules and resolve incidents at any moment.

`ActsAsOne` is `IncidentPromise!Spec`. The observer's sample is the cursor without
the base of its deltas, and a rule is awake when it is enabled, listed and not
snoozed. Of an incident he sees its status, the sample that cleared it and the
samples counted in it (`Shown`); the revisions an incident was opened under,
whether it anchors a cooldown and the last token counted are means of the
replicas. He has no cooldown: whether a sample opens an incident or is counted in
an earlier one is his choice, as is whether he acts at all, but not on what: each
write must be for an awake rule, for the revision the newest sample was taken
under, and as that sample has it.

### AlertEvaluator

A minute clock; jobs fail, complete and are cleaned up, polls happen or are
missed. The three evaluation functions are operators over the counts, the
per-minute metrics and the cursor. `NoBacklogSpike`, `CountedOnce` and
`StalledIsIdle` compare their verdicts with what happened to the jobs. The sum of
a metric over some minutes is the number of jobs that ended in them (`Total`).

### LinearResolution

One issue, incidents of one or two rules. State: the outbox entry of each
incident, the ledger of the issue, the deletion claim of each rule, the issue
and its comments in Linear, and per worker what it read. Each call to Linear and
each statement of `syncLinearIssuesForResolvedEvents`, `completeLinearIssue` and
`finalizePendingAlertRuleDeletion` is an action. A link made by a new incident
starts the ledger over. `LinearFails` fails before or after the effect. People
may change the issue (`Operate`).

### BoundedAsyncQueue

The closure's counters and array, the running processors with the epoch they
were dispatched in. Each action is one synchronous stretch: an enqueue, a
completion with the flush it ends in, a reset.

### Billing

One organization. Stripe is a party of its own (`stripe`: the subscriptions, the
sessions that can be paid, the events on their way), and people there pay, cancel
and change as they like. The API's state is its tables (`inbox`, `ledger`, `plan`)
and the lock (`mutex`). The workers are timers (`ClaimEvents`, `Sweep`,
`Schedule`; two of them are two timers of one process or of two, of the same kind
or not, as `singleFlight` holds within a process only) and the requests of people
(`StartCheckout`, `CancelCheckout`, `ConfirmReturn`). `ListSubscriptions`, `Upsert`,
`ChooseCurrent`, `SetCurrent`, `CompleteAttempt`, `Materialize` are
`reconcileOrganization`, one call or statement each.

- The lock is a PostgreSQL advisory lock on a connection of its own. `LoseLock`
  is the death of that connection while its holder goes on.
- `Fails` is a failed call or statement with the release that follows,
  `Crash` the death of a process: the database releases its lock and the inbox
  gives its events to others after five minutes. Claims are also taken over
  while their worker still runs.
- `Sweep` takes an attempt whose time is over without the lock, as the code does;
  its session may be open still, and be paid between the look, the call that
  expires it and the write. `writtenOff` is history: the attempts a sweep set
  expired although they were paid.
- The events a claim returns come in any order (`Orders`; `UPDATE ... RETURNING`
  promises none). Every event modelled has a customer; one without (of a deleted
  object) is marked processed without a reconciliation, as it announces nothing.
- Assumed: thirty minutes after an attempt was made nobody is still creating its
  session; a subscription is not canceled within
  a minute of its purchase, which is the margin by which `Covers` recognises the
  subscription of an attempt; events beyond `MaxEvents` are announced to nobody
  and purchases beyond `MaxAttempts` are refused.
- Plans, prices and trials are abstracted: a subscription has a status and a
  version, which says how new what was read is.

### Capacity

One organization that has a Stripe customer. Resources are numbered by kind and
age; each counts against one limit, and an alert rule watches a connection. A job
(`Materialize`, `ReadPlans`, `RestoreOne`, `SuspendAll`, `SaveEntitlement`) runs
under the lock; the plan that now applies is free. `Choose` is the owner's
request, whose allocation runs without the lock and is followed by a
materialization. `Enable` and `Disable` are people's switches, the former checked
by the trigger against the saved row. `Fails` leaves what was done.

- A unit of time is longer than the six hours between two scheduled
  reconciliations, so `Tick` waits for a materialization that was saved in the
  unit, and for the jobs that run, which take seconds.
- The owner chooses for one limit at a time, enforcement is on, the founding
  owner does not change, history retention is left out.
- `over` is a history variable: since when a limit has been exceeded without
  interruption and without additions that the code makes without looking. There
  are two: what an owner's choice restores (without the lock), and the rules that
  a materialization restores (`SettledFits`). In the kind of such a resource the
  excess is counted as a new one; a switch never adds to an excess.
- `calm` says that nobody else acted since the last materialization began; the
  properties of a settled state are stated for it.
- Rules watch connections, and connections watch nothing (`CapacityAssumption`).
  A kind is `Independent` when what is kept of it depends on no other kind: all
  but the rules.

## Runs

| Run | Bounds | Shows |
| --- | --- | --- |
| `delivery` | 1 incident of one job with a Linear row, 2 workers, 2 faults or 1 and a Retry, leases may be outlived | `ResentForCause`, `CleanupIsQueued`, `KeepsPromise`, `EveryRowSettles`, `CleanupFinishes` |
| `monitor` | 2 replicas, 1 rule, 2 samples, 2 crashes | `NothingSkipped`, `AppliedSampleDecides`, `ClearedByNewerSample`, `SuppressionsCounted`, `SamplesGetApplied` |
| `monitor_edits` | 2 replicas, 1 rule, 2 changes | `OneFiringPerRule`, `NoPredatedIncident`, `FrozenWhileSnoozed`, `ActsAsOne` |
| `evaluator` | 5 minutes, 3 jobs, 1 clean-up, polls may be missed | `NoBacklogSpike`, `CountedOnce`, `StalledIsIdle` |
| `resolution` | 2 incidents of 2 rules, 2 workers, 1 fault | `CleanupNotLost`, `CompletedHasComment`, `OneCommentPerLink` |
| `resolution_live` | 1 incident, 2 workers, 2 faults, 1 change by a person | `CleanupFinishes`, `DeletionFinishes` |
| `async_queue` | 2 slots, 2 places, 6 offers, 2 resets | `SlotsAreCounted`, `NoIdleSlot`, `StartedInOrder` |
| `billing` | 2 timers and a person, 1 purchase, 2 changes at Stripe, 2 tries of an event, 1 fault | `ProcessedIsApplied`, `NeverBackwards` |
| `billing_live` | 1 timer and a person, 2 purchases, 1 change at Stripe, 1 fault | `PayableIsTracked`, `OneAtATime`, `EventSettles`, `Converges` |
| `billing_second` | 2 purchases, no fault | refutes `OneLiveSubscription` |
| `capacity` | 2 connections with a rule each, 2 members, 3 plans, 4 units, a job and an owner, 1 fault | `FounderStays`, `ExcessEnds`, `RoomIsUsed`, `IndependentFits`, `StableSet` |
| `capacity_restore` | the same, no fault | refutes `SettledFits` |

`TypeOK` is an invariant of `evaluator`, `resolution` and `billing`; it is proved for
every module. Three properties of the outbox are proved
and in no run, as `KeepsPromise` implies what they say: `DeliveredWasTaken` (the
provider took a delivered row, or its job has an issue), `NotifiedIsComplete`
(`notification_sent_at` is set only when every channel has it) and
`DeliveredIsFinal`. `DroppedOnlyWhenFull` of the queue is proved as well.

Why the bounds are enough. The protections are pairwise: a claim against a
take-over, an old sample against a new one, a writer against an edit. Two
workers, two samples and two changes make every such pair in every order. One
fault is enough to part a claim from its holder and leave the other
worker to act; with two the one that took over fails as well, which is what the
liveness runs need. Two incidents of two rules are the least that share
an issue while one is deleted. A second channel matters to `NotifiedIsComplete`
only, which is proved for any number. The queue needs more offers than slots and
places together. In billing the lock, a claim and a session each have two
contenders: two timers race for events, a timer and a person for a
purchase; two purchases are the least that can be one too many. The daemons are
interchangeable, and `billing` uses that symmetry (its properties are safety
properties). In `capacity` two resources a limit, of which the smallest plan
keeps one, make every choice between them; with two units in a window and four
in all a window is granted, found again, ends, and another is granted or refused
by the cooldown of three. The theorems below hold without any bound.

No run checks for deadlock: every system here may be at rest with nothing to do.

### Fairness

The runs with liveness assume that a job that was started goes on (weak
fairness of its steps; Node does not starve a promise), that time passes
(backoffs end, claims nobody holds lapse), and that what is due again and again
is taken. The last is strong fairness of `SweepClaim`, `BeginSync`,
`SelectBatch` and `ClaimDeletion`: the timers fire for as long as a replica
lives (`startAlertMonitor`), and the queries behind them take the oldest rows
first (by `created_at` for deliveries, `updated_at` for clean-ups, the retry time
for deletions). A row is passed over only while more rows than the limit of the
query are ahead of it, and those leave the queue or move back in time. A
sustained overload beyond these limits is outside the models.
In `billing_live` a job that was started goes on, a worker that waits for the
lock gets it in the end (`SF` of `AcquireLock`: PostgreSQL grants a lock in the
order of the requests), the scheduled reconciliation is run again and again and
each event that can be claimed again and again is claimed (`SF` of `Schedule` and
`ClaimEvents`: `setInterval` for as long as a replica lives). Stripe and people are
not fair: an event may never arrive, and `Converges` holds by the scheduled
reconciliation.

Nothing is assumed of users, of providers or of faults other than that faults
are finitely many.

## Where code and documents differ

Refuted by a run:

- `billing_second`: `checkout.ts:70` reconciles before a purchase "so an
  uncertain local record never leads to a second subscription", and the
  operations runbook (`docs/billing-operations-runbook.md:164`) says duplicates are
  prevented by the single open attempt. A cancellation that finds its session
  paid marks the attempt completed and gives the lock back before it reconciles
  (`checkout.ts:261`). A purchase whose own reconciliation was earlier takes the
  lock in between, sees no open attempt and no subscription, and opens a second
  Checkout. A reconciliation that follows marks the second attempt completed, as
  the first subscription began within its minute, and the second session stays
  payable behind the ledger's back: `PayableIsTracked` holds as long as the requests
  of people come one at a time, which is how `billing_live` has them.
- `capacity_restore`: when nothing has to be suspended, the materialization
  allocates with `restoreOnly` (`entitlements.ts:295`). Without the owner's choice
  rules on connections that are off or paused are not preferred, so a kept rule
  may be another one than before: it is restored, and the one the owner chose
  is not suspended. Two rules are active on a limit of one until the next
  materialization, which suspends the owner's.

Refuted by TLC with the property added to the configuration named:

- `NoRetryAfterPossibleCreate` (`MCAlertDelivery.cfg`): `linear.mdx:183` says that a
  delivery whose issue may have been created is not retried automatically, and
  `alert-notifier.ts:464` that manual reconciliation comes first. A process that
  dies after the call leaves a claim that lapses, and the next sweep creates the
  issue again.
- `AmbiguousCreateNotRescheduled` (`MCAlertDelivery.cfg`): nor does it hold of the
  worker that saw the failure. When `markFailed` throws in the notifier
  (`alert-notifier.ts:232`), the catch of the sweep (`alert-monitor.ts:514`) writes
  the row once more under the same claim, as a failure to be retried in thirty
  seconds. `ResentForCause` says what is left: a repetition has a failure, a crash,
  an outlived lease or a press of Retry as its cause.
- `OneIssuePerDelivery` (`MCAlertDelivery.cfg`): `resetForRetry` is meant for "a failed
  or stuck delivery", but accepts any claimed one. Pressed while the worker is
  calling Linear it creates a second issue. Each outcome is still written
  truthfully (`DeliveredWasTaken`, `DeliveredIsFinal`). A claim made in the
  millisecond of the one that was reset passes for it; `KeepsPromise` holds all the
  same, as an outcome of the first is then one of the second.
- `OneLiveSubscription` (`MCBillingLive.cfg`): with one requester too, by the sweep.
  It finds the session of an old attempt open (`checkout.ts:293`), a purchase reads
  its preflight, the customer pays, `expireCheckoutSession` ignores that it is too
  late (`gateway.ts:279`), and the sweep marks the attempt expired without looking
  again (`checkout.ts:300`): the purchase sees neither an open attempt nor a
  subscription and opens a second Checkout. `PayableIsTracked` and `OneAtATime`
  are stated for histories without such a write (`writtenOff`).
- `StalledIsReported` (`MCAlertEvaluator.cfg`): `queue_stalled` compares the stall
  time with the time since the last poll, not with the time since a job
  completed. With polls every minute a stall time of two minutes is never
  reached.
- `StaysOpenWhileFiring` (`MCLinearResolution.cfg`): the incidents that share an
  issue are checked once, then Linear is called three times. One that links in
  between fires while its issue is closed. It is not lost: the new link
  resets the ledger, and its own resolution runs again (`CleanupNotLost`).

Seen while modelling, without a run:

- `capacity.ts:60` refuses a fresh window "within the cooldown after the last one
  ended". A window that is dropped because no connection or member is over any
  more, while a rule, destination or service account is, leaves
  `lastCapacityAdjustmentEndedAt` as it was (`entitlements.ts:283`): the next
  downgrade gets a fresh window at once.
- ADR 0002 calls the capacity trigger "the race-free backstop for every write
  path". `unsuspend` deletes rows that no trigger watches, so a resource created
  between the plan and the write of a restore exceeds the limit until the next
  materialization (`ExcessEnds` bounds it; an organization without a Stripe customer
  has no scheduled one).
- `PUT /allocation` allocates without the organization lock
  (`routes/billing.ts:400`), so a materialization that read before it can undo the
  owner's choice, which is stored nowhere else. It can also restore a resource
  into an excess that the materialization has just reduced; when the request then
  fails before it suspends (the two are separate statements,
  `suspension.ts:182`), the limit stays exceeded until the next materialization,
  longer than its window.
- `unknownPriceSince` (`entitlements.ts:194`) derives the first sight of an unknown
  price from `reevaluateAt`, which is the earliest of several deadlines: with
  another one earlier the tolerance is shorter than promised.
- `runEntitlementSweep` (`lifecycle.ts:47`) has no error handling inside its loop:
  an organization whose materialization fails keeps those after it from being
  swept.
- `webhooks.mdx:119` lets retries continue after the alert is no longer firing;
  `alert-notifier.ts:181` fails them for good at their next claim.
- `alert-rule-form.ts:862` promises "at most once every" cooldown. The cooldown
  is read (`alert-monitor.ts:1008`) before the transaction that opens the
  incident, so two replicas can open two if the first is resolved in between.
- The comments of `evaluateFailureThreshold` and `evaluateFailureRate` speak of
  windows of M minutes; the former counts since the last poll
  (`alert-evaluator.ts:194`), the latter over the whole metrics window
  (`alert-evaluator.ts:235`), whatever the rule says.
- A replica whose list of rules is older than a rule's last edit replays a
  pending sample without that rule and marks it applied for all. The interval of
  that sample is then evaluated for neither revision. `NothingSkipped` is
  therefore checked without edits.
- Two protections of the clean-up back each other up: the collector waits for
  deliveries in flight, and a delivery that ends late queues the clean-up again.
  Taking away either one alone breaks nothing in `AlertDelivery`.

## Proofs

Proved for any sets of incidents, deliveries and workers, any number of faults,
resets and lapsed leases, from `DeliveryAssumption` (each delivery has an
incident, tokens are not null) alone:

| Theorem | States |
| --- | --- |
| `TypeCorrect` | `Spec => []TypeOK` |
| `DeliveredIsTrue` | `Spec => []DeliveredWasTaken` |
| `DeliveredStays` | `Spec => DeliveredIsFinal` |
| `SentAgainForCause` | `Spec => []ResentForCause` |
| `NotifiedIsTrue` | `Spec => []NotifiedIsComplete` |
| `CleanupStaysQueued` | `Spec => []CleanupIsQueued` |

The invariant is built in layers, each inductive given those before it:

1. `Typed`: the types, and that a worker between its call and its record holds
   the claim it called under. `TypeOK` alone is not inductive: `Record` needs
   the latter to know that the row it writes exists.
2. `Told`: a worker that is about to record a success knows that the provider took
   the message or that the job has an issue.
3. `Hands`: a worker holds one claim of a row at most, and only between its claim
   query and the outcome.
4. `Counts`: an account for each row. What the provider took, the workers that may
   still call for it (`Holders`), and one more when the row is free to be claimed
   (`Free`) are together at most one more than the faults and resets so far. Each
   action pays for what it adds (`WorkPays`, `OutsidePays`): a claim takes the place
   of a free row, a call takes a holder away, and whatever frees a row that may have
   been sent, or lapses a claim that is held, is a fault or a reset. The claims need
   not differ for this.
5. `Counted`: the rows of an incident are enqueued together, so a worker past
   that point sees all of them, and a count of zero unfinished rows stays true
   because delivered rows are final.
6. `Cleaned`: a clean-up that still holds its claim has in `refs` every issue
   delivered for its incident. A delivery that ends later either finds the
   incident firing, and then there is no such clean-up, or takes the claim away.

For the queue, from `QueueAssumption` (the factory's range checks):
`QueueTypeCorrect`, `SlotsAreTrue`, `NoSlotIdles`, `StartsInOrder`,
`DropsOnlyWhenFull`. `QInv` joins the properties, which are inductive only
together: inputs wait only while every slot is taken, so a flush dispatches one
at most; the waiting inputs are newer than the running ones (`Ordered`), so that
one adds a processor, and the counter stays the truth.

The refinement, from the same assumption: `PromiseKept` states
`Spec => KeepsPromise`, by step simulation. Under the mapping each claim query is
`Try` of a set of deliveries, `Record` is `Deliver`, `PutBack` or `GiveUp`, the reset is
`Revive` or `PutBack`, the provider's call `Take`, `MarkNotificationSent` is
`Announce`, and everything else a stutter. It rests on layers 1, 2 and 5 above
(`Deliver` needs what a worker knows of the provider, `Announce` the count of
unfinished rows) and on one more: claims are held only on rows that were enqueued
(`Enqueued`). A job's issue that was created elsewhere is a `Take` as well
(`TakenOf`, `OutsideTakes`).

For capacity, from `CapacityAssumption` (finitely many resources, limits that are
numbers, connections that watch nothing), for any plans (a limit of zero
included), choices, workers, switches and faults:

| Theorem | States |
| --- | --- |
| `TypeCorrect` | `Spec => []TypeOK` |
| `FounderSafe` | `Spec => []FounderStays` |
| `ExcessesEnd` | `Spec => []ExcessEnds` |
| `RoomIsFilled` | `Spec => []RoomIsUsed` |
| `IndependentKindsFit` | `Spec => []IndependentFits` |
| `SetIsStable` | `Spec => []StableSet` |

The selection comes first. `Kept` is what `selectResourcesWithinLimit` keeps of a
set: those with fewer than the limit before them. The order is strict and total
(`BeforeOrder`), so what is kept comes before the rest (`KeptFirst`), is no more
than the limit and, where something is left out, no less (`KeptSize`, by taking the
first that is left out). From these follow, for one allocation: its outcome fits
(`AllocatedFits`) and fills the room (`AllocatedFills`). Of an independent kind what is
active comes before what is suspended, unless that is pinned: so all that is active
is kept where it fits (`ActiveKept`), nothing that is suspended where there is no room
(`NothingKept`), and a restoring allocation keeps a limit that was kept
(`RestoredFits`); only because the founder is never suspended, else the pinned could come on top). Then:

1. `FounderInv`: the founder is neither suspended nor on a list of what to
   suspend. `PinnedIsKept` counts: before a pinned resource come only other pinned
   ones, which are fewer than `max(limit, pinned)`.
2. `Holders` and `Agenda`: who holds the lock materializes with the present
   instant, and its last allocation restores; everybody else who allocates does so
   for an owner, and in calm nobody does.
3. `Clock` and `Saving`: a materialization was saved in this unit or the one before;
   the window in force, and the one to be saved, end within its length and are not
   prolonged. `Excess`: the history is the excess that there is.
4. `Fitting`: for each limit that was exceeded before this instant (or, in calm, any
   independent one) what the holder aims at fits, or it will save a window for it, or
   the allocation it has still to do is for that limit. It survives what others do
   meanwhile: switches add only where there is room, suspensions only help, and
   what an owner restores begins a new excess. It is false without that: TLC
   found both additions named under `over` when this invariant was first tried.
5. `Bounded`: an excess with a window began at most a unit before the window was
   granted, any other no earlier than the last materialization. With `Clock` this is
   `ExcessEnds`. The step is the saving of the row, which moves both ends.
6. `Filling`: in calm, what the last allocation aims at uses all the room. Saving the
   row then gives `RoomIsUsed` and, by `Fitting`, `IndependentFits`; these two give
   `StableSet`, by `NothingKept` and `ActiveKept`.

For the evaluator, from `EvaluatorAssumption` (any thresholds, windows, jobs, gaps
between polls and clean-ups):

| Theorem | States |
| --- | --- |
| `TypeCorrect` | `Spec => []TypeOK` |
| `SpikesAreRecent` | `Spec => []NoBacklogSpike` |
| `EachFailureOnce` | `Spec => []CountedOnce` |
| `StalledQueuesAreIdle` | `Spec => []StalledIsIdle` |

The failures of the queue are a set of pairs of a minute and a number (`Ends`), so
that sums over intervals are cardinalities and need no induction: a longer
interval counts no less, one more job in a minute is one more in the intervals
around it (`OneMore`). `Clock` says that the cursor is as old as the last poll.
`Behind`: what the counts have risen by since the poll is no more than what failed
since, although clean-ups lower them in between; this makes a reported spike
recent. `Ahead`: that rise and what was attributed so far are no more than what
failed at all, which is `CountedOnce` when the poll has taken the rise over. The
verdicts speak of minutes up to the last poll, and those no longer change
(`PastIsPast`), as a minute's jobs end before its poll.

For the monitor, from `MonitorAssumption` (any replicas and rules, any number of
samples, edits and crashes):

| Theorem | States |
| --- | --- |
| `TypeCorrect` | `Spec => []TypeOK` |
| `OneFires` | `Spec => []OneFiringPerRule` |
| `NothingPredated` | `Spec => []NoPredatedIncident` |
| `NewerClears` | `Spec => []ClearedByNewerSample` |
| `SnoozeFreezes` | `Spec => FrozenWhileSnoozed` |
| `CountIsTrue` | `Spec => []SuppressionsCounted` |
| `NoneSkipped` | `Spec => []NothingSkipped`, if `MaxEdits = 0` |
| `NewestDecides` | `Spec => []AppliedSampleDecides`, if `MaxEdits = 0` |
| `OneObserver` | `Spec => ActsAsOne` |

`NoneSkipped` and `NewestDecides` need rules that do not change: a replica whose list of rules is older
than an edit can mark a sample applied for all (see above). `Typed` adds to the
types that the incident a poller is about to write is one of its rule;
`IncidentsChange` lists the five things a step may do to the incidents, so that what
follows is argued once for each and not once per action. Then:

1. `OneFiring`: two firing incidents of one rule are the same one.
2. `AsSampled`: what a poller still has to evaluate, it evaluates under the
   revisions the sample was taken under. `Opened`: no incident was opened by a sample
   beyond the cursor, which only moves on; who passes the fence holds the cursor's
   sample, so it is no older than the one that opened.
3. `Awake`: who loaded a rule's newest revision loaded one that is not snoozed, as
   a snooze makes a revision.
4. `Tokened` and `Counted`: a token tells one sample from all others; an incident's
   counter is the number of samples counted for it, which are behind the cursor,
   the last one at most at it.
5. `Steady`, `Loads`, `Seen`, `Kept`, `Decided` (no edits): a poller at work has the
   rules that exist, its sample is not beyond the cursor, every instant up to the
   base of that sample is covered, and a rule the poller no longer has to do was
   evaluated with it; so who has nothing left may mark the sample applied.
6. `Fresh`, `Fired`, `Judged` (with edits): who loaded a rule's newest revision loaded
   an active rule and the rule still is, although the writes that count and clear do
   not look; a sample fires only for rules it was taken for; and who is about to write
   goes by the verdict of the sample in hand.

The refinement is proved step by step from layers 2 to 4 and 6, with `Seen`. A
publication that wins is `Observe`, of a sample that is strictly newer as no other
has its token, under revisions no newer than the rules'. A write that passes the
fence is made with the cursor itself (`Speaks`), so it is `Open`, `Clear` or `Count`;
a sample that is counted again changes nothing, as by layer 4 it is the last one
counted. Edits are `Change` (`UserEdits`), the end of a snooze is `Wake`, unless
the rule is disabled or deleted, a resolution by hand is `Dismiss`. `Finish` is a
stutter: when its write wins, the cursor is that sample already. Everything else only
moves a worker.

For the clean-up, from `ResolutionAssumption` (any incidents, rules, workers,
faults and changes by people):

| Theorem | States |
| --- | --- |
| `TypeCorrect` | `Spec => []TypeOK` |
| `OneComment` | `Spec => []OneCommentPerLink` |
| `CompletedCommented` | `Spec => []CompletedHasComment` |
| `NoneForgotten` | `Spec => []CleanupNotLost` |

`Typed` adds to the types that a comment is posted under an id only. `Ledgered`: a
claim of the issue belongs to a worker that is at work on it, and a completed ledger
has no claim. `Numbered`: the comment ids in use are unique, and those of the running link
are the one announced. `Commented` and `Closed` say what the holder has done by
the step it is at. `Settled`: the incidents a worker is about to end are resolved, past
the collection their deliveries are over, and a delivery in flight belongs to an
incident that fires or is queued. `NotLost` is the heart: the issue is closed or
excused, or some linked incident is `Awaited`: it fires, or is queued and no
worker is about to clear it. A worker gets to clear its incidents in two ways only:
the issue is closed, or a linked incident outside its batch was firing when it
looked. Whoever resolves that one queues it and takes its claim away, so that
nobody is about to clear it; and a link made later is of an incident that fires or
is queued, by `Settled`.

For billing, from `BillingAssumption` (any people, timers, purchases, events, tries
and faults): `TypeCorrect`, `AppliedBeforeProcessed` for `Spec => []ProcessedIsApplied`
and `ProjectionForward` for `Spec => NeverBackwards`. Beside the types (`Typed`, with
what a worker has in hand at each step) the invariant says that a customer who was
never bound has nothing at Stripe (`Strangers`), that nothing in hand is newer than
Stripe (`Received`), and that who is between the lock and the entitlement holds the
lock, unless it was lost (`Locked`). `Applied` then follows the version through a
reconciliation: the listing is as new as what is projected and as the events the
worker was told of, the projection as the listing, the entitlement as the
projection. Without `Locked` it fails, as another worker's listing may be newer;
without `Strangers` too, as a customer without an account skips the listing. All
steps that are no part of a reconciliation are summed up once, in `Apart` and
`Outside`.

For purchases, from `BillingAssumption` and `OnePerson` (one requester, so that the
requests of people come one at a time; `billing_second` shows that it is needed),
with any timers, purchases, events and faults, and with the assumption on the
clocks that the guard of `Sweep` makes (thirty minutes after an attempt was made
nobody is still creating its session): `PayableOnly` for
`[]PayableIsTracked` and `OneSubscription` for `[]OneAtATime`. The layers:

1. `Roles` and `Held`: which job stands at which step, and that a purchase and a
   cancellation hold the lock from the guard to their end.
2. `Numbered`, `Sessions`, `InMaking`: attempts are numbered as they come and only
   the last is open; a session is complete exactly when its subscription began;
   nobody else touches the attempt whose session is being created.
3. `Closing`: who closes an attempt, with the lock or without, does so because it has
   no session that anybody has, because its session expired, or because it was paid:
   then it is a request that holds the lock, or a sweep. What a sweep closes so is
   `writtenOff`, and stays so (`WrittenForGood`).
4. `Tracked` (which has `PayableIsTracked` as a part) with `Read`. An open attempt is
   lost from the ledger while it can be paid only if a reconciliation completes it
   for another's subscription, and a second subscription can begin only if the guard
   missed the first. Both depend on how stale a listing may be: `Reads` says that a
   worker between its listing and its writes, holding the lock, missed at most the
   payment of the open attempt; `Read` then says that a living subscription is known
   or still an open attempt until the guard, and the open attempt after it, where
   the purchase finds it. `Tracked` and `Read` need each other and are lost with the
   lock or by an attempt written off, hence the two exemptions in both properties.

Only model-checked: liveness, which is out of the prover's reach, as is ENABLED
(`EveryRowSettles`, `CleanupFinishes` and `DeletionFinishes`, `SamplesGetApplied`,
`EventSettles`, `Converges`). Every safety property that a passing run checks is
proved as well.

## Not modelled

- The content of messages, payloads and contexts; logging and analytics.
- Retry delays beyond "later" and "due"; the attempt counters, so that giving up
  after 100 attempts of a clean-up or after the retry window of a webhook may
  happen at any failure.
- Database errors in a step that nothing catches: for the rows they are a crash.
- Redis: what a poll reads is free in `AlertMonitor` and counted in
  `AlertEvaluator`.
- Billing: prices, trials, invoices, grace periods and the resolver that turns them
  into a plan; the switch of enforcement; retention of history; mails.
- Several issues per incident; the rule kind `job_failed`, which opens one
  incident per job, and the automatic resolution of those; Redis health rules;
  retention.

## Plan

1. *Done*: outbox, monitor, evaluator, clean-up, async queue; proofs of the outbox
   and of the queue.
2. *Done*: `DeliveryPromise` and `IncidentPromise`, and the proofs that the outbox and
   the monitor implement them; `Billing`; `Capacity`; the proofs of the monitor, of
   the evaluator, of the clean-up, of the inbox, of purchases and of capacity.
3. `AlertLifecycle`: the monitor composed with the outbox through an incident
   (`FindActive` resuming notification, clearing during delivery), with an
   abstract specification of an incident that joins `IncidentPromise` and
   `DeliveryPromise`.
4. The job-failed scan: the composite cursor, the cap per poll, automatic
   resolution, two rules that create an issue for one job at once.
5. `RedisConnection` (the cache of clients, in-flight dedupe, failure backoff, the
   late `end` event of a replaced client) and `TokenBucket`.

The order follows the risk: what users are told about incidents first, what
they pay second, what protects the API last.
