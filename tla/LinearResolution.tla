-------------------------- MODULE LinearResolution --------------------------
(***************************************************************************)
(* Closing the Linear issue of a job when the incidents linked to it are   *)
(* resolved, and deleting rules whose incidents await that.                *)
(*                                                                         *)
(* One issue serves every incident of the job.  Each resolved incident     *)
(* has an entry in an outbox (sync_pending and a 15-minute claim); the     *)
(* issue has a ledger row (linear_issue_resolution) with a claim of its    *)
(* own, the id of the comment announced and a completed mark; a new        *)
(* incident that links to the issue resets the ledger.  Workers of several *)
(* replicas share only these rows and Linear itself, and may die or        *)
(* outlive their claims between any two statements.                        *)
(*                                                                         *)
(* Retry delays are left out: a released claim may be tried at once.       *)
(***************************************************************************)
EXTENDS Naturals, FiniteSets

CONSTANTS
  Events,           \* incidents of the job
  First,            \* the incident the issue was created for
  Rules, RuleOf,    \* their rules
  Workers,          \* recovery workers and API requests that resolve
  NoOne, Lost,      \* a null claim token, and that of a dead worker
  MaxFaults,        \* bound: failures of Linear, deaths, outlived claims
  MaxOperations,    \* bound: changes of the issue by people
  OutliveLease      \* may a claim lapse while its holder still runs?

ASSUME ResolutionAssumption ==
  /\ First \in Events /\ RuleOf \in [Events -> Rules]
  /\ NoOne # Lost /\ {NoOne, Lost} \cap (Workers \cup Rules) = {}
  /\ {MaxFaults, MaxOperations} \subseteq Nat /\ OutliveLease \in BOOLEAN

VARIABLES
  incident,      \* alert_event.status; "none" before it fires, "gone" deleted
  delivery,      \* its Linear delivery; "linked": the link is written, the row not yet
  linked,        \* linear_job_issue_event
  syncPending, syncClaim, syncLapsed,   \* its entry in the outbox
  ruleState, deletionClaim, deletionLapsed,
  issue,         \* the state of the issue in Linear
  comments,      \* the comments Linear has, by id
  ledger,        \* linear_issue_resolution
  pc,            \* the step of each worker
  duty,          \* the rule it is deleting, or NoOne
  batch,         \* the incidents it set out to synchronise
  held,          \* those it claimed and has not ended
  seen, comment, \* the state and the comment id it read
  outcome,       \* how the issue's synchronisation went
  failed,        \* was some incident put back?
  ids,           \* comment ids handed out
  abandoned, reopened, canceled, epoch,  \* history
  faults, operations                     \* used up bounds

incidents == <<incident, delivery, linked>>
outbox    == <<syncPending, syncClaim, syncLapsed, abandoned>>
rules     == <<ruleState, deletionClaim, deletionLapsed>>
external  == <<issue, comments, reopened, canceled>>
record    == <<ledger, ids, epoch>>
work      == <<duty, batch, held, seen, comment, outcome, failed>>
budgets   == <<faults, operations>>
vars == <<incidents, outbox, rules, external, record, pc, work, budgets>>

InFlight == {"claimed", "linked"}
Tokens == Workers \cup {NoOne, Lost}
\* A comment id, a random UUID in the code, also tells when it was announced.
CommentIds == Nat \X Nat
NoComment == <<0, 0>>

TypeOK ==
  /\ incident \in [Events -> {"none", "firing", "resolved", "gone"}]
  /\ delivery \in [Events -> {"none", "delivered", "failed"} \cup InFlight]
  /\ linked \in SUBSET Events
  /\ syncPending \in [Events -> BOOLEAN] /\ syncLapsed \in [Events -> BOOLEAN]
  /\ syncClaim \in [Events -> Tokens]
  /\ ruleState \in [Rules -> {"live", "requested", "deleted"}]
  /\ deletionClaim \in [Rules -> Tokens] /\ deletionLapsed \in [Rules -> BOOLEAN]
  /\ issue \in {"open", "completed", "canceled"}
  /\ comments \in SUBSET (CommentIds \ {NoComment})
  /\ ledger \in [claim : Tokens, lapsed : BOOLEAN, comment : CommentIds, completed : BOOLEAN]
  /\ pc \in [Workers -> {"idle", "drain", "claim", "collect", "issue", "peers", "status",
                         "findComment", "prepare", "update", "post", "complete", "release",
                         "end", "done", "remaining", "delete"}]
  /\ duty \in [Workers -> Rules \cup {NoOne}]
  /\ batch \in [Workers -> SUBSET Events] /\ held \in [Workers -> SUBSET Events]
  /\ seen \in [Workers -> {"open", "completed", "canceled"}]
  /\ comment \in [Workers -> CommentIds]
  /\ outcome \in [Workers -> {"ok", "retry", "permanent"}]
  /\ failed \in [Workers -> BOOLEAN]
  /\ {ids, epoch, faults, operations} \subseteq Nat
  /\ {abandoned, reopened, canceled} \subseteq BOOLEAN

FreshLedger ==
  [claim |-> NoOne, lapsed |-> FALSE, comment |-> NoComment, completed |-> FALSE]

Init ==
  /\ incident = [e \in Events |-> IF e = First THEN "firing" ELSE "none"]
  /\ delivery = [e \in Events |-> IF e = First THEN "delivered" ELSE "none"]
  /\ linked = {First}
  /\ syncPending = [e \in Events |-> FALSE] /\ syncLapsed = [e \in Events |-> FALSE]
  /\ syncClaim = [e \in Events |-> NoOne]
  /\ ruleState = [r \in Rules |-> "live"]
  /\ deletionClaim = [r \in Rules |-> NoOne] /\ deletionLapsed = [r \in Rules |-> FALSE]
  /\ issue = "open" /\ comments = {}
  /\ ledger = FreshLedger
  /\ pc = [w \in Workers |-> "idle"] /\ duty = [w \in Workers |-> NoOne]
  /\ batch = [w \in Workers |-> {}] /\ held = [w \in Workers |-> {}]
  /\ seen = [w \in Workers |-> "open"] /\ comment = [w \in Workers |-> NoComment]
  /\ outcome = [w \in Workers |-> "ok"] /\ failed = [w \in Workers |-> FALSE]
  /\ ids = 0 /\ epoch = 1
  /\ abandoned = FALSE /\ reopened = FALSE /\ canceled = FALSE
  /\ faults = 0 /\ operations = 0

Fault == faults < MaxFaults /\ faults' = faults + 1

-----------------------------------------------------------------------------
(* Incidents and their deliveries *)

Fire(e) ==
  /\ incident[e] = "none" /\ ruleState[RuleOf[e]] = "live"
  /\ incident' = [incident EXCEPT ![e] = "firing"]
  /\ delivery' = [delivery EXCEPT ![e] = "claimed"]
  /\ UNCHANGED <<linked, outbox, rules, external, record, pc, work, budgets>>

\* createOrGet for the job's existing issue: a new link starts the ledger over,
\* a replayed one leaves it alone.
LinkIssue(e) ==
  /\ delivery[e] = "claimed"
  /\ delivery' = [delivery EXCEPT ![e] = "linked"]
  /\ linked' = linked \cup {e}
  /\ IF e \in linked THEN UNCHANGED <<ledger, epoch, reopened>>
     ELSE ledger' = FreshLedger /\ epoch' = epoch + 1 /\ reopened' = FALSE
  /\ UNCHANGED <<incident, outbox, rules, issue, comments, canceled, ids, pc, work, budgets>>

Queue(es) ==
  /\ syncPending' = [e \in Events |-> e \in es \/ syncPending[e]]
  /\ syncClaim' = [e \in Events |-> IF e \in es THEN NoOne ELSE syncClaim[e]]
  /\ syncLapsed' = [e \in Events |-> e \notin es /\ syncLapsed[e]]

\* markDelivered queues the clean-up again if the incident was resolved.
Deliver(e) ==
  /\ delivery[e] = "linked"
  /\ delivery' = [delivery EXCEPT ![e] = "delivered"]
  /\ Queue(IF incident[e] = "resolved" THEN {e} ELSE {})
  /\ UNCHANGED <<incident, linked, abandoned, rules, external, record, pc, work, budgets>>

\* The delivery's worker dies and its lapsed row is failed, or the delivery
\* fails; a link it wrote stays.
DeliveryFails(e) ==
  /\ delivery[e] \in InFlight /\ Fault
  /\ delivery' = [delivery EXCEPT ![e] = "failed"]
  /\ UNCHANGED <<incident, linked, outbox, rules, external, record, pc, work, operations>>

RetryDelivery(e) ==
  /\ delivery[e] = "failed" /\ incident[e] = "firing"
  /\ delivery' = [delivery EXCEPT ![e] = "claimed"]
  /\ UNCHANGED <<incident, linked, outbox, rules, external, record, pc, work, budgets>>

ResolveAll(es) ==
  LET hit == {e \in es : incident[e] = "firing"}
  IN /\ incident' = [e \in Events |-> IF e \in hit THEN "resolved" ELSE incident[e]]
     /\ Queue(hit)
     /\ UNCHANGED abandoned

Resolve(e) ==
  /\ incident[e] = "firing"
  /\ ResolveAll({e})
  /\ UNCHANGED <<delivery, linked, rules, external, record, pc, work, budgets>>

RequestRuleDeletion(r) ==
  /\ ruleState[r] = "live"
  /\ ruleState' = [ruleState EXCEPT ![r] = "requested"]
  /\ ResolveAll({e \in Events : RuleOf[e] = r})
  /\ UNCHANGED <<delivery, linked, deletionClaim, deletionLapsed, external, record, pc, work,
                 budgets>>

-----------------------------------------------------------------------------
(* syncLinearIssuesForResolvedEvents *)

Goto(w, step) == pc' = [pc EXCEPT ![w] = step]

\* A worker's locals go out of scope.
Forget(w) ==
  /\ batch' = [batch EXCEPT ![w] = {}]
  /\ seen' = [seen EXCEPT ![w] = "open"]
  /\ comment' = [comment EXCEPT ![w] = NoComment]
  /\ outcome' = [outcome EXCEPT ![w] = "ok"]
  /\ failed' = [failed EXCEPT ![w] = FALSE]

Free(token, lapsed) == token = NoOne \/ lapsed

Due(e) ==
  incident[e] = "resolved" /\ syncPending[e] /\ Free(syncClaim[e], syncLapsed[e])

\* The recovery worker, or the request that resolved the incidents.
SelectBatch(w, es) ==
  /\ pc[w] = "idle"
  /\ es # {} /\ es \subseteq {e \in Events : Due(e)}
  /\ batch' = [batch EXCEPT ![w] = es]
  /\ duty' = [duty EXCEPT ![w] = NoOne]
  /\ Goto(w, "claim")
  /\ UNCHANGED <<incidents, outbox, rules, external, record, held, seen, comment, outcome,
                 failed, budgets>>

\* claimLinearResolutionSync for each; what another worker took is put back.
ClaimEvents(w) ==
  /\ pc[w] = "claim"
  /\ LET mine == {e \in batch[w] : Due(e)}
     IN /\ syncClaim' = [e \in Events |-> IF e \in mine THEN w ELSE syncClaim[e]]
        /\ syncLapsed' = [e \in Events |-> e \notin mine /\ syncLapsed[e]]
        /\ held' = [held EXCEPT ![w] = mine]
        /\ failed' = [failed EXCEPT ![w] = mine # batch[w]]
        /\ Goto(w, IF mine = {} THEN "done" ELSE "collect")
  /\ UNCHANGED <<incidents, syncPending, abandoned, rules, external, record, duty, batch, seen,
                 comment, outcome, budgets>>

\* clearLinearResolutionSyncPending for the incidents of clear and
\* releaseLinearResolutionSyncClaims for those of put, where w still holds them.
EndClaims(w, clear, put) ==
  LET mine == {e \in clear \cup put : syncClaim[e] = w}
  IN /\ syncPending' = [e \in Events |-> syncPending[e] /\ e \notin mine \cap clear]
     /\ syncClaim' = [e \in Events |-> IF e \in mine THEN NoOne ELSE syncClaim[e]]
     /\ syncLapsed' = [e \in Events |-> e \notin mine /\ syncLapsed[e]]
     /\ held' = [held EXCEPT ![w] = @ \ (clear \cup put)]

\* collectLinearIssueRefs: an incident with a delivery in flight waits, one
\* without a link is done.
CollectRefs(w) ==
  /\ pc[w] = "collect"
  /\ LET wait == {e \in held[w] : delivery[e] \in InFlight}
         none == {e \in held[w] \ wait : e \notin linked}
     IN /\ EndClaims(w, none, wait)
        /\ failed' = [failed EXCEPT ![w] = @ \/ wait # {}]
        /\ Goto(w, IF held[w] = wait \cup none THEN "done" ELSE "issue")
  /\ UNCHANGED <<incidents, abandoned, rules, external, record, duty, batch, seen, comment,
                 outcome, budgets>>

Ends(w, how) == outcome' = [outcome EXCEPT ![w] = how]

\* Fault variant: a lapsed claim of the issue is not taken over.
ClaimIssue_NoTakeOver(w) ==
  /\ pc[w] = "issue"
  /\ IF ledger.completed \/ ledger.claim # NoOne
     THEN /\ Ends(w, IF ledger.completed THEN "ok" ELSE "retry")
          /\ Goto(w, "end") /\ UNCHANGED ledger
     ELSE /\ ledger' = [ledger EXCEPT !.claim = w, !.lapsed = FALSE]
          /\ Goto(w, "peers") /\ UNCHANGED outcome
  /\ UNCHANGED <<incidents, outbox, rules, external, ids, epoch, duty, batch, held, seen,
                 comment, failed, budgets>>

\* linearIssueResolutionRepository.claim
ClaimIssue(w) ==
  /\ pc[w] = "issue"
  /\ IF ledger.completed
     THEN Ends(w, "ok") /\ Goto(w, "end") /\ UNCHANGED ledger
     ELSE IF Free(ledger.claim, ledger.lapsed)
     THEN /\ ledger' = [ledger EXCEPT !.claim = w, !.lapsed = FALSE]
          /\ Goto(w, "peers") /\ UNCHANGED outcome
     ELSE Ends(w, "retry") /\ Goto(w, "end") /\ UNCHANGED ledger
  /\ UNCHANGED <<incidents, outbox, rules, external, ids, epoch, duty, batch, held, seen,
                 comment, failed, budgets>>

\* Fault variant: an issue kept open for a peer is recorded as completed.
CheckPeers_Completes(w) ==
  /\ pc[w] = "peers"
  /\ Goto(w, IF \E e \in linked \ batch[w] : incident[e] = "firing" THEN "complete" ELSE "status")
  /\ UNCHANGED <<incidents, outbox, rules, external, record, work, budgets>>

\* hasOtherFiringEvents
CheckPeers(w) ==
  /\ pc[w] = "peers"
  /\ IF \E e \in linked \ batch[w] : incident[e] = "firing"
     THEN Ends(w, "ok") /\ Goto(w, "release")
     ELSE UNCHANGED outcome /\ Goto(w, "status")
  /\ UNCHANGED <<incidents, outbox, rules, external, record, duty, batch, held, seen, comment,
                 failed, budgets>>

FetchStatus(w) ==
  /\ pc[w] = "status"
  /\ seen' = [seen EXCEPT ![w] = issue]
  /\ Goto(w, IF issue = "canceled" THEN "complete" ELSE "findComment")
  /\ UNCHANGED <<incidents, outbox, rules, external, record, duty, batch, held, comment, outcome,
                 failed, budgets>>

\* Fault variants: the announced comment is not looked for; one is always posted.
FindComment_NoResume(w) ==
  /\ pc[w] = "findComment"
  /\ Goto(w, IF seen[w] # "completed" THEN "prepare" ELSE "complete")
  /\ UNCHANGED <<incidents, outbox, rules, external, record, work, budgets>>

FindComment_AlwaysPost(w) ==
  /\ pc[w] = "findComment"
  /\ comment' = [comment EXCEPT ![w] = IF ledger.claim = w THEN ledger.comment ELSE NoComment]
  /\ Goto(w, IF seen[w] # "completed" THEN "prepare" ELSE "post")
  /\ UNCHANGED <<incidents, outbox, rules, external, record, duty, batch, held, seen, outcome,
                 failed, budgets>>

\* A completed issue gets its comment only if the ledger announced one.
FindComment(w) ==
  /\ pc[w] = "findComment"
  /\ LET found == IF ledger.claim = w THEN ledger.comment ELSE NoComment
     IN /\ comment' = [comment EXCEPT ![w] = found]
        /\ Goto(w, IF seen[w] # "completed" THEN "prepare"
                   ELSE IF found = NoComment THEN "complete" ELSE "post")
  /\ UNCHANGED <<incidents, outbox, rules, external, record, duty, batch, held, seen, outcome,
                 failed, budgets>>

\* Fault variant: every attempt announces a comment of its own.
PrepareComment_Fresh(w) ==
  /\ pc[w] = "prepare"
  /\ ledger' = [ledger EXCEPT !.comment = <<epoch, ids + 1>>]
  /\ ids' = ids + 1
  /\ comment' = [comment EXCEPT ![w] = <<epoch, ids + 1>>]
  /\ Goto(w, "update")
  /\ UNCHANGED <<incidents, outbox, rules, external, epoch, duty, batch, held, seen, outcome,
                 failed, budgets>>

\* prepareComment keeps an id announced before.
PrepareComment(w) ==
  /\ pc[w] = "prepare"
  /\ LET id == IF ledger.comment # NoComment THEN ledger.comment ELSE <<epoch, ids + 1>>
     IN IF ledger.claim = w
        THEN /\ ledger' = [ledger EXCEPT !.comment = id]
             /\ ids' = IF ledger.comment # NoComment THEN ids ELSE ids + 1
             /\ comment' = [comment EXCEPT ![w] = id]
             /\ Goto(w, "update") /\ UNCHANGED outcome
        ELSE Ends(w, "retry") /\ Goto(w, "release") /\ UNCHANGED <<ledger, ids, comment>>
  /\ UNCHANGED <<incidents, outbox, rules, external, epoch, duty, batch, held, seen, failed,
                 budgets>>

UpdateState(w) ==
  /\ pc[w] = "update"
  /\ issue' = "completed"
  /\ Goto(w, "post")
  /\ UNCHANGED <<incidents, outbox, rules, comments, reopened, canceled, record, work, budgets>>

PostComment(w) ==
  /\ pc[w] = "post"
  /\ comments' = comments \cup {comment[w]}
  /\ Goto(w, "complete")
  /\ UNCHANGED <<incidents, outbox, rules, issue, reopened, canceled, record, work, budgets>>

\* A call to Linear fails, before or after it took effect.
LinearFails(w) ==
  /\ pc[w] \in {"status", "update", "post"} /\ Fault
  /\ issue' \in {issue, IF pc[w] = "update" THEN "completed" ELSE issue}
  /\ comments' \in {comments, IF pc[w] = "post" THEN comments \cup {comment[w]} ELSE comments}
  /\ \E how \in {"retry", "permanent"} : Ends(w, how)
  /\ Goto(w, "release")
  /\ UNCHANGED <<incidents, outbox, rules, reopened, canceled, record, duty, batch, held, seen,
                 comment, failed, operations>>

\* markCompleted; a lost claim is an error.
MarkCompleted(w) ==
  /\ pc[w] = "complete"
  /\ IF ledger.claim = w
     THEN /\ ledger' = [ledger EXCEPT !.claim = NoOne, !.lapsed = FALSE, !.completed = TRUE]
          /\ Ends(w, "ok") /\ Goto(w, "end")
     ELSE UNCHANGED ledger /\ Ends(w, "retry") /\ Goto(w, "release")
  /\ UNCHANGED <<incidents, outbox, rules, external, ids, epoch, duty, batch, held, seen,
                 comment, failed, budgets>>

ReleaseIssue(w) ==
  /\ pc[w] = "release"
  /\ ledger' = IF ledger.claim = w THEN [ledger EXCEPT !.claim = NoOne, !.lapsed = FALSE]
               ELSE ledger
  /\ Goto(w, "end")
  /\ UNCHANGED <<incidents, outbox, rules, external, ids, epoch, work, budgets>>

\* Clear, put back, or after a permanent failure abandon the incidents.
EndSync(w) ==
  /\ pc[w] = "end"
  /\ CASE outcome[w] = "ok"        -> EndClaims(w, held[w], {}) /\ UNCHANGED <<abandoned, failed>>
       [] outcome[w] = "retry"     -> /\ EndClaims(w, {}, held[w]) /\ UNCHANGED abandoned
                                      /\ failed' = [failed EXCEPT ![w] = TRUE]
       [] outcome[w] = "permanent" -> /\ EndClaims(w, held[w], {}) /\ UNCHANGED failed
                                      /\ abandoned' = TRUE
  /\ Goto(w, "done")
  /\ UNCHANGED <<incidents, rules, external, record, duty, batch, seen, comment, outcome, budgets>>

-----------------------------------------------------------------------------
(* finalizePendingAlertRuleDeletion *)

OfRule(r) == {e \in Events : RuleOf[e] = r}
PendingOf(r) == {e \in OfRule(r) : incident[e] = "resolved" /\ syncPending[e]}

\* Fault variant: a lapsed claim of the rule is not taken over.
ClaimDeletion_NoTakeOver(w, r) ==
  /\ pc[w] = "idle"
  /\ ruleState[r] = "requested" /\ deletionClaim[r] = NoOne
  /\ deletionClaim' = [deletionClaim EXCEPT ![r] = w]
  /\ duty' = [duty EXCEPT ![w] = r]
  /\ Goto(w, "drain")
  /\ UNCHANGED <<incidents, outbox, ruleState, deletionLapsed, external, record, batch, held,
                 seen, comment, outcome, failed, budgets>>

\* claimDeletionRequested
ClaimDeletion(w, r) ==
  /\ pc[w] = "idle"
  /\ ruleState[r] = "requested" /\ Free(deletionClaim[r], deletionLapsed[r])
  /\ deletionClaim' = [deletionClaim EXCEPT ![r] = w]
  /\ deletionLapsed' = [deletionLapsed EXCEPT ![r] = FALSE]
  /\ duty' = [duty EXCEPT ![w] = r]
  /\ Goto(w, "drain")
  /\ UNCHANGED <<incidents, outbox, ruleState, external, record, batch, held, seen, comment,
                 outcome, failed, budgets>>

DrainRule(w) ==
  /\ pc[w] = "drain"
  /\ batch' = [batch EXCEPT ![w] = PendingOf(duty[w])]
  /\ Goto(w, IF PendingOf(duty[w]) = {} THEN "remaining" ELSE "claim")
  /\ UNCHANGED <<incidents, outbox, rules, external, record, duty, held, seen, comment, outcome,
                 failed, budgets>>

\* releaseDeletionClaim
ReleaseDeletion(w) ==
  IF deletionClaim[duty[w]] = w
  THEN /\ deletionClaim' = [deletionClaim EXCEPT ![duty[w]] = NoOne]
       /\ deletionLapsed' = [deletionLapsed EXCEPT ![duty[w]] = FALSE]
  ELSE UNCHANGED <<deletionClaim, deletionLapsed>>

EndBatch(w) ==
  /\ pc[w] = "done"
  /\ IF duty[w] = NoOne \/ failed[w]
     THEN /\ Goto(w, "idle")
          /\ IF duty[w] = NoOne THEN UNCHANGED <<deletionClaim, deletionLapsed>>
             ELSE ReleaseDeletion(w)
     ELSE Goto(w, "remaining") /\ UNCHANGED <<deletionClaim, deletionLapsed>>
  /\ Forget(w)
  /\ UNCHANGED <<incidents, outbox, ruleState, external, record, duty, held, budgets>>

CheckRemaining(w) ==
  /\ pc[w] = "remaining"
  /\ IF PendingOf(duty[w]) # {}
     THEN ReleaseDeletion(w) /\ Goto(w, "idle")
     ELSE UNCHANGED <<deletionClaim, deletionLapsed>> /\ Goto(w, "delete")
  /\ UNCHANGED <<incidents, outbox, ruleState, external, record, work, budgets>>

\* deleteIfDeletionRequested: the rule goes, and with it its incidents, their
\* deliveries and their links, unless one of them still has work to do.
DeleteRule(w) ==
  /\ pc[w] = "delete"
  /\ LET r == duty[w]
         busy == {e \in OfRule(r) : incident[e] = "firing" \/ syncPending[e]
                                      \/ delivery[e] \in InFlight}
     IN IF deletionClaim[r] = w /\ busy = {}
        THEN /\ ruleState' = [ruleState EXCEPT ![r] = "deleted"]
             /\ incident' = [e \in Events |-> IF e \in OfRule(r) THEN "gone" ELSE incident[e]]
             /\ delivery' = [e \in Events |-> IF e \in OfRule(r) THEN "none" ELSE delivery[e]]
             /\ linked' = linked \ OfRule(r)
             /\ deletionClaim' = [deletionClaim EXCEPT ![r] = NoOne]
             /\ deletionLapsed' = [deletionLapsed EXCEPT ![r] = FALSE]
        ELSE ReleaseDeletion(w) /\ UNCHANGED <<ruleState, incidents>>
  /\ Goto(w, "idle")
  /\ UNCHANGED <<outbox, external, record, work, budgets>>

-----------------------------------------------------------------------------
(* People, time and crashes *)

Operate(to) ==
  /\ operations < MaxOperations /\ operations' = operations + 1
  /\ issue # to /\ issue' = to
  /\ reopened' = (reopened \/ to = "open")
  /\ canceled' = (canceled \/ to = "canceled")
  /\ UNCHANGED <<incidents, outbox, rules, comments, record, pc, work, faults>>

Runs(token) == token \in Workers /\ pc[token] # "idle"
MayLapse(token) ==
  /\ token # NoOne
  /\ IF Runs(token) THEN OutliveLease /\ Fault ELSE UNCHANGED faults

SyncLapses(e) ==
  /\ ~syncLapsed[e] /\ MayLapse(syncClaim[e])
  /\ syncLapsed' = [syncLapsed EXCEPT ![e] = TRUE]
  /\ UNCHANGED <<incidents, syncPending, syncClaim, abandoned, rules, external, record, pc, work,
                 operations>>

LedgerLapses ==
  /\ ~ledger.lapsed /\ MayLapse(ledger.claim)
  /\ ledger' = [ledger EXCEPT !.lapsed = TRUE]
  /\ UNCHANGED <<incidents, outbox, rules, external, ids, epoch, pc, work, operations>>

DeletionLapses(r) ==
  /\ ~deletionLapsed[r] /\ MayLapse(deletionClaim[r])
  /\ deletionLapsed' = [deletionLapsed EXCEPT ![r] = TRUE]
  /\ UNCHANGED <<incidents, outbox, ruleState, deletionClaim, external, record, pc, work,
                 operations>>

\* The process dies; its claims stay, under a token nobody holds.
Crash(w) ==
  /\ pc[w] # "idle" /\ Fault
  /\ syncClaim' = [e \in Events |-> IF syncClaim[e] = w THEN Lost ELSE syncClaim[e]]
  /\ deletionClaim' = [r \in Rules |-> IF deletionClaim[r] = w THEN Lost ELSE deletionClaim[r]]
  /\ ledger' = [ledger EXCEPT !.claim = IF @ = w THEN Lost ELSE @]
  /\ Goto(w, "idle")
  /\ Forget(w) /\ held' = [held EXCEPT ![w] = {}]
  /\ UNCHANGED <<incidents, syncPending, syncLapsed, abandoned, ruleState, deletionLapsed,
                 external, ids, epoch, duty, operations>>

-----------------------------------------------------------------------------

WorkerStep(w) ==
  \/ ClaimEvents(w) \/ CollectRefs(w) \/ ClaimIssue(w) \/ CheckPeers(w) \/ FetchStatus(w)
  \/ FindComment(w) \/ PrepareComment(w) \/ UpdateState(w) \/ PostComment(w)
  \/ MarkCompleted(w) \/ ReleaseIssue(w) \/ EndSync(w)
  \/ DrainRule(w) \/ EndBatch(w) \/ CheckRemaining(w) \/ DeleteRule(w)

Next ==
  \/ \E w \in Workers :
       \/ WorkerStep(w) \/ LinearFails(w) \/ Crash(w)
       \/ \E es \in SUBSET Events : SelectBatch(w, es)
       \/ \E r \in Rules : ClaimDeletion(w, r)
  \/ \E e \in Events :
       \/ Fire(e) \/ LinkIssue(e) \/ Deliver(e) \/ DeliveryFails(e) \/ RetryDelivery(e)
       \/ Resolve(e) \/ SyncLapses(e)
  \/ \E r \in Rules : RequestRuleDeletion(r) \/ DeletionLapses(r)
  \/ \E to \in {"open", "completed", "canceled"} : Operate(to)
  \/ LedgerLapses

Spec == Init /\ [][Next]_vars

\* The recovery timer keeps firing, so what is due again and again is taken; a
\* started delivery or clean-up goes on; abandoned claims lapse.
Fairness ==
  /\ \A w \in Workers : WF_vars(WorkerStep(w))
  /\ \A e \in Events :
       /\ SF_vars(\E w \in Workers, es \in SUBSET Events : e \in es /\ SelectBatch(w, es))
       /\ WF_vars(LinkIssue(e)) /\ WF_vars(Deliver(e))
       /\ WF_vars(~Runs(syncClaim[e]) /\ SyncLapses(e))
  /\ \A r \in Rules :
       /\ SF_vars(\E w \in Workers : ClaimDeletion(w, r))
       /\ WF_vars(~Runs(deletionClaim[r]) /\ DeletionLapses(r))
  /\ WF_vars(~Runs(ledger.claim) /\ LedgerLapses)

FairSpec == Spec /\ Fairness

-----------------------------------------------------------------------------
(* Properties *)

\* The clean-up is never lost: when no incident linked to the issue fires, is
\* queued or awaits its delivery, the issue is closed, whatever order the
\* incidents were resolved, linked and deleted in.  It may be open only if
\* Durabull gave up on record or a person opened it after the last link.
CleanupNotLost ==
  (\A e \in linked : incident[e] = "resolved" /\ ~syncPending[e] /\ delivery[e] \notin InFlight)
    => issue # "open" \/ abandoned \/ reopened

\* An issue whose clean-up is recorded as completed has the comment announced,
\* although the worker that closed it may have died before posting it.
CompletedHasComment ==
  ledger.completed /\ ledger.comment # NoComment => ledger.comment \in comments \/ canceled

\* Retries, crashes and take-overs never post a second comment: there is one
\* at most for each time an incident was linked.
OneCommentPerLink == \A c, d \in comments : c[1] = d[1] => c = d

\* Every queued clean-up ends, and every requested deletion is carried out.
CleanupFinishes == \A e \in Events : syncPending[e] ~> ~syncPending[e]
DeletionFinishes == \A r \in Rules : ruleState[r] = "requested" ~> ruleState[r] = "deleted"

\* linear.mdx: an issue shared by several job incidents "stays open while another
\* linked incident is firing".  (Refuted: an incident may link between the
\* check of its peers and the update of the issue.)
StaysOpenWhileFiring ==
  [][issue = "open" /\ issue' = "completed" /\ operations' = operations
       => \A e \in linked : incident[e] # "firing"]_vars
=============================================================================
