---------------------- MODULE LinearResolution_proofs ----------------------
(***************************************************************************)
(* Proofs about closing a shared issue, for any incidents, rules, workers, *)
(* faults and changes by people.                                           *)
(*                                                                         *)
(* Each property has an invariant of its own on top of the types (Typed)   *)
(* and of what a claim of the issue says about its holder (Ledgered):      *)
(* comment ids in use are unique, and those of the running link are the    *)
(* one the ledger announced (Numbered); whoever completes the issue has    *)
(* posted that one (Commented); whoever gets past the update has closed    *)
(* the issue (Closed); an incident some worker is about to end is resolved *)
(* and its delivery is over (Settled).  NotLost then says what keeps the   *)
(* issue from being forgotten: an incident that still fires, or one that   *)
(* is queued and that nobody is about to clear.                            *)
(***************************************************************************)
EXTENDS LinearResolution, TLAPS

-----------------------------------------------------------------------------
(* Types *)

\* A comment is posted under an id only.
Typed ==
  /\ TypeOK
  /\ \A w \in Workers : pc[w] \in {"update", "post"} => comment[w] # NoComment

Ledger == [claim : Tokens, lapsed : BOOLEAN, comment : CommentIds, completed : BOOLEAN]

LEMMA FreshType == FreshLedger \in Ledger /\ NoComment \in CommentIds
BY DEF FreshLedger, Ledger, Tokens, CommentIds, NoComment

LEMMA TypedInit == Init => Typed
<1> SUFFICES ASSUME Init PROVE Typed
  OBVIOUS
<1>1. ledger \in Ledger
  BY FreshType DEF Init
<1>2. \A w \in Workers : pc[w] = "idle"
  BY DEF Init
<1>3. /\ incident \in [Events -> {"none", "firing", "resolved", "gone"}]
      /\ delivery \in [Events -> {"none", "delivered", "failed"} \cup InFlight]
      /\ linked \in SUBSET Events
  BY ResolutionAssumption DEF Init
<1>4. /\ syncPending \in [Events -> BOOLEAN] /\ syncLapsed \in [Events -> BOOLEAN]
      /\ syncClaim \in [Events -> Tokens]
      /\ ruleState \in [Rules -> {"live", "requested", "deleted"}]
      /\ deletionClaim \in [Rules -> Tokens] /\ deletionLapsed \in [Rules -> BOOLEAN]
  BY DEF Init, Tokens
<1>5. /\ duty \in [Workers -> Rules \cup {NoOne}]
      /\ batch \in [Workers -> SUBSET Events] /\ held \in [Workers -> SUBSET Events]
      /\ seen \in [Workers -> {"open", "completed", "canceled"}]
      /\ comment \in [Workers -> CommentIds]
      /\ outcome \in [Workers -> {"ok", "retry", "permanent"}]
      /\ failed \in [Workers -> BOOLEAN]
  BY FreshType DEF Init
<1>6. /\ issue \in {"open", "completed", "canceled"} /\ comments \in SUBSET (CommentIds \ {NoComment})
      /\ {ids, epoch, faults, operations} \subseteq Nat
      /\ {abandoned, reopened, canceled} \subseteq BOOLEAN
      /\ pc = [w \in Workers |-> "idle"]
  <2>1. ids \in Nat /\ epoch \in Nat /\ faults \in Nat /\ operations \in Nat
    BY DEF Init
  <2> QED BY <2>1 DEF Init
<1> QED BY <1>1, <1>2, <1>3, <1>4, <1>5, <1>6 DEF Typed, TypeOK, Ledger

\* The ways a step changes the ledger, field by field.
LedgerIs(claim, lapsed, id, completed) ==
  ledger' = [claim |-> claim, lapsed |-> lapsed, comment |-> id, completed |-> completed]

LEMMA LedgerTyped ==
  ASSUME NEW claim \in Tokens, NEW lapsed \in BOOLEAN, NEW id \in CommentIds,
         NEW completed \in BOOLEAN, LedgerIs(claim, lapsed, id, completed)
  PROVE  ledger' \in Ledger
BY DEF LedgerIs, Ledger

LEMMA LedgerFields ==
  ASSUME TypeOK, NEW w \in Workers
  PROVE  /\ ClaimIssue(w) /\ ~ledger.completed /\ Free(ledger.claim, ledger.lapsed)
              => LedgerIs(w, FALSE, ledger.comment, ledger.completed)
         /\ ClaimIssue(w) /\ ~(~ledger.completed /\ Free(ledger.claim, ledger.lapsed))
              => ledger' = ledger
         /\ PrepareComment(w) /\ ledger.claim = w
              => LedgerIs(w, ledger.lapsed, comment'[w], ledger.completed)
         /\ PrepareComment(w) /\ ledger.claim # w => ledger' = ledger
         /\ MarkCompleted(w) /\ ledger.claim = w => LedgerIs(NoOne, FALSE, ledger.comment, TRUE)
         /\ MarkCompleted(w) /\ ledger.claim # w => ledger' = ledger
         /\ ReleaseIssue(w) /\ ledger.claim = w
              => LedgerIs(NoOne, FALSE, ledger.comment, ledger.completed)
         /\ ReleaseIssue(w) /\ ledger.claim # w => ledger' = ledger
         /\ Crash(w) /\ ledger.claim = w
              => LedgerIs(Lost, ledger.lapsed, ledger.comment, ledger.completed)
         /\ Crash(w) /\ ledger.claim # w => ledger' = ledger
<1>1. ledger \in Ledger
  BY DEF TypeOK, Ledger
<1>2. comment \in [Workers -> CommentIds]
  BY DEF TypeOK
<1>3. ASSUME ClaimIssue(w), ~ledger.completed /\ Free(ledger.claim, ledger.lapsed)
      PROVE  LedgerIs(w, FALSE, ledger.comment, ledger.completed)
  BY <1>1, <1>3 DEF ClaimIssue, Ledger, LedgerIs
<1>4. ASSUME ClaimIssue(w), ~(~ledger.completed /\ Free(ledger.claim, ledger.lapsed))
      PROVE  ledger' = ledger
  BY <1>4 DEF ClaimIssue
<1>5. ASSUME PrepareComment(w), ledger.claim = w
      PROVE  LedgerIs(w, ledger.lapsed, comment'[w], ledger.completed)
  BY <1>1, <1>2, <1>5 DEF PrepareComment, Ledger, LedgerIs
<1>6. ASSUME MarkCompleted(w), ledger.claim = w PROVE LedgerIs(NoOne, FALSE, ledger.comment, TRUE)
  BY <1>1, <1>6 DEF MarkCompleted, Ledger, LedgerIs
<1>7. ASSUME ReleaseIssue(w), ledger.claim = w
      PROVE  LedgerIs(NoOne, FALSE, ledger.comment, ledger.completed)
  BY <1>1, <1>7 DEF ReleaseIssue, Ledger, LedgerIs
<1>8. ASSUME Crash(w), ledger.claim = w
      PROVE  LedgerIs(Lost, ledger.lapsed, ledger.comment, ledger.completed)
  BY <1>1, <1>8 DEF Crash, Ledger, LedgerIs
<1>9. ASSUME Crash(w), ledger.claim # w PROVE ledger' = ledger
  BY <1>1, <1>9 DEF Crash, Ledger
<1>10. /\ PrepareComment(w) /\ ledger.claim # w => ledger' = ledger
       /\ MarkCompleted(w) /\ ledger.claim # w => ledger' = ledger
       /\ ReleaseIssue(w) /\ ledger.claim # w => ledger' = ledger
  BY DEF PrepareComment, MarkCompleted, ReleaseIssue
<1> QED BY <1>3, <1>4, <1>5, <1>6, <1>7, <1>8, <1>9, <1>10

LEMMA LapseFields ==
  ASSUME TypeOK, LedgerLapses
  PROVE  LedgerIs(ledger.claim, TRUE, ledger.comment, ledger.completed)
BY DEF LedgerLapses, TypeOK, LedgerIs

\* The comment id a worker announces.
LEMMA Announces ==
  ASSUME TypeOK, NEW w \in Workers, PrepareComment(w), ledger.claim = w
  PROVE  /\ comment'[w] = IF ledger.comment # NoComment THEN ledger.comment ELSE <<epoch, ids + 1>>
         /\ comment' = [comment EXCEPT ![w] = comment'[w]]
         /\ comment'[w] \in CommentIds \ {NoComment}
         /\ ids' \in Nat
<1>1. epoch \in Nat /\ ids \in Nat /\ ledger.comment \in CommentIds
  BY DEF TypeOK
<1>2. comment'[w] = IF ledger.comment # NoComment THEN ledger.comment ELSE <<epoch, ids + 1>>
  BY DEF PrepareComment, TypeOK
<1>3. <<epoch, ids + 1>> \in CommentIds \ {NoComment}
  BY <1>1 DEF CommentIds, NoComment
<1> QED BY <1>1, <1>2, <1>3 DEF PrepareComment, TypeOK

LEMMA EndTypes ==
  ASSUME TypeOK, NEW w \in Workers, NEW clear, NEW put, EndClaims(w, clear, put)
  PROVE  /\ syncPending' \in [Events -> BOOLEAN] /\ syncLapsed' \in [Events -> BOOLEAN]
         /\ syncClaim' \in [Events -> Tokens] /\ held' \in [Workers -> SUBSET Events]
BY DEF EndClaims, TypeOK, Tokens

LEMMA ReleaseTypes ==
  ASSUME TypeOK, NEW w \in Workers, ReleaseDeletion(w)
  PROVE  deletionClaim' \in [Rules -> Tokens] /\ deletionLapsed' \in [Rules -> BOOLEAN]
BY DEF ReleaseDeletion, TypeOK, Tokens

LEMMA TypedStep == Typed /\ [Next]_vars => Typed'
<1> SUFFICES ASSUME Typed, [Next]_vars PROVE Typed'
  OBVIOUS
<1> USE ResolutionAssumption DEF Typed, TypeOK, Tokens
<1>1. ASSUME NEW w \in Workers, ClaimEvents(w) PROVE Typed'
  BY <1>1 DEF ClaimEvents, Goto, Due, incidents, rules, external, record, budgets
<1>2. ASSUME NEW w \in Workers, CollectRefs(w) PROVE Typed'
  BY <1>2 DEF CollectRefs, EndClaims, Goto, incidents, rules, external, record, budgets
<1>3. ASSUME NEW w \in Workers, ClaimIssue(w) PROVE Typed'
  <2>1. ledger' \in Ledger
    <3>1. CASE ~ledger.completed /\ Free(ledger.claim, ledger.lapsed)
      <4>1. ledger.comment \in CommentIds /\ ledger.completed \in BOOLEAN /\ w \in Tokens
        OBVIOUS
      <4>2. LedgerIs(w, FALSE, ledger.comment, ledger.completed)
        BY <1>3, <3>1, LedgerFields
      <4> QED BY <4>1, <4>2 DEF LedgerIs, Ledger
    <3>2. CASE ~(~ledger.completed /\ Free(ledger.claim, ledger.lapsed))
      BY <1>3, <3>2, LedgerFields DEF Ledger
    <3> QED BY <3>1, <3>2
  <2>2. /\ pc' = [pc EXCEPT ![w] = "end"] \/ pc' = [pc EXCEPT ![w] = "peers"]
        /\ outcome' \in [Workers -> {"ok", "retry", "permanent"}]
    BY <1>3 DEF ClaimIssue, Ends, Goto
  <2> QED BY <1>3, <2>1, <2>2 DEF ClaimIssue, Ledger, incidents, outbox, rules, external, budgets
<1>4. ASSUME NEW w \in Workers, CheckPeers(w) PROVE Typed'
  BY <1>4 DEF CheckPeers, Ends, Goto, incidents, outbox, rules, external, record, budgets
<1>5. ASSUME NEW w \in Workers, FetchStatus(w) PROVE Typed'
  BY <1>5 DEF FetchStatus, Goto, incidents, outbox, rules, external, record, budgets
<1>6. ASSUME NEW w \in Workers, FindComment(w) PROVE Typed'
  BY <1>6 DEF FindComment, Goto, incidents, outbox, rules, external, record, budgets, CommentIds, NoComment
<1>7. ASSUME NEW w \in Workers, PrepareComment(w) PROVE Typed'
  <2>1. ledger' \in Ledger /\ comment' \in [Workers -> CommentIds] /\ ids' \in Nat
        /\ (comment[w] # comment'[w] \/ ledger.claim = w => comment'[w] # NoComment)
    <3>1. CASE ledger.claim = w
      BY <1>7, <3>1, LedgerFields, Announces DEF LedgerIs, Ledger
    <3>2. CASE ledger.claim # w
      BY <1>7, <3>2 DEF PrepareComment, Ledger
    <3> QED BY <3>1, <3>2
  <2> QED BY <1>7, <2>1 DEF PrepareComment, Ends, Goto, Ledger, incidents, outbox, rules, external, budgets
<1>8. ASSUME NEW w \in Workers, UpdateState(w) PROVE Typed'
  BY <1>8 DEF UpdateState, Goto, incidents, outbox, rules, record, work, budgets
<1>9. ASSUME NEW w \in Workers, PostComment(w) PROVE Typed'
  BY <1>9 DEF PostComment, Goto, incidents, outbox, rules, record, work, budgets
<1>10. ASSUME NEW w \in Workers, MarkCompleted(w) PROVE Typed'
  <2>1. ledger' \in Ledger
    <3>1. CASE ledger.claim = w
      BY <1>10, <3>1, LedgerFields, LedgerTyped
    <3>2. CASE ledger.claim # w
      BY <1>10, <3>2, LedgerFields DEF Ledger
    <3> QED BY <3>1, <3>2
  <2> QED BY <1>10, <2>1 DEF MarkCompleted, Ends, Goto, Ledger, incidents, outbox, rules, external, budgets
<1>11. ASSUME NEW w \in Workers, ReleaseIssue(w) PROVE Typed'
  BY <1>11 DEF ReleaseIssue, Goto, incidents, outbox, rules, external, work, budgets
<1>12. ASSUME NEW w \in Workers, EndSync(w) PROVE Typed'
  <2>1. /\ syncPending' \in [Events -> BOOLEAN] /\ syncLapsed' \in [Events -> BOOLEAN]
        /\ syncClaim' \in [Events -> Tokens] /\ held' \in [Workers -> SUBSET Events]
    BY <1>12, EndTypes DEF EndSync
  <2>2. failed' \in [Workers -> BOOLEAN] /\ abandoned' \in BOOLEAN
    BY <1>12 DEF EndSync
  <2> QED BY <1>12, <2>1, <2>2 DEF EndSync, Goto, incidents, rules, external, record, budgets
<1>13. ASSUME NEW w \in Workers, DrainRule(w) PROVE Typed'
  BY <1>13 DEF DrainRule, PendingOf, OfRule, Goto, incidents, outbox, rules, external, record, budgets
<1>14. ASSUME NEW w \in Workers, EndBatch(w) PROVE Typed'
  <2>1. deletionClaim' \in [Rules -> Tokens] /\ deletionLapsed' \in [Rules -> BOOLEAN]
    BY <1>14, ReleaseTypes DEF EndBatch
  <2>2. pc' = [pc EXCEPT ![w] = "idle"] \/ pc' = [pc EXCEPT ![w] = "remaining"]
    BY <1>14 DEF EndBatch, Goto
  <2> QED BY <1>14, <2>1, <2>2, FreshType DEF EndBatch, Forget, incidents, outbox, external, record, budgets
<1>15. ASSUME NEW w \in Workers, CheckRemaining(w) PROVE Typed'
  <2>1. deletionClaim' \in [Rules -> Tokens] /\ deletionLapsed' \in [Rules -> BOOLEAN]
    BY <1>15, ReleaseTypes DEF CheckRemaining
  <2>2. pc' = [pc EXCEPT ![w] = "idle"] \/ pc' = [pc EXCEPT ![w] = "delete"]
    BY <1>15 DEF CheckRemaining, Goto
  <2> QED BY <1>15, <2>1, <2>2 DEF CheckRemaining, incidents, outbox, external, record, work, budgets
<1>16. ASSUME NEW w \in Workers, DeleteRule(w) PROVE Typed'
  <2>1. deletionClaim' \in [Rules -> Tokens] /\ deletionLapsed' \in [Rules -> BOOLEAN]
    BY <1>16, ReleaseTypes DEF DeleteRule
  <2>2. /\ ruleState' \in [Rules -> {"live", "requested", "deleted"}]
        /\ incident' \in [Events -> {"none", "firing", "resolved", "gone"}]
        /\ delivery' \in [Events -> {"none", "delivered", "failed"} \cup InFlight]
        /\ linked' \in SUBSET Events
    BY <1>16 DEF DeleteRule, incidents
  <2> QED BY <1>16, <2>1, <2>2 DEF DeleteRule, Goto, outbox, external, record, work, budgets
<1>17. ASSUME NEW w \in Workers, LinearFails(w) PROVE Typed'
  BY <1>17 DEF LinearFails, Fault, Ends, Goto, incidents, outbox, rules, record
<1>18. ASSUME NEW w \in Workers, Crash(w) PROVE Typed'
  <2>1. ledger' \in Ledger
    BY <1>18, LedgerFields DEF LedgerIs, Ledger
  <2>2. /\ syncClaim' \in [Events -> Tokens] /\ deletionClaim' \in [Rules -> Tokens]
    BY <1>18 DEF Crash
  <2> QED BY <1>18, <2>1, <2>2, FreshType DEF Crash, Fault, Forget, Goto, Ledger, incidents, external
<1>19. ASSUME NEW w \in Workers, NEW es \in SUBSET Events, SelectBatch(w, es) PROVE Typed'
  BY <1>19 DEF SelectBatch, Goto, incidents, outbox, rules, external, record, budgets
<1>20. ASSUME NEW w \in Workers, NEW r \in Rules, ClaimDeletion(w, r) PROVE Typed'
  BY <1>20 DEF ClaimDeletion, Goto, incidents, outbox, external, record, budgets
<1>21. ASSUME NEW e \in Events, Fire(e) PROVE Typed'
  BY <1>21 DEF Fire, InFlight, outbox, rules, external, record, work, budgets
<1>22. ASSUME NEW e \in Events, LinkIssue(e) PROVE Typed'
  <2>1. ledger' \in Ledger
    BY <1>22, FreshType DEF LinkIssue, Ledger
  <2>2. /\ epoch' \in Nat /\ reopened' \in BOOLEAN /\ linked' \in SUBSET Events
        /\ delivery' \in [Events -> {"none", "delivered", "failed"} \cup InFlight]
    <3>1. epoch + 1 \in Nat /\ epoch \in Nat /\ reopened \in BOOLEAN
      OBVIOUS
    <3>2. (epoch' = epoch /\ reopened' = reopened) \/ (epoch' = epoch + 1 /\ reopened' = FALSE)
      BY <1>22 DEF LinkIssue
    <3> QED BY <1>22, <3>1, <3>2 DEF LinkIssue, InFlight
  <2> QED BY <1>22, <2>1, <2>2 DEF LinkIssue, Ledger, outbox, rules, work, budgets
<1>23. ASSUME NEW e \in Events, Deliver(e) PROVE Typed'
  BY <1>23 DEF Deliver, Queue, rules, external, record, work, budgets
<1>24. ASSUME NEW e \in Events, DeliveryFails(e) PROVE Typed'
  BY <1>24 DEF DeliveryFails, Fault, outbox, rules, external, record, work
<1>25. ASSUME NEW e \in Events, RetryDelivery(e) PROVE Typed'
  BY <1>25 DEF RetryDelivery, InFlight, outbox, rules, external, record, work, budgets
<1>26. ASSUME NEW e \in Events, Resolve(e) PROVE Typed'
  BY <1>26 DEF Resolve, ResolveAll, Queue, rules, external, record, work, budgets
<1>27. ASSUME NEW e \in Events, SyncLapses(e) PROVE Typed'
  BY <1>27 DEF SyncLapses, MayLapse, Fault, incidents, rules, external, record, work
<1>28. ASSUME NEW r \in Rules, RequestRuleDeletion(r) PROVE Typed'
  BY <1>28 DEF RequestRuleDeletion, ResolveAll, Queue, external, record, work, budgets
<1>29. ASSUME NEW r \in Rules, DeletionLapses(r) PROVE Typed'
  BY <1>29 DEF DeletionLapses, MayLapse, Fault, incidents, outbox, external, record, work
<1>30. ASSUME NEW to \in {"open", "completed", "canceled"}, Operate(to) PROVE Typed'
  BY <1>30 DEF Operate, incidents, outbox, rules, record, work
<1>31. ASSUME LedgerLapses PROVE Typed'
  <2>1. ledger' \in Ledger
    <3>1. ledger.claim \in Tokens /\ ledger.comment \in CommentIds /\ ledger.completed \in BOOLEAN
      OBVIOUS
    <3>2. LedgerIs(ledger.claim, TRUE, ledger.comment, ledger.completed)
      BY <1>31, LapseFields
    <3> QED BY <3>1, <3>2 DEF LedgerIs, Ledger
  <2> QED BY <1>31, <2>1 DEF LedgerLapses, MayLapse, Fault, Ledger, incidents, outbox, rules, external, work
<1>32. CASE UNCHANGED vars
  BY <1>32 DEF vars, incidents, outbox, rules, external, record, work, budgets
<1> QED
  BY <1>1, <1>2, <1>3, <1>4, <1>5, <1>6, <1>7, <1>8, <1>9, <1>10, <1>11, <1>12, <1>13, <1>14,
     <1>15, <1>16, <1>17, <1>18, <1>19, <1>20, <1>21, <1>22, <1>23, <1>24, <1>25, <1>26, <1>27,
     <1>28, <1>29, <1>30, <1>31, <1>32 DEF Next, WorkerStep

THEOREM TypeCorrect == Spec => []TypeOK
<1>1. Typed => TypeOK
  BY DEF Typed
<1> QED BY <1>1, TypedInit, TypedStep, PTL DEF Spec

-----------------------------------------------------------------------------
(* The steps, as seen from the issue *)

Holding == {"peers", "status", "findComment", "prepare", "update", "post", "complete", "release"}

\* Steps of incidents, queues and rules: no worker moves, or one that is not at
\* work on the issue.
Apart == UNCHANGED <<ledger, issue, comments, reopened, canceled, epoch, pc, comment, seen>>

Aside(w) ==
  /\ UNCHANGED <<ledger, issue, comments, reopened, canceled, epoch>>
  /\ pc[w] \notin Holding /\ pc'[w] \notin Holding
  /\ comment'[w] \in {comment[w], NoComment}
  /\ \A v \in Workers \ {w} :
       pc'[v] = pc[v] /\ comment'[v] = comment[v] /\ seen'[v] = seen[v]

OnIssue(w) ==
  \/ ClaimIssue(w) \/ CheckPeers(w) \/ FetchStatus(w) \/ FindComment(w) \/ PrepareComment(w)
  \/ UpdateState(w) \/ PostComment(w) \/ MarkCompleted(w) \/ ReleaseIssue(w) \/ LinearFails(w)
  \/ Crash(w)

LEMMA AsideSteps ==
  ASSUME Typed, NEW w \in Workers,
         \/ ClaimEvents(w) \/ CollectRefs(w) \/ EndSync(w) \/ DrainRule(w) \/ EndBatch(w)
         \/ CheckRemaining(w) \/ DeleteRule(w)
         \/ (\E es \in SUBSET Events : SelectBatch(w, es))
         \/ (\E r \in Rules : ClaimDeletion(w, r))
  PROVE  Aside(w)
<1> USE DEF Typed, TypeOK, Aside, Holding, Goto, external, record, work
<1>1. ClaimEvents(w) => Aside(w)
  BY DEF ClaimEvents
<1>2. CollectRefs(w) => Aside(w)
  BY DEF CollectRefs
<1>3. EndSync(w) => Aside(w)
  BY DEF EndSync
<1>4. DrainRule(w) => Aside(w)
  BY DEF DrainRule
<1>5. EndBatch(w) => Aside(w)
  BY DEF EndBatch, Forget
<1>6. CheckRemaining(w) => Aside(w)
  BY DEF CheckRemaining
<1>7. DeleteRule(w) => Aside(w)
  BY DEF DeleteRule
<1>8. (\E es \in SUBSET Events : SelectBatch(w, es)) => Aside(w)
  BY DEF SelectBatch
<1>9. (\E r \in Rules : ClaimDeletion(w, r)) => Aside(w)
  BY DEF ClaimDeletion
<1> QED BY <1>1, <1>2, <1>3, <1>4, <1>5, <1>6, <1>7, <1>8, <1>9

LEMMA StepKinds ==
  ASSUME Typed, [Next]_vars
  PROVE  \/ Apart
         \/ \E w \in Workers : Aside(w) \/ OnIssue(w)
         \/ \E e \in Events : LinkIssue(e)
         \/ \E to \in {"open", "completed", "canceled"} : Operate(to)
         \/ LedgerLapses
<1> USE DEF external, record, work, Apart
<1>1. ASSUME NEW e \in Events, \/ Fire(e) \/ Deliver(e) \/ DeliveryFails(e) \/ RetryDelivery(e)
                               \/ Resolve(e) \/ SyncLapses(e)
      PROVE  Apart
  BY <1>1 DEF Fire, Deliver, DeliveryFails, RetryDelivery, Resolve, SyncLapses
<1>2. ASSUME NEW r \in Rules, RequestRuleDeletion(r) \/ DeletionLapses(r) PROVE Apart
  BY <1>2 DEF RequestRuleDeletion, DeletionLapses
<1>3. UNCHANGED vars => Apart
  BY DEF vars
<1> QED BY <1>1, <1>2, <1>3, AsideSteps DEF Next, WorkerStep, OnIssue

-----------------------------------------------------------------------------
(* Who holds the issue is at work on it, and a completed one is free. *)

Ledgered ==
  /\ ledger.completed => ledger.claim = NoOne
  /\ \A w \in Workers : ledger.claim = w => pc[w] \in Holding

\* A worker that asks for the issue gets it, or goes to the end.
LEMMA Claiming ==
  ASSUME TypeOK, NEW w \in Workers, ClaimIssue(w)
  PROVE  /\ pc[w] = "issue"
         /\ \/ /\ ~ledger.completed /\ pc' = [pc EXCEPT ![w] = "peers"]
               /\ ledger'.claim = w /\ ~ledger'.completed
            \/ ledger'.claim = ledger.claim /\ pc' = [pc EXCEPT ![w] = "end"]
               /\ ledger'.completed = ledger.completed
         /\ ledger'.comment = ledger.comment
<1>1. CASE ~ledger.completed /\ Free(ledger.claim, ledger.lapsed)
  <2>1. LedgerIs(w, FALSE, ledger.comment, ledger.completed)
    BY <1>1, LedgerFields
  <2>2. ledger'.claim = w /\ ledger'.comment = ledger.comment /\ ledger'.completed = ledger.completed
    BY <2>1 DEF LedgerIs
  <2> QED BY <1>1, <2>2 DEF ClaimIssue, Goto
<1>2. CASE ~(~ledger.completed /\ Free(ledger.claim, ledger.lapsed))
  BY <1>2 DEF ClaimIssue, Goto
<1> QED BY <1>1, <1>2

LEMMA LedgeredStep == Typed /\ Ledgered /\ [Next]_vars => Ledgered'
<1> SUFFICES ASSUME Typed, Ledgered, [Next]_vars PROVE Ledgered'
  OBVIOUS
<1> USE ResolutionAssumption DEF Ledgered
<1>t. TypeOK /\ DOMAIN pc = Workers /\ pc = [w \in Workers |-> pc[w]]
  BY DEF Typed, TypeOK
<1>1. CASE Apart
  BY <1>1 DEF Apart
<1>2. ASSUME NEW w \in Workers, Aside(w) PROVE Ledgered'
  BY <1>2 DEF Aside
<1>3. ASSUME NEW w \in Workers, OnIssue(w) PROVE Ledgered'
  <2>1. CASE ClaimIssue(w)
    BY <1>t, <2>1, Claiming DEF Holding
  <2>2. CASE CheckPeers(w) \/ FetchStatus(w) \/ FindComment(w) \/ UpdateState(w) \/ PostComment(w)
    BY <1>t, <2>2 DEF CheckPeers, FetchStatus, FindComment, UpdateState, PostComment, Holding, Goto,
                      record
  <2>3. CASE PrepareComment(w)
    BY <1>t, <2>3, LedgerFields DEF PrepareComment, LedgerIs, Holding, Goto
  <2>4. CASE MarkCompleted(w)
    BY <1>t, <2>4, LedgerFields DEF MarkCompleted, LedgerIs, Holding, Goto
  <2>5. CASE ReleaseIssue(w)
    BY <1>t, <2>5, LedgerFields DEF ReleaseIssue, LedgerIs, Holding, Goto
  <2>6. CASE LinearFails(w)
    BY <1>t, <2>6 DEF LinearFails, Holding, Goto, record
  <2>7. CASE Crash(w)
    BY <1>t, <2>7, LedgerFields DEF Crash, LedgerIs, Holding, Goto
  <2> QED BY <1>3, <2>1, <2>2, <2>3, <2>4, <2>5, <2>6, <2>7 DEF OnIssue
<1>4. ASSUME NEW e \in Events, LinkIssue(e) PROVE Ledgered'
  BY <1>t, <1>4 DEF LinkIssue, FreshLedger
<1>5. ASSUME NEW to \in {"open", "completed", "canceled"}, Operate(to) PROVE Ledgered'
  BY <1>5 DEF Operate, record
<1>6. CASE LedgerLapses
  BY <1>t, <1>6, LapseFields DEF LedgerLapses, LedgerIs
<1> QED BY <1>1, <1>2, <1>3, <1>4, <1>5, <1>6, StepKinds

-----------------------------------------------------------------------------
(* Comment ids *)

Used == comments \cup {comment[w] : w \in Workers} \cup {ledger.comment}

\* One id in use for each link, and for the running link the announced one.
Numbered ==
  /\ epoch >= 1
  /\ \A c \in Used : c # NoComment =>
       c[1] \in 1 .. epoch /\ (c[1] = epoch => c = ledger.comment)
  /\ \A c, d \in Used : c[1] = d[1] => c = d

LEMMA UsedTypes == TypeOK => Used \subseteq CommentIds
BY DEF Used, TypeOK

\* No step but an announcement takes an id nobody used, and no step but a link
\* starts over.
LEMMA NumberedKept ==
  ASSUME Numbered, Used' \subseteq Used \cup {NoComment}, TypeOK,
         UNCHANGED epoch, ledger'.comment = ledger.comment
  PROVE  Numbered'
<1>1. \A c \in Used : c \in CommentIds
  BY UsedTypes
<1>2. \A c \in Used : c[1] = 0 => c = NoComment
  BY <1>1 DEF Numbered, TypeOK
<1>3. NoComment[1] = 0 /\ epoch \in Nat
  BY DEF NoComment, TypeOK
<1> QED BY <1>1, <1>2, <1>3 DEF Numbered

LEMMA NumberedStep == Typed /\ Numbered /\ [Next]_vars => Numbered'
<1> SUFFICES ASSUME Typed, Numbered, [Next]_vars PROVE Numbered'
  OBVIOUS
<1>t. TypeOK /\ comment \in [Workers -> CommentIds]
  BY DEF Typed, TypeOK
<1>1. CASE Apart
  BY <1>t, <1>1, NumberedKept DEF Apart, Used
<1>2. ASSUME NEW w \in Workers, Aside(w) PROVE Numbered'
  BY <1>t, <1>2, NumberedKept DEF Aside, Used
<1>3. ASSUME NEW w \in Workers, OnIssue(w), ~PrepareComment(w) PROVE Numbered'
  <2>1. CASE ClaimIssue(w)
    BY <1>t, <2>1, LedgerFields, NumberedKept DEF ClaimIssue, LedgerIs, Used, external
  <2>2. CASE CheckPeers(w) \/ FetchStatus(w) \/ UpdateState(w)
    BY <1>t, <2>2, NumberedKept DEF CheckPeers, FetchStatus, UpdateState, Used, external, record, work
  <2>3. CASE FindComment(w)
    BY <1>t, <2>3, NumberedKept DEF FindComment, Used, external, record
  <2>4. CASE PostComment(w) \/ LinearFails(w)
    BY <1>t, <2>4, NumberedKept DEF PostComment, LinearFails, Used, record, work
  <2>5. CASE MarkCompleted(w)
    BY <1>t, <2>5, LedgerFields, NumberedKept DEF MarkCompleted, LedgerIs, Used, external
  <2>6. CASE ReleaseIssue(w)
    BY <1>t, <2>6, LedgerFields, NumberedKept DEF ReleaseIssue, LedgerIs, Used, external, work
  <2>7. CASE Crash(w)
    BY <1>t, <2>7, LedgerFields, NumberedKept DEF Crash, Forget, LedgerIs, Used, external
  <2> QED BY <1>3, <2>1, <2>2, <2>3, <2>4, <2>5, <2>6, <2>7 DEF OnIssue
<1>4. ASSUME NEW w \in Workers, PrepareComment(w) PROVE Numbered'
  <2>1. CASE ledger.claim # w
    BY <1>t, <1>4, <2>1, NumberedKept DEF PrepareComment, Used, external
  <2>2. CASE ledger.claim = w
    <3> DEFINE id == comment'[w]
    <3>1. ledger'.comment = id /\ UNCHANGED <<comments, epoch>>
      BY <1>t, <1>4, <2>2, LedgerFields DEF LedgerIs, PrepareComment, external
    <3>2. Used' \subseteq Used \cup {id}
      BY <1>t, <1>4, <2>2, <3>1, Announces DEF Used
    <3>3. CASE ledger.comment # NoComment
      BY <1>t, <1>4, <2>2, <3>1, <3>2, <3>3, Announces, NumberedKept DEF Used
    <3>4. CASE ledger.comment = NoComment
      <4>1. id = <<epoch, ids + 1>> /\ epoch \in Nat /\ ids \in Nat
        BY <1>t, <1>4, <2>2, <3>4, Announces DEF TypeOK
      <4>2. \A c \in Used : c # NoComment => c[1] \in 1 .. epoch /\ c[1] # epoch
        BY <3>4 DEF Numbered
      <4>3. \A c \in Used : c = NoComment \/ c[1] # epoch
        BY <4>2
      <4>4. NoComment[1] = 0 /\ epoch >= 1 /\ id[1] = epoch /\ id # NoComment
        BY <4>1 DEF NoComment, Numbered
      <4>5. \A c \in Used : c[1] # id[1]
        BY <4>1, <4>3, <4>4
      <4>6. \A c, d \in Used' : c[1] = d[1] => c = d
        BY <3>2, <4>5 DEF Numbered
      <4>7. \A c \in Used' : c # NoComment => c[1] \in 1 .. epoch /\ (c[1] = epoch => c = id)
        BY <3>2, <4>1, <4>2, <4>4
      <4> HIDE DEF id
      <4> QED BY <3>1, <4>4, <4>6, <4>7 DEF Numbered
    <3> QED BY <3>3, <3>4
  <2> QED BY <2>1, <2>2
<1>5. ASSUME NEW e \in Events, LinkIssue(e) PROVE Numbered'
  <2>1. CASE e \in linked
    BY <1>t, <1>5, <2>1, NumberedKept DEF LinkIssue, Used, work
  <2>2. CASE e \notin linked
    <3>1. /\ ledger' = FreshLedger /\ epoch' = epoch + 1 /\ UNCHANGED <<comments, comment>>
      BY <1>5, <2>2 DEF LinkIssue, work
    <3>2. Used' \subseteq Used \cup {NoComment} /\ ledger'.comment = NoComment
      BY <3>1 DEF Used, FreshLedger
    <3>3. epoch \in Nat /\ NoComment[1] = 0 /\ Used \subseteq CommentIds
      BY <1>t, UsedTypes DEF TypeOK, NoComment
    <3>4. \A c \in Used' : c # NoComment => c[1] \in 1 .. epoch'
                             /\ (c[1] = epoch' => c = ledger'.comment)
      BY <3>1, <3>2, <3>3 DEF Numbered
    <3>5. \A c \in Used : c[1] = 0 => c = NoComment
      BY <3>3 DEF Numbered
    <3>6. \A c, d \in Used' : c[1] = d[1] => c = d
      BY <3>2, <3>3, <3>5 DEF Numbered
    <3>7. epoch' >= 1
      BY <3>1, <3>3
    <3> QED BY <3>4, <3>6, <3>7 DEF Numbered
  <2> QED BY <2>1, <2>2
<1>6. ASSUME NEW to \in {"open", "completed", "canceled"}, Operate(to) PROVE Numbered'
  BY <1>t, <1>6, NumberedKept DEF Operate, Used, record, work
<1>7. CASE LedgerLapses
  BY <1>t, <1>7, LapseFields, NumberedKept DEF LedgerLapses, LedgerIs, Used, external, work
<1> QED BY <1>1, <1>2, <1>3, <1>4, <1>5, <1>6, <1>7, StepKinds

\* One comment at most for each link, whatever was retried or taken over.
THEOREM OneComment == Spec => []OneCommentPerLink
<1>1. Init => Numbered
  BY DEF Init, Numbered, Used, FreshLedger, NoComment
<1>2. Numbered => OneCommentPerLink
  BY DEF Numbered, Used, OneCommentPerLink
<1>3. Typed /\ Numbered /\ [Next]_vars => Typed' /\ Numbered'
  BY TypedStep, NumberedStep
<1> QED BY <1>1, <1>2, <1>3, TypedInit, PTL DEF Spec

-----------------------------------------------------------------------------
(* What the holder of the issue has done *)

\* Who completes the issue has posted the comment announced, or found it
\* canceled, or completed with nothing announced.
Commented ==
  /\ issue = "canceled" => canceled
  /\ \A w \in Workers : ledger.claim = w =>
       /\ pc[w] \in {"update", "post"} => comment[w] = ledger.comment
       /\ pc[w] = "complete" =>
            canceled \/ ledger.comment = NoComment \/ ledger.comment \in comments
  /\ CompletedHasComment

\* Who is past the update, or found the issue closed, leaves it closed until a
\* person opens it.
Shut == issue # "open" \/ reopened

Closed ==
  /\ ledger.completed => Shut
  /\ \A w \in Workers : ledger.claim = w =>
       /\ pc[w] = "findComment" /\ seen[w] # "open" => Shut
       /\ pc[w] \in {"post", "complete"} => Shut

LEMMA CommentedStep == Typed /\ Ledgered /\ Commented /\ [Next]_vars => Commented'
<1> SUFFICES ASSUME Typed, Ledgered, Commented, [Next]_vars PROVE Commented'
  OBVIOUS
<1> USE ResolutionAssumption DEF Commented, CompletedHasComment
<1>t. /\ TypeOK /\ DOMAIN pc = Workers /\ pc = [w \in Workers |-> pc[w]]
      /\ DOMAIN comment = Workers /\ comment = [w \in Workers |-> comment[w]]
      /\ issue \in {"open", "completed", "canceled"}
  BY DEF Typed, TypeOK
<1>h. \A w \in Workers : ledger.claim = w => pc[w] \in Holding /\ ~ledger.completed
  BY DEF Ledgered
<1>1. CASE Apart
  BY <1>1 DEF Apart
<1>2. ASSUME NEW w \in Workers, Aside(w) PROVE Commented'
  BY <1>h, <1>2 DEF Aside
<1>3. ASSUME NEW w \in Workers, OnIssue(w) PROVE Commented'
  <2>1. CASE ClaimIssue(w)
    <3>1. UNCHANGED <<issue, comments, reopened, canceled, comment, seen>>
      BY <2>1 DEF ClaimIssue, external
    <3> QED BY <1>t, <1>h, <2>1, <3>1, Claiming DEF Holding
  <2>2. CASE CheckPeers(w)
    BY <1>t, <2>2 DEF CheckPeers, Goto, external, record
  <2>3. CASE FetchStatus(w)
    BY <1>t, <2>3 DEF FetchStatus, Goto, external, record
  <2>4. CASE FindComment(w)
    BY <1>t, <2>4 DEF FindComment, Goto, external, record
  <2>5. CASE PrepareComment(w)
    <3>1. CASE ledger.claim = w
      BY <1>t, <1>h, <2>5, <3>1, LedgerFields, Announces DEF PrepareComment, LedgerIs, Goto, external
    <3>2. CASE ledger.claim # w
      BY <1>t, <2>5, <3>2 DEF PrepareComment, Goto, external
    <3> QED BY <3>1, <3>2
  <2>6. CASE UpdateState(w)
    BY <1>t, <2>6 DEF UpdateState, Goto, record, work
  <2>7. CASE PostComment(w)
    BY <1>t, <2>7 DEF PostComment, Goto, record, work
  <2>8. CASE MarkCompleted(w)
    BY <1>t, <2>8, LedgerFields DEF MarkCompleted, LedgerIs, Goto, external
  <2>9. CASE ReleaseIssue(w)
    BY <1>t, <1>h, <2>9, LedgerFields DEF ReleaseIssue, LedgerIs, Goto, external, work
  <2>10. CASE LinearFails(w)
    BY <1>t, <2>10 DEF LinearFails, Goto, record
  <2>11. CASE Crash(w)
    BY <1>t, <1>h, <2>11, LedgerFields DEF Crash, Forget, LedgerIs, Goto, external
  <2> QED BY <1>3, <2>1, <2>2, <2>3, <2>4, <2>5, <2>6, <2>7, <2>8, <2>9, <2>10, <2>11 DEF OnIssue
<1>4. ASSUME NEW e \in Events, LinkIssue(e) PROVE Commented'
  BY <1>t, <1>4 DEF LinkIssue, FreshLedger, work
<1>5. ASSUME NEW to \in {"open", "completed", "canceled"}, Operate(to) PROVE Commented'
  BY <1>5 DEF Operate, record, work
<1>6. CASE LedgerLapses
  BY <1>t, <1>6, LapseFields DEF LedgerLapses, LedgerIs, external, work
<1> QED BY <1>1, <1>2, <1>3, <1>4, <1>5, <1>6, StepKinds

LEMMA ClosedStep == Typed /\ Ledgered /\ Closed /\ [Next]_vars => Closed'
<1> SUFFICES ASSUME Typed, Ledgered, Closed, [Next]_vars PROVE Closed'
  OBVIOUS
<1> USE ResolutionAssumption DEF Closed, Shut
<1>t. /\ TypeOK /\ DOMAIN pc = Workers /\ pc = [w \in Workers |-> pc[w]]
      /\ DOMAIN seen = Workers /\ seen = [w \in Workers |-> seen[w]]
      /\ seen \in [Workers -> {"open", "completed", "canceled"}]
  BY DEF Typed, TypeOK
<1>h. \A w \in Workers : ledger.claim = w => pc[w] \in Holding /\ ~ledger.completed
  BY DEF Ledgered
<1>1. CASE Apart
  BY <1>1 DEF Apart
<1>2. ASSUME NEW w \in Workers, Aside(w) PROVE Closed'
  BY <1>h, <1>2 DEF Aside
<1>3. ASSUME NEW w \in Workers, OnIssue(w) PROVE Closed'
  <2>1. CASE ClaimIssue(w)
    <3>1. UNCHANGED <<issue, comments, reopened, canceled, comment, seen>>
      BY <2>1 DEF ClaimIssue, external
    <3> QED BY <1>t, <1>h, <2>1, <3>1, Claiming DEF Holding
  <2>2. CASE CheckPeers(w)
    BY <1>t, <2>2 DEF CheckPeers, Goto, external, record
  <2>3. CASE FetchStatus(w)
    BY <1>t, <2>3 DEF FetchStatus, Goto, external, record
  <2>4. CASE FindComment(w)
    BY <1>t, <2>4 DEF FindComment, Goto, external, record
  <2>5. CASE PrepareComment(w)
    <3>1. CASE ledger.claim = w
      BY <1>t, <1>h, <2>5, <3>1, LedgerFields DEF PrepareComment, LedgerIs, Goto, external
    <3>2. CASE ledger.claim # w
      BY <1>t, <2>5, <3>2 DEF PrepareComment, Goto, external
    <3> QED BY <3>1, <3>2
  <2>6. CASE UpdateState(w)
    BY <1>t, <2>6 DEF UpdateState, Goto, record, work
  <2>7. CASE PostComment(w)
    BY <1>t, <2>7 DEF PostComment, Goto, record, work
  <2>8. CASE MarkCompleted(w)
    BY <1>t, <2>8, LedgerFields DEF MarkCompleted, LedgerIs, Goto, external
  <2>9. CASE ReleaseIssue(w)
    BY <1>t, <1>h, <2>9, LedgerFields DEF ReleaseIssue, LedgerIs, Goto, external, work
  <2>10. CASE LinearFails(w)
    BY <1>t, <2>10 DEF LinearFails, Goto, record
  <2>11. CASE Crash(w)
    BY <1>t, <1>h, <2>11, LedgerFields DEF Crash, Forget, LedgerIs, Goto, external
  <2> QED BY <1>3, <2>1, <2>2, <2>3, <2>4, <2>5, <2>6, <2>7, <2>8, <2>9, <2>10, <2>11 DEF OnIssue
<1>4. ASSUME NEW e \in Events, LinkIssue(e) PROVE Closed'
  BY <1>t, <1>4 DEF LinkIssue, FreshLedger, work
<1>5. ASSUME NEW to \in {"open", "completed", "canceled"}, Operate(to) PROVE Closed'
  BY <1>5 DEF Operate, record, work
<1>6. CASE LedgerLapses
  BY <1>t, <1>6, LapseFields DEF LedgerLapses, LedgerIs, external, work
<1> QED BY <1>1, <1>2, <1>3, <1>4, <1>5, <1>6, StepKinds

HolderInv == Typed /\ Ledgered /\ Commented /\ Closed

LEMMA HolderInit == Init => HolderInv
<1> SUFFICES ASSUME Init PROVE HolderInv
  OBVIOUS
<1>1. ledger.claim = NoOne /\ ~ledger.completed /\ issue = "open"
  BY DEF Init, FreshLedger
<1> QED BY <1>1, TypedInit, ResolutionAssumption
           DEF HolderInv, Ledgered, Commented, CompletedHasComment, Closed

LEMMA HolderStep == HolderInv /\ [Next]_vars => HolderInv'
BY TypedStep, LedgeredStep, CommentedStep, ClosedStep DEF HolderInv

\* A clean-up recorded as completed has its comment, whoever posted it.
THEOREM CompletedCommented == Spec => []CompletedHasComment
<1>1. HolderInv => CompletedHasComment
  BY DEF HolderInv, Commented
<1> QED BY <1>1, HolderInit, HolderStep, PTL DEF Spec

-----------------------------------------------------------------------------
(* What a worker is about to end *)

Collected == Holding \cup {"issue", "end"}

\* Incidents in hand are over, and past the collection their deliveries too; a
\* delivery in flight belongs to an incident that fires or is queued.
Settled ==
  /\ \A w \in Workers : \A e \in held[w] :
       /\ incident[e] \in {"resolved", "gone"}
       /\ pc[w] \in Collected => delivery[e] \notin InFlight
  /\ \A e \in Events : delivery[e] \in InFlight =>
       incident[e] = "firing" \/ (incident[e] = "resolved" /\ syncPending[e])

\* Steps on the issue leave incidents and queues alone.
LEMMA OnIssueKeeps ==
  ASSUME TypeOK, NEW w \in Workers, OnIssue(w), ~Crash(w)
  PROVE  /\ UNCHANGED <<incident, delivery, linked, syncPending, syncClaim, held, batch>>
         /\ pc[w] \in Collected /\ pc'[w] \in Collected
         /\ \A v \in Workers \ {w} : pc'[v] = pc[v] /\ outcome'[v] = outcome[v]
<1> USE DEF TypeOK, OnIssue, Collected, Holding, Goto, Ends, incidents, outbox, record, work
<1>1. CASE ClaimIssue(w)
  BY <1>1 DEF ClaimIssue
<1>2. CASE CheckPeers(w) \/ FetchStatus(w) \/ FindComment(w)
  BY <1>2 DEF CheckPeers, FetchStatus, FindComment
<1>3. CASE PrepareComment(w) \/ UpdateState(w) \/ PostComment(w)
  BY <1>3 DEF PrepareComment, UpdateState, PostComment
<1>4. CASE MarkCompleted(w) \/ ReleaseIssue(w) \/ LinearFails(w)
  BY <1>4 DEF MarkCompleted, ReleaseIssue, LinearFails
<1> QED BY <1>1, <1>2, <1>3, <1>4

\* An end of claims clears what is in hand, and nothing else.
LEMMA EndFields ==
  ASSUME TypeOK, NEW w \in Workers, NEW clear, NEW put, EndClaims(w, clear, put)
  PROVE  /\ \A e \in Events : syncPending'[e] =
              (syncPending[e] /\ ~(e \in clear /\ syncClaim[e] = w))
         /\ \A e \in Events : syncClaim'[e] = syncClaim[e] \/ syncClaim'[e] = NoOne
         /\ held'[w] = held[w] \ (clear \cup put)
         /\ \A v \in Workers \ {w} : held'[v] = held[v]
<1>1. syncPending' = [e \in Events |-> syncPending[e]
          /\ e \notin {f \in clear \cup put : syncClaim[f] = w} \cap clear]
  BY DEF EndClaims
<1>2. \A e \in Events : (e \notin {f \in clear \cup put : syncClaim[f] = w} \cap clear)
                          <=> ~(e \in clear /\ syncClaim[e] = w)
  OBVIOUS
<1>3. \A e \in Events : syncPending'[e] = (syncPending[e] /\ ~(e \in clear /\ syncClaim[e] = w))
  BY <1>1, <1>2
<1> QED BY <1>3 DEF EndClaims, TypeOK

LEMMA ResolveFields ==
  ASSUME TypeOK, NEW es \in SUBSET Events, ResolveAll(es)
  PROVE  \A e \in Events :
           \/ /\ e \in es /\ incident[e] = "firing" /\ incident'[e] = "resolved"
              /\ syncPending'[e] /\ syncClaim'[e] = NoOne
           \/ /\ e \notin es \/ incident[e] # "firing"
              /\ incident'[e] = incident[e] /\ syncPending'[e] = syncPending[e]
              /\ syncClaim'[e] = syncClaim[e]
BY DEF ResolveAll, Queue, TypeOK

LEMMA SettledStep == Typed /\ Settled /\ [Next]_vars => Settled'
<1> SUFFICES ASSUME Typed, Settled, [Next]_vars PROVE Settled'
  OBVIOUS
<1>t. /\ TypeOK /\ DOMAIN pc = Workers /\ pc = [w \in Workers |-> pc[w]]
      /\ held \in [Workers -> SUBSET Events]
      /\ incident \in [Events -> {"none", "firing", "resolved", "gone"}]
      /\ delivery \in [Events -> {"none", "delivered", "failed"} \cup InFlight]
      /\ syncPending \in [Events -> BOOLEAN]
  BY DEF Typed, TypeOK
<1> USE DEF Settled
<1>1. ASSUME NEW w \in Workers, OnIssue(w), ~Crash(w) PROVE Settled'
  BY <1>t, <1>1, OnIssueKeeps
<1>2. ASSUME NEW w \in Workers, Crash(w) PROVE Settled'
  BY <1>t, <1>2 DEF Crash, Goto, incidents
<1>3. ASSUME NEW w \in Workers, ClaimEvents(w) PROVE Settled'
  BY <1>t, <1>3 DEF ClaimEvents, Due, Goto, Collected, Holding, incidents
<1>4. ASSUME NEW w \in Workers, CollectRefs(w) PROVE Settled'
  <2> DEFINE wait == {e \in held[w] : delivery[e] \in InFlight}
             none == {e \in held[w] \ wait : e \notin linked}
  <2>1. EndClaims(w, none, wait) /\ UNCHANGED <<incident, delivery>>
        /\ \A v \in Workers \ {w} : pc'[v] = pc[v]
    BY <1>t, <1>4 DEF CollectRefs, Goto, incidents
  <2>2. /\ \A e \in Events : syncPending'[e] = (syncPending[e] /\ ~(e \in none /\ syncClaim[e] = w))
        /\ held'[w] = held[w] \ (none \cup wait)
        /\ \A v \in Workers \ {w} : held'[v] = held[v]
    BY <1>t, <2>1, EndFields
  <2>3. \A e \in none : delivery[e] \notin InFlight
    OBVIOUS
  <2>4. \A e \in held'[w] : e \in held[w] /\ delivery[e] \notin InFlight
    BY <2>2
  <2> HIDE DEF wait, none
  <2> QED BY <2>1, <2>2, <2>3, <2>4
<1>5. ASSUME NEW w \in Workers, EndSync(w) PROVE Settled'
  <2>1. pc[w] = "end" /\ "end" \in Collected /\ UNCHANGED <<incident, delivery>>
        /\ \A v \in Workers \ {w} : pc'[v] = pc[v]
    BY <1>t, <1>5 DEF EndSync, Goto, incidents, Collected
  <2>2. PICK clear \in SUBSET held[w], put \in SUBSET held[w] : EndClaims(w, clear, put)
    BY <1>5 DEF EndSync, TypeOK, Typed
  <2>3. /\ \A e \in Events : syncPending'[e] = (syncPending[e] /\ ~(e \in clear /\ syncClaim[e] = w))
        /\ held'[w] = held[w] \ (clear \cup put)
        /\ \A v \in Workers \ {w} : held'[v] = held[v]
    BY <1>t, <2>2, EndFields
  <2>4. pc'[w] \notin Collected
    BY <1>t, <1>5 DEF EndSync, Goto, Collected, Holding
  <2>5. \A e \in clear : delivery[e] \notin InFlight
    BY <2>1
  <2>6. \A v \in Workers : held'[v] \subseteq held[v]
    BY <2>3
  <2>7. \A e \in Events : delivery[e] \in InFlight => syncPending'[e] = syncPending[e]
    BY <1>t, <2>3, <2>5
  <2> QED BY <1>t, <2>1, <2>4, <2>6, <2>7
<1>6. ASSUME NEW w \in Workers,
             \/ DrainRule(w) \/ EndBatch(w) \/ CheckRemaining(w)
             \/ (\E es \in SUBSET Events : SelectBatch(w, es))
             \/ (\E r \in Rules : ClaimDeletion(w, r))
      PROVE  Settled'
  <2>1. UNCHANGED <<incident, delivery, syncPending, held>>
    BY <1>6 DEF DrainRule, EndBatch, CheckRemaining, SelectBatch, ClaimDeletion, incidents, outbox, work
  <2>2. pc'[w] \notin Collected
    BY <1>t, <1>6 DEF DrainRule, EndBatch, CheckRemaining, SelectBatch, ClaimDeletion, Goto, Collected,
                      Holding
  <2>3. \A v \in Workers \ {w} : pc'[v] = pc[v]
    BY <1>t, <1>6 DEF DrainRule, EndBatch, CheckRemaining, SelectBatch, ClaimDeletion, Goto
  <2> QED BY <2>1, <2>2, <2>3
<1>7. ASSUME NEW w \in Workers, DeleteRule(w) PROVE Settled'
  <2>1. UNCHANGED <<held, syncPending>> /\ pc' = [pc EXCEPT ![w] = "idle"]
    BY <1>7 DEF DeleteRule, Goto, outbox, work
  <2>2. \A e \in Events : \/ incident'[e] = incident[e] /\ delivery'[e] = delivery[e]
                          \/ /\ incident[e] # "firing" /\ delivery[e] \notin InFlight
                             /\ incident'[e] = "gone" /\ delivery'[e] = "none"
    <3>1. CASE UNCHANGED <<incident, delivery>>
      BY <3>1
    <3>2. CASE ~UNCHANGED <<incident, delivery>>
      BY <1>t, <1>7, <3>2 DEF DeleteRule, incidents
    <3> QED BY <3>1, <3>2
  <2>3. "none" \notin InFlight /\ "idle" \notin Collected
    BY DEF InFlight, Collected, Holding
  <2> QED BY <1>t, <2>1, <2>2, <2>3
<1>8. ASSUME NEW e \in Events, Fire(e) \/ RetryDelivery(e) PROVE Settled'
  BY <1>t, <1>8 DEF Fire, RetryDelivery, outbox, work
<1>9. ASSUME NEW e \in Events, LinkIssue(e) PROVE Settled'
  BY <1>t, <1>9 DEF LinkIssue, InFlight, outbox, work
<1>10. ASSUME NEW e \in Events, Deliver(e) PROVE Settled'
  BY <1>t, <1>10 DEF Deliver, Queue, InFlight, work
<1>11. ASSUME NEW e \in Events, DeliveryFails(e) PROVE Settled'
  BY <1>t, <1>11 DEF DeliveryFails, InFlight, outbox, work
<1>12. ASSUME NEW es \in SUBSET Events, ResolveAll(es), UNCHANGED <<delivery, pc, held>> PROVE Settled'
  BY <1>t, <1>12, ResolveFields
<1>13. ASSUME NEW e \in Events, Resolve(e) PROVE Settled'
  BY <1>12, <1>13 DEF Resolve, work
<1>14. ASSUME NEW r \in Rules, RequestRuleDeletion(r) PROVE Settled'
  BY <1>12, <1>14 DEF RequestRuleDeletion, work
<1>15. ASSUME NEW e \in Events, SyncLapses(e) PROVE Settled'
  BY <1>15 DEF SyncLapses, incidents, work
<1>16. ASSUME NEW r \in Rules, DeletionLapses(r) PROVE Settled'
  BY <1>16 DEF DeletionLapses, incidents, outbox, work
<1>17. ASSUME NEW to \in {"open", "completed", "canceled"}, Operate(to) PROVE Settled'
  BY <1>17 DEF Operate, incidents, outbox, work
<1>18. CASE LedgerLapses
  BY <1>18 DEF LedgerLapses, incidents, outbox, work
<1>19. CASE UNCHANGED vars
  BY <1>19 DEF vars, incidents, outbox, work
<1> QED BY <1>1, <1>2, <1>3, <1>4, <1>5, <1>6, <1>7, <1>8, <1>9, <1>10, <1>11, <1>13, <1>14, <1>15,
           <1>16, <1>17, <1>18, <1>19 DEF Next, WorkerStep, OnIssue

-----------------------------------------------------------------------------
(* Why a clean-up is not lost *)

\* About to be cleared by its holder.
Clears(w, e) ==
  pc[w] \in {"release", "end"} /\ outcome[w] = "ok" /\ e \in held[w] /\ syncClaim[e] = w

\* An incident that will still see to the issue.
Awaited(e) ==
  \/ incident[e] = "firing"
  \/ syncPending[e] /\ \A w \in Workers : ~Clears(w, e)

Excused == issue # "open" \/ abandoned \/ reopened
NotLost == Excused \/ \E e \in linked : Awaited(e)

\* No step but a link takes the excuse back.
LEMMA ExcuseStays ==
  ASSUME Typed, [Next]_vars, Excused, ~Excused'
  PROVE  \E e \in Events \ linked : LinkIssue(e)
<1> USE DEF Excused, Typed, TypeOK
<1>1. ASSUME NEW w \in Workers, WorkerStep(w), ~EndSync(w), ~UpdateState(w) PROVE Excused'
  <2>1. CASE ClaimEvents(w) \/ CollectRefs(w) \/ ClaimIssue(w) \/ CheckPeers(w) \/ FetchStatus(w)
    BY <2>1 DEF ClaimEvents, CollectRefs, ClaimIssue, CheckPeers, FetchStatus, external, outbox
  <2>2. CASE FindComment(w) \/ PrepareComment(w) \/ PostComment(w) \/ MarkCompleted(w)
    BY <2>2 DEF FindComment, PrepareComment, PostComment, MarkCompleted, external, outbox
  <2>3. CASE ReleaseIssue(w) \/ DrainRule(w) \/ EndBatch(w) \/ CheckRemaining(w) \/ DeleteRule(w)
    BY <2>3 DEF ReleaseIssue, DrainRule, EndBatch, CheckRemaining, DeleteRule, external, outbox
  <2> QED BY <1>1, <2>1, <2>2, <2>3 DEF WorkerStep
<1>2. ASSUME NEW w \in Workers, UpdateState(w) \/ EndSync(w) \/ LinearFails(w) \/ Crash(w) PROVE Excused'
  BY <1>2 DEF UpdateState, EndSync, LinearFails, Crash, external, outbox
<1>3. ASSUME NEW w \in Workers,
             \/ (\E es \in SUBSET Events : SelectBatch(w, es))
             \/ (\E r \in Rules : ClaimDeletion(w, r))
      PROVE  Excused'
  BY <1>3 DEF SelectBatch, ClaimDeletion, external, outbox
<1>4. ASSUME NEW e \in Events, \/ Fire(e) \/ Deliver(e) \/ DeliveryFails(e) \/ RetryDelivery(e)
                               \/ Resolve(e) \/ SyncLapses(e)
      PROVE  Excused'
  BY <1>4 DEF Fire, Deliver, DeliveryFails, RetryDelivery, Resolve, ResolveAll, SyncLapses, external,
              outbox
<1>5. ASSUME NEW r \in Rules, RequestRuleDeletion(r) \/ DeletionLapses(r) PROVE Excused'
  BY <1>5 DEF RequestRuleDeletion, ResolveAll, DeletionLapses, external, outbox
<1>6. ASSUME NEW to \in {"open", "completed", "canceled"}, Operate(to) PROVE Excused'
  BY <1>6 DEF Operate, outbox
<1>7. LedgerLapses \/ UNCHANGED vars => Excused'
  BY DEF LedgerLapses, vars, external, outbox
<1>8. ASSUME NEW e \in Events, LinkIssue(e) PROVE Excused' \/ e \notin linked
  BY <1>8 DEF LinkIssue, outbox
<1> QED BY <1>1, <1>2, <1>3, <1>4, <1>5, <1>6, <1>7, <1>8 DEF Next, WorkerStep

\* A step that ends nothing keeps whoever was awaited.
LEMMA AwaitedKept ==
  ASSUME NEW e \in Events, Awaited(e),
         incident'[e] = incident[e], syncPending'[e] = syncPending[e],
         \A w \in Workers : Clears(w, e)' => Clears(w, e)
  PROVE  Awaited(e)'
BY DEF Awaited

LEMMA NotLostStep == HolderInv /\ Settled /\ NotLost /\ [Next]_vars => NotLost'
<1> SUFFICES ASSUME HolderInv, Settled, NotLost, [Next]_vars PROVE NotLost'
  OBVIOUS
<1>t. /\ Typed /\ TypeOK /\ DOMAIN pc = Workers /\ pc = [w \in Workers |-> pc[w]]
      /\ DOMAIN outcome = Workers /\ outcome = [w \in Workers |-> outcome[w]]
      /\ held \in [Workers -> SUBSET Events] /\ linked \subseteq Events
      /\ incident \in [Events -> {"none", "firing", "resolved", "gone"}]
      /\ delivery \in [Events -> {"none", "delivered", "failed"} \cup InFlight]
      /\ syncPending \in [Events -> BOOLEAN] /\ syncClaim \in [Events -> Tokens]
  BY DEF HolderInv, Typed, TypeOK
<1>n. NoOne \notin Workers /\ Lost \notin Workers
  BY ResolutionAssumption
<1>x. ASSUME NEW e \in Events \ linked, LinkIssue(e) PROVE NotLost'
  <2>1. /\ linked' = linked \cup {e} /\ delivery[e] = "claimed"
        /\ UNCHANGED <<incident, syncPending, syncClaim, pc, outcome, held>>
    BY <1>x DEF LinkIssue, outbox, work
  <2>2. CASE incident[e] = "firing"
    BY <2>1, <2>2 DEF NotLost, Awaited
  <2>3. CASE incident[e] # "firing"
    <3>1. syncPending[e] /\ incident[e] = "resolved"
      BY <1>t, <2>1, <2>3 DEF Settled, InFlight
    <3>2. \A w \in Workers : e \in held[w] => pc[w] \notin {"release", "end"}
      BY <2>1 DEF Settled, InFlight, Collected, Holding
    <3> QED BY <2>1, <3>1, <3>2 DEF NotLost, Awaited, Clears
  <2> QED BY <2>2, <2>3
\* Otherwise an incident is awaited before the step, and no excuse appears.
<1>y. ASSUME ~Excused', \A e \in Events \ linked : ~LinkIssue(e) PROVE NotLost'
  <2>0. ~Excused
    BY <1>t, <1>y, ExcuseStays
  <2>p. PICK e \in linked : Awaited(e)
    BY <2>0 DEF NotLost
  <2>e. e \in Events
    BY <1>t
  <2>s. \A w \in Workers : ledger.claim = w /\ pc[w] = "complete" => FALSE
    BY <2>0 DEF HolderInv, Closed, Shut, Excused
  <2>c. ~ledger.completed
    BY <2>0 DEF HolderInv, Closed, Shut, Excused
  \* What is left to show for most steps.
  <2>k. ASSUME linked' = linked, incident'[e] = incident[e], syncPending'[e] = syncPending[e],
               \A w \in Workers : Clears(w, e)' => Clears(w, e)
        PROVE  NotLost'
    BY <2>p, <2>e, <2>k, AwaitedKept DEF NotLost
  <2>1. ASSUME NEW w \in Workers, OnIssue(w), ~Crash(w), ~CheckPeers(w) PROVE NotLost'
    <3>1. /\ UNCHANGED <<incident, linked, syncPending, syncClaim, held>>
          /\ \A v \in Workers \ {w} : pc'[v] = pc[v] /\ outcome'[v] = outcome[v]
      BY <1>t, <2>1, OnIssueKeeps
    <3>2. pc'[w] \in {"release", "end"} /\ outcome'[w] = "ok"
            => pc[w] \in {"release", "end"} /\ outcome[w] = "ok"
      <4>1. CASE ClaimIssue(w)
        BY <1>t, <2>c, <4>1 DEF ClaimIssue, Ends, Goto
      <4>2. CASE FetchStatus(w) \/ FindComment(w) \/ UpdateState(w) \/ PostComment(w)
        BY <1>t, <4>2 DEF FetchStatus, FindComment, UpdateState, PostComment, Goto
      <4>3. CASE PrepareComment(w)
        BY <1>t, <4>3 DEF PrepareComment, Ends, Goto
      <4>4. CASE MarkCompleted(w)
        BY <1>t, <2>s, <4>4 DEF MarkCompleted, Ends, Goto
      <4>5. CASE ReleaseIssue(w)
        BY <1>t, <4>5 DEF ReleaseIssue, Goto, work
      <4>6. CASE LinearFails(w)
        BY <1>t, <4>6 DEF LinearFails, Ends, Goto
      <4> QED BY <2>1, <4>1, <4>2, <4>3, <4>4, <4>5, <4>6 DEF OnIssue
    <3> QED BY <2>k, <3>1, <3>2 DEF Clears
  <2>2. ASSUME NEW w \in Workers, CheckPeers(w) PROVE NotLost'
    <3>1. CASE \E d \in linked \ batch[w] : incident[d] = "firing"
      BY <2>2, <3>1 DEF CheckPeers, incidents, NotLost, Awaited
    <3>2. CASE ~\E d \in linked \ batch[w] : incident[d] = "firing"
      BY <1>t, <2>2, <2>k, <3>2 DEF CheckPeers, Goto, incidents, outbox, Clears
    <3> QED BY <3>1, <3>2
  <2>3. ASSUME NEW w \in Workers, Crash(w) PROVE NotLost'
    BY <1>t, <1>n, <2>3, <2>e, <2>k DEF Crash, Forget, Goto, incidents, Clears
  <2>4. ASSUME NEW w \in Workers, ClaimEvents(w) PROVE NotLost'
    BY <1>t, <2>4, <2>e, <2>k DEF ClaimEvents, Goto, incidents, Clears
  <2>5. ASSUME NEW w \in Workers, CollectRefs(w) PROVE NotLost'
    <3> DEFINE wait == {d \in held[w] : delivery[d] \in InFlight}
               none == {d \in held[w] \ wait : d \notin linked}
    <3>1. EndClaims(w, none, wait) /\ UNCHANGED <<incident, linked, outcome>>
          /\ pc'[w] \notin {"release", "end"} /\ \A v \in Workers \ {w} : pc'[v] = pc[v]
      BY <1>t, <2>5 DEF CollectRefs, Goto, incidents
    <3>2. /\ syncPending'[e] = (syncPending[e] /\ ~(e \in none /\ syncClaim[e] = w))
          /\ syncClaim'[e] = syncClaim[e] \/ syncClaim'[e] = NoOne
          /\ \A v \in Workers \ {w} : held'[v] = held[v]
      BY <1>t, <2>e, <3>1, EndFields
    <3>3. e \notin none /\ syncPending[e] \in BOOLEAN
      BY <1>t, <2>e
    <3> HIDE DEF wait, none
    <3> QED BY <1>n, <2>k, <3>1, <3>2, <3>3 DEF Clears
  <2>6. ASSUME NEW w \in Workers, EndSync(w) PROVE NotLost'
    <3>1. PICK clear \in SUBSET held[w], put \in SUBSET held[w] :
            /\ EndClaims(w, clear, put)
            /\ clear # {} => outcome[w] = "ok"
      BY <1>t, <1>y, <2>6 DEF EndSync, Excused, TypeOK
    <3>2. UNCHANGED <<incident, linked, outcome>> /\ pc[w] = "end"
          /\ pc'[w] \notin {"release", "end"} /\ \A v \in Workers \ {w} : pc'[v] = pc[v]
      BY <1>t, <2>6 DEF EndSync, Goto, incidents
    <3>3. /\ syncPending'[e] = (syncPending[e] /\ ~(e \in clear /\ syncClaim[e] = w))
          /\ syncClaim'[e] = syncClaim[e] \/ syncClaim'[e] = NoOne
          /\ \A v \in Workers \ {w} : held'[v] = held[v]
      BY <1>t, <2>e, <3>1, EndFields
    <3>4. CASE incident[e] = "firing"
      BY <2>p, <3>2, <3>4 DEF NotLost, Awaited
    <3>5. CASE incident[e] # "firing"
      <4>1. syncPending[e] /\ ~Clears(w, e)
        BY <2>p, <3>5 DEF Awaited
      <4>2. ~(e \in clear /\ syncClaim[e] = w)
        BY <3>1, <3>2, <4>1 DEF Clears
      <4> QED BY <1>n, <2>k, <3>2, <3>3, <4>1, <4>2 DEF Clears
    <3> QED BY <3>4, <3>5
  <2>7. ASSUME NEW w \in Workers,
               \/ DrainRule(w) \/ EndBatch(w) \/ CheckRemaining(w)
               \/ (\E es \in SUBSET Events : SelectBatch(w, es))
               \/ (\E r \in Rules : ClaimDeletion(w, r))
        PROVE  NotLost'
    <3>1. /\ UNCHANGED <<incident, linked, syncPending, syncClaim, held>>
          /\ pc'[w] \notin {"release", "end"}
          /\ \A v \in Workers \ {w} : pc'[v] = pc[v] /\ outcome'[v] = outcome[v]
      BY <1>t, <2>7 DEF DrainRule, EndBatch, Forget, CheckRemaining, SelectBatch, ClaimDeletion, Goto,
                        incidents, outbox, work
    <3> QED BY <2>k, <3>1 DEF Clears
  <2>8. ASSUME NEW w \in Workers, DeleteRule(w) PROVE NotLost'
    <3>1. /\ UNCHANGED <<syncPending, syncClaim, held, outcome>>
          /\ pc' = [pc EXCEPT ![w] = "idle"]
      BY <2>8 DEF DeleteRule, Goto, outbox, work
    <3>2. incident'[e] = incident[e] /\ e \in linked'
      <4>1. CASE UNCHANGED incidents
        BY <2>p, <4>1 DEF incidents
      <4>2. CASE ~UNCHANGED incidents
        <5>1. /\ incident' = [d \in Events |-> IF d \in OfRule(duty[w]) THEN "gone" ELSE incident[d]]
              /\ linked' = linked \ OfRule(duty[w])
              /\ {d \in OfRule(duty[w]) : \/ incident[d] = "firing" \/ syncPending[d]
                                          \/ delivery[d] \in InFlight} = {}
          BY <2>8, <4>2 DEF DeleteRule
        <5>2. incident[e] = "firing" \/ syncPending[e]
          BY <2>p DEF Awaited
        <5> QED BY <2>p, <2>e, <5>1, <5>2
      <4> QED BY <4>1, <4>2
    <3>3. syncPending'[e] = syncPending[e] /\ \A v \in Workers : Clears(v, e)' => Clears(v, e)
      BY <1>t, <3>1 DEF Clears
    <3> QED BY <2>p, <2>e, <3>2, <3>3, AwaitedKept DEF NotLost
  <2>9. ASSUME NEW d \in Events, Fire(d) \/ LinkIssue(d) \/ DeliveryFails(d) \/ RetryDelivery(d)
        PROVE  NotLost'
    <3>1. /\ UNCHANGED <<syncPending, syncClaim, held, outcome, pc>> /\ e \in linked'
          /\ incident'[e] = incident[e] \/ incident'[e] = "firing"
      BY <1>t, <2>p, <2>e, <2>9 DEF Fire, LinkIssue, DeliveryFails, RetryDelivery, outbox, work
    <3> QED BY <2>p, <2>e, <3>1 DEF NotLost, Awaited, Clears
  <2>10. ASSUME NEW d \in Events, Deliver(d) PROVE NotLost'
    <3>1. /\ UNCHANGED <<held, outcome, pc, linked, incident>>
          /\ \/ syncPending'[e] = syncPending[e] /\ syncClaim'[e] = syncClaim[e]
             \/ syncPending'[e] /\ syncClaim'[e] = NoOne
      BY <1>t, <2>e, <2>10 DEF Deliver, Queue, work
    <3> QED BY <1>n, <2>p, <3>1 DEF NotLost, Awaited, Clears
  <2>11. ASSUME NEW es \in SUBSET Events, ResolveAll(es), UNCHANGED <<linked, pc, held, outcome>>
         PROVE  NotLost'
    <3>1. \/ incident'[e] = incident[e] /\ syncPending'[e] = syncPending[e] /\ syncClaim'[e] = syncClaim[e]
          \/ syncPending'[e] /\ syncClaim'[e] = NoOne
      BY <1>t, <2>e, <2>11, ResolveFields
    <3> QED BY <1>n, <2>p, <2>11, <3>1 DEF NotLost, Awaited, Clears
  <2>12. ASSUME NEW d \in Events, Resolve(d) PROVE NotLost'
    BY <2>11, <2>12 DEF Resolve, work
  <2>13. ASSUME NEW r \in Rules, RequestRuleDeletion(r) PROVE NotLost'
    BY <2>11, <2>13 DEF RequestRuleDeletion, work
  <2>14. ASSUME UNCHANGED <<incident, linked, syncPending, syncClaim, held, outcome, pc>> PROVE NotLost'
    BY <2>k, <2>14 DEF Clears
  <2>15. ASSUME NEW d \in Events, SyncLapses(d) PROVE NotLost'
    BY <2>14, <2>15 DEF SyncLapses, incidents, work
  <2>16. ASSUME NEW r \in Rules, DeletionLapses(r) PROVE NotLost'
    BY <2>14, <2>16 DEF DeletionLapses, incidents, outbox, work
  <2>17. ASSUME NEW to \in {"open", "completed", "canceled"}, Operate(to) PROVE NotLost'
    BY <2>14, <2>17 DEF Operate, incidents, outbox, work
  <2>18. LedgerLapses \/ UNCHANGED vars => NotLost'
    BY <2>14 DEF LedgerLapses, vars, incidents, outbox, work
  <2> QED BY <2>1, <2>2, <2>3, <2>4, <2>5, <2>6, <2>7, <2>8, <2>9, <2>10, <2>12, <2>13, <2>15, <2>16,
             <2>17, <2>18 DEF Next, WorkerStep, OnIssue
<1>z. CASE Excused'
  BY <1>z DEF NotLost
<1> QED BY <1>x, <1>y, <1>z

\* The clean-up is never lost, in whatever order incidents are resolved, linked
\* and deleted.
THEOREM NoneForgotten == Spec => []CleanupNotLost
<1> DEFINE IInv == HolderInv /\ Settled /\ NotLost
<1>1. Init => IInv
  <2> SUFFICES ASSUME Init PROVE IInv
    OBVIOUS
  <2>1. Settled
    BY DEF Init, Settled, InFlight
  <2>2. NotLost
    BY ResolutionAssumption DEF Init, NotLost, Awaited
  <2> QED BY <2>1, <2>2, HolderInit
<1>2. IInv /\ [Next]_vars => IInv'
  BY HolderStep, SettledStep, NotLostStep DEF HolderInv
<1>3. IInv => CleanupNotLost
  BY DEF NotLost, Excused, Awaited, CleanupNotLost
<1> QED BY <1>1, <1>2, <1>3, PTL DEF Spec
=============================================================================
