------------------------ MODULE AlertMonitor_proofs ------------------------
(***************************************************************************)
(* Proofs about the alert monitor, for any replicas, rules, samples, edits *)
(* and crashes.                                                            *)
(*                                                                         *)
(* First the types, with what a worker that is about to write knows of the *)
(* incident it read (Typed), and what a step may do to the incidents       *)
(* (IncidentsChange).  On these rest, each in an invariant of its own: one *)
(* firing incident a rule; that a sample is evaluated for the revisions it *)
(* was taken under (AsSampled); that no incident was opened by a sample    *)
(* newer than the cursor (Opened); that whoever loaded the newest revision *)
(* of a rule did not load a snoozed one (Awake); and that a sample that    *)
(* was counted for an incident is the last one counted or is behind the    *)
(* cursor (Counted).  Last, from these, that the replicas together act as  *)
(* one observer of the newest sample would (OneObserver).                  *)
(***************************************************************************)
EXTENDS AlertMonitor, FiniteSetTheorems, TLAPS

-----------------------------------------------------------------------------
(* Types *)

Evaluating == {"find", "cooldown", "suppress", "open", "clear"}

\* The incident a worker read is one of its rule.
Placed ==
  \A p \in Pollers :
    pc[p] \in {"suppress", "clear"} =>
      target[p] \in DOMAIN incidents /\ incidents[target[p]].rule = rule[p]

Typed == TypeOK /\ Placed

\* An edit, a person or a newer sample may end an incident, and that is all.
Ended(i) ==
  \E v \in BOOLEAN : incidents'[i] = [incidents[i] EXCEPT !.status = "resolved", !.invalidated = v]

Counts(p, i) ==
  \E n \in Nat :
    /\ n = IF incidents[i].lastToken = sample[p].token
           THEN incidents[i].suppressed ELSE incidents[i].suppressed + 1
    /\ incidents'[i] = [incidents[i] EXCEPT !.suppressed = n,
                                            !.lastToken = sample[p].token,
                                            !.silenced = @ \cup {sample[p].token}]

Clears(p, i) ==
  /\ incidents[i].status = "firing"
  /\ incidents'[i] = [incidents[i] EXCEPT !.status = "resolved", !.clearedBy = Id(sample[p])]

OthersStay(i) ==
  /\ incidents' = [j \in DOMAIN incidents |-> incidents'[j]]
  /\ \A j \in DOMAIN incidents \ {i} : incidents'[j] = incidents[j]

\* The five things a step may do to the incidents.
Nothing == incidents' = incidents
Opens(p) ==
  /\ pc[p] = "open" /\ Active(rule[p]) /\ Current(p) /\ FiringOf(rule[p]) = {}
  /\ incidents' = Append(incidents, NewIncident(p))
Silences(p) ==
  pc[p] = "suppress" /\ Current(p) /\ Counts(p, target[p]) /\ OthersStay(target[p])
Resolves(p) ==
  pc[p] = "clear" /\ Current(p) /\ Clears(p, target[p]) /\ OthersStay(target[p])
Dismissed ==
  /\ incidents' = [j \in DOMAIN incidents |-> incidents'[j]]
  /\ \A i \in DOMAIN incidents : incidents'[i] = incidents[i] \/ Ended(i)

LEMMA SuppressChange ==
  ASSUME Typed, NEW p \in Pollers, Suppress(p)
  PROVE  Nothing \/ Silences(p)
<1>1. CASE ~Current(p)
  BY <1>1 DEF Suppress, Nothing
<1>2. CASE Current(p)
  <2> DEFINE i == target[p]
  <2>1. pc[p] = "suppress" /\ i \in DOMAIN incidents /\ incidents \in Seq(Incident)
    BY DEF Suppress, Typed, TypeOK, Placed
  <2>2. incidents[i] \in Incident
    BY <2>1
  <2>3. incidents' = [incidents EXCEPT
            ![i].suppressed = IF incidents[i].lastToken = sample[p].token THEN @ ELSE @ + 1,
            ![i].lastToken = sample[p].token,
            ![i].silenced = @ \cup {sample[p].token}]
    BY <1>2 DEF Suppress
  <2>4. OthersStay(i)
    BY <2>1, <2>3 DEF OthersStay
  <2>5. Counts(p, i)
    <3> DEFINE n == IF incidents[i].lastToken = sample[p].token
                    THEN incidents[i].suppressed ELSE incidents[i].suppressed + 1
    <3>1. n \in Nat
      BY <2>2 DEF Incident
    <3>2. incidents' = [incidents EXCEPT ![i].suppressed = n,
            ![i].lastToken = sample[p].token, ![i].silenced = @ \cup {sample[p].token}]
      BY <2>1, <2>2, <2>3
    <3> HIDE DEF n
    <3>3. incidents'[i] = [incidents[i] EXCEPT !.suppressed = n,
            !.lastToken = sample[p].token, !.silenced = @ \cup {sample[p].token}]
      BY <2>1, <2>2, <3>2 DEF Incident
    <3> QED BY <3>1, <3>3 DEF Counts, n
  <2> QED BY <1>2, <2>1, <2>4, <2>5 DEF Silences
<1> QED BY <1>1, <1>2

LEMMA ClearChange ==
  ASSUME Typed, NEW p \in Pollers, ClearIncident(p)
  PROVE  Nothing \/ Resolves(p)
<1> DEFINE i == target[p]
<1>1. CASE ~Current(p) \/ incidents[i].status # "firing"
  BY <1>1 DEF ClearIncident, Nothing
<1>2. CASE Current(p) /\ incidents[i].status = "firing"
  <2>1. pc[p] = "clear" /\ i \in DOMAIN incidents /\ incidents \in Seq(Incident)
    BY DEF ClearIncident, Typed, TypeOK, Placed
  <2>2. incidents[i] \in Incident
    BY <2>1
  <2>3. incidents' = [incidents EXCEPT ![i].status = "resolved", ![i].clearedBy = Id(sample[p])]
    BY <1>2 DEF ClearIncident
  <2>4. OthersStay(i)
    BY <2>1, <2>3 DEF OthersStay
  <2>5. Clears(p, i)
    BY <1>2, <2>1, <2>2, <2>3 DEF Clears, Incident
  <2> QED BY <1>2, <2>1, <2>4, <2>5 DEF Resolves
<1> QED BY <1>1, <1>2

\* What a person does to the incidents of a rule.
LEMMA ChangeEdits ==
  ASSUME TypeOK, NEW r \in Rules, NEW resolve \in BOOLEAN, ChangeRule(r, resolve)
  PROVE  /\ incidents' = [j \in DOMAIN incidents |-> incidents'[j]]
         /\ \E gone \in {{}, FiringOf(r)} : \A i \in DOMAIN incidents :
              IF i \in gone THEN Ended(i) ELSE incidents'[i] = incidents[i]
<1>1. incidents \in Seq(Incident)
  BY DEF TypeOK
<1>2. CASE ~resolve
  BY <1>1, <1>2 DEF ChangeRule
<1>3. CASE resolve
  <2>1. incidents' = [i \in DOMAIN incidents |->
              IF i \in FiringOf(r)
              THEN [incidents[i] EXCEPT !.status = "resolved", !.invalidated = TRUE]
              ELSE incidents[i]]
    BY <1>3 DEF ChangeRule
  <2>2. \A i \in DOMAIN incidents :
          IF i \in FiringOf(r) THEN Ended(i) ELSE incidents'[i] = incidents[i]
    BY <2>1 DEF Ended
  <2> QED BY <2>1, <2>2
<1> QED BY <1>2, <1>3

LEMMA EditChange ==
  ASSUME TypeOK, NEW r \in Rules, NEW resolve \in BOOLEAN, ChangeRule(r, resolve)
  PROVE  Dismissed
BY ChangeEdits DEF Dismissed

LEMMA HandEnds ==
  ASSUME TypeOK, NEW i \in DOMAIN incidents, ResolveByHand(i)
  PROVE  Ended(i) /\ OthersStay(i)
<1>1. incidents \in Seq(Incident) /\ incidents[i] \in Incident
  BY DEF TypeOK
<1>2. incidents' = [incidents EXCEPT ![i].status = "resolved"]
  BY DEF ResolveByHand
<1>3. incidents'[i] = [incidents[i] EXCEPT !.status = "resolved", !.invalidated = incidents[i].invalidated]
  BY <1>1, <1>2 DEF Incident
<1>4. incidents[i].invalidated \in BOOLEAN
  BY <1>1 DEF Incident
<1> QED BY <1>1, <1>2, <1>3, <1>4 DEF Ended, OthersStay

LEMMA HandChange ==
  ASSUME TypeOK, NEW i \in DOMAIN incidents, ResolveByHand(i)
  PROVE  Dismissed
BY HandEnds DEF OthersStay, Dismissed

\* What a step may do to the incidents.
LEMMA IncidentsChange ==
  ASSUME Typed, [Next]_vars
  PROVE  \/ Nothing \/ Dismissed
         \/ \E p \in Pollers : Opens(p) \/ Silences(p) \/ Resolves(p)
<1>1. ASSUME NEW p \in Pollers, OpenIncident(p) PROVE Nothing \/ Opens(p)
  BY <1>1 DEF OpenIncident, Nothing, Opens
<1>2. ASSUME NEW r \in Rules, UserStep(r) PROVE Nothing \/ Dismissed
  <2>1. ASSUME NEW m \in BOOLEAN, SetMuted(r, m) PROVE Nothing
    BY <2>1 DEF SetMuted, Nothing
  <2>2. (\E b \in BOOLEAN : ChangeRule(r, b)) => Dismissed
    BY EditChange DEF Typed
  <2> QED BY <1>2, <2>1, <2>2 DEF UserStep, EditRule, DisableRule, EnableRule, DeleteRule
<1>3. ASSUME NEW p \in Pollers,
             \/ LoadRules(p) \/ ReadCursor(p) \/ Collect(p) \/ Publish(p) \/ Finish(p)
             \/ NextRule(p) \/ FindActive(p) \/ CheckCooldown(p) \/ Crash(p)
      PROVE  Nothing
  BY <1>3 DEF LoadRules, ReadCursor, Collect, Publish, Finish, NextRule, FindActive,
              CheckCooldown, Crash, Nothing
<1>4. Tick \/ (\E r \in Rules : SnoozeExpires(r)) \/ UNCHANGED vars => Nothing
  BY DEF Tick, SnoozeExpires, vars, Nothing
<1> QED BY <1>1, <1>2, <1>3, <1>4, SuppressChange, ClearChange, HandChange DEF Next, PollStep, Typed

\* The incidents keep their types; what was written when one was opened stays, and
\* one that was ended stays so.
Keeps(i) ==
  /\ incidents'[i].rule = incidents[i].rule
  /\ incidents'[i].openedBy = incidents[i].openedBy
  /\ incidents'[i].sampledRev = incidents[i].sampledRev
  /\ incidents'[i].rev = incidents[i].rev
  /\ incidents'[i].status = "firing" => incidents[i].status = "firing"

LEMMA SameSize ==
  ASSUME incidents \in Seq(Incident),
         incidents' = [j \in DOMAIN incidents |-> incidents'[j]],
         \A i \in DOMAIN incidents : incidents'[i] \in Incident
  PROVE  incidents' \in Seq(Incident) /\ DOMAIN incidents' = DOMAIN incidents
<1>1. DOMAIN incidents = 1 .. Len(incidents) /\ Len(incidents) \in Nat
  OBVIOUS
<1> QED BY <1>1

LEMMA IncidentTypes ==
  ASSUME Typed,
         \/ Nothing \/ Dismissed
         \/ \E p \in Pollers : Opens(p) \/ Silences(p) \/ Resolves(p)
  PROVE  /\ incidents' \in Seq(Incident)
         /\ DOMAIN incidents \subseteq DOMAIN incidents'
         /\ \A i \in DOMAIN incidents : Keeps(i)
<1>t. /\ incidents \in Seq(Incident) /\ now \in Nat
      /\ \A p \in Pollers : rule[p] \in Rules /\ sample[p] \in Sample
      /\ \A r \in Rules : rev[r] \in Nat
  BY DEF Typed, TypeOK
<1>e. \A i \in DOMAIN incidents : incidents[i] \in Incident
  BY <1>t
<1>1. CASE Nothing
  BY <1>1, <1>t DEF Nothing, Keeps
<1>2. CASE Dismissed
  <2>1. ASSUME NEW i \in DOMAIN incidents PROVE incidents'[i] \in Incident /\ Keeps(i)
    <3>1. incidents[i] \in Incident
      BY <1>e
    <3>2. CASE incidents'[i] = incidents[i]
      BY <3>1, <3>2 DEF Keeps
    <3>3. CASE Ended(i)
      BY <3>1, <3>3 DEF Ended, Keeps, Incident
    <3> QED BY <1>2, <3>2, <3>3 DEF Dismissed
  <2> QED BY <1>2, <1>t, <2>1, SameSize DEF Dismissed
<1>3. ASSUME NEW p \in Pollers, Silences(p)
      PROVE  incidents' \in Seq(Incident) /\ DOMAIN incidents' = DOMAIN incidents
             /\ \A i \in DOMAIN incidents : Keeps(i)
  <2>1. target[p] \in DOMAIN incidents /\ sample[p].token \in Nat
    BY <1>3, <1>t DEF Silences, Typed, Placed, Sample
  <2>2. incidents'[target[p]] \in Incident /\ Keeps(target[p])
    <3> DEFINE x == incidents[target[p]]
               y == incidents'[target[p]]
               s == x.silenced \cup {sample[p].token}
    <3>1. PICK n \in Nat :
            y = [x EXCEPT !.suppressed = n, !.lastToken = sample[p].token, !.silenced = s]
      BY <1>3 DEF Silences, Counts
    <3>2. x \in Incident
      BY <1>e, <2>1
    <3>3. s \in SUBSET Nat
      BY <2>1, <3>2 DEF Incident
    <3> HIDE DEF s, x, y
    <3>4. /\ y \in Incident /\ y.rule = x.rule /\ y.openedBy = x.openedBy
          /\ y.sampledRev = x.sampledRev /\ y.rev = x.rev /\ y.status = x.status
      BY <2>1, <3>1, <3>2, <3>3 DEF Incident
    <3> QED BY <3>4 DEF Keeps, x, y
  <2>3. \A i \in DOMAIN incidents \ {target[p]} : incidents'[i] \in Incident /\ Keeps(i)
    BY <1>3, <1>e DEF Silences, OthersStay, Keeps
  <2> QED BY <1>3, <1>t, <2>2, <2>3, SameSize DEF Silences, OthersStay
<1>4. ASSUME NEW p \in Pollers, Resolves(p)
      PROVE  incidents' \in Seq(Incident) /\ DOMAIN incidents' = DOMAIN incidents
             /\ \A i \in DOMAIN incidents : Keeps(i)
  <2>1. target[p] \in DOMAIN incidents /\ Id(sample[p]) \in Nat \X Nat
    BY <1>4, <1>t DEF Resolves, Typed, Placed, Sample, Id
  <2>2. incidents'[target[p]] \in Incident /\ Keeps(target[p])
    BY <1>4, <1>e, <2>1 DEF Resolves, Clears, Keeps, Incident
  <2>3. \A i \in DOMAIN incidents \ {target[p]} : incidents'[i] \in Incident /\ Keeps(i)
    BY <1>4, <1>e DEF Resolves, OthersStay, Keeps
  <2> QED BY <1>4, <1>t, <2>2, <2>3, SameSize DEF Resolves, OthersStay
<1>5. ASSUME NEW p \in Pollers, Opens(p)
      PROVE  incidents' \in Seq(Incident) /\ DOMAIN incidents \subseteq DOMAIN incidents'
             /\ \A i \in DOMAIN incidents : Keeps(i)
  <2>1. NewIncident(p) \in Incident
    BY <1>t DEF NewIncident, Incident, Id, Sample
  <2>2. \A i \in DOMAIN incidents : incidents'[i] = incidents[i]
    BY <1>5, <1>t DEF Opens
  <2> QED BY <1>5, <1>t, <2>1, <2>2 DEF Opens, Keeps
<1> QED BY <1>1, <1>2, <1>3, <1>4, <1>5

LEMMA TypedInit == Init => Typed
<1> SUFFICES ASSUME Init PROVE Typed
  OBVIOUS
<1>1. NoSample \in Sample
  BY DEF NoSample, Sample
<1> QED BY <1>1, MonitorAssumption DEF Init, Typed, TypeOK, Placed

\* A sample that is taken has the type of one.
LEMMA SampleType ==
  ASSUME TypeOK, NEW p \in Pollers, Collect(p)
  PROVE  sample' \in [Pollers -> Sample] /\ drawn' \in SUBSET Tokens
<1>1. PICK t \in Tokens \ drawn, h \in SUBSET Loaded(p) :
        /\ drawn' = drawn \cup {t}
        /\ sample' = [sample EXCEPT ![p] =
             [at |-> now, token |-> t, base |-> sample[p].at, revs |-> known[p], hot |-> h]]
  BY DEF Collect
<1>2. [at |-> now, token |-> t, base |-> sample[p].at, revs |-> known[p], hot |-> h] \in Sample
  BY MonitorAssumption DEF TypeOK, Sample, Loaded
<1> QED BY <1>1, <1>2 DEF TypeOK

\* What is typed besides the incidents.
RestTyped ==
  /\ now \in Nat /\ rev \in [Rules -> Nat \ {0}]
  /\ enabled \in [Rules -> BOOLEAN] /\ muted \in [Rules -> BOOLEAN]
  /\ listed \in [Rules -> BOOLEAN]
  /\ cursor \in Sample /\ applied \in BOOLEAN /\ drawn \in SUBSET Tokens
  /\ pc \in [Pollers -> {"idle", "cursor", "collect", "publish", "next"} \cup Evaluating]
  /\ known \in [Pollers -> [Rules -> Nat]]
  /\ sample \in [Pollers -> Sample]
  /\ replaying \in [Pollers -> BOOLEAN]
  /\ todo \in [Pollers -> SUBSET Rules]
  /\ rule \in [Pollers -> Rules]
  /\ target \in [Pollers -> Nat]
  /\ edits \in Nat /\ crashes \in Nat

LEMMA RestStep ==
  ASSUME Typed, [Next]_vars
  PROVE  RestTyped'
<1>t. TypeOK
  BY DEF Typed
<1>i. incidents \in Seq(Incident)
  BY <1>t DEF TypeOK
<1>1. ASSUME NEW p \in Pollers, LoadRules(p) PROVE RestTyped'
  BY <1>t, <1>1 DEF LoadRules, Goto, ruleVars, TypeOK, RestTyped, Evaluating
<1>2. ASSUME NEW p \in Pollers, ReadCursor(p) PROVE RestTyped'
  BY <1>t, <1>2 DEF ReadCursor, Replayable, Loaded, Goto, ruleVars, TypeOK, RestTyped, Evaluating
<1>3. ASSUME NEW p \in Pollers, Collect(p) PROVE RestTyped'
  BY <1>t, <1>3, SampleType DEF Collect, Goto, ruleVars, TypeOK, RestTyped, Evaluating
<1>4. ASSUME NEW p \in Pollers, Publish(p) PROVE RestTyped'
  BY <1>t, <1>4 DEF Publish, Upsert, Loaded, Goto, ruleVars, TypeOK, RestTyped, Evaluating
<1>5. ASSUME NEW p \in Pollers, Finish(p) PROVE RestTyped'
  BY <1>t, <1>5 DEF Finish, Upsert, Goto, ruleVars, TypeOK, RestTyped, Evaluating
<1>6. ASSUME NEW p \in Pollers, NextRule(p) PROVE RestTyped'
  <2>1. PICK r \in todo[p] :
          /\ todo' = [todo EXCEPT ![p] = @ \ {r}]
          /\ IF Active(r) /\ rev[r] = known[p][r]
             THEN rule' = [rule EXCEPT ![p] = r] /\ Goto(p, "find")
             ELSE UNCHANGED <<rule, pc>>
    BY <1>6 DEF NextRule
  <2>2. r \in Rules /\ rule' \in [Pollers -> Rules] /\ todo' \in [Pollers -> SUBSET Rules]
    BY <1>t, <2>1 DEF TypeOK
  <2>3. pc' \in [Pollers -> {"idle", "cursor", "collect", "publish", "next"} \cup Evaluating]
    BY <1>t, <2>1 DEF TypeOK, Goto, Evaluating
  <2>4. UNCHANGED <<now, ruleVars, cursor, applied, drawn, known, sample, replaying, target,
                    edits, crashes>>
    BY <1>6 DEF NextRule
  <2> QED BY <1>t, <2>2, <2>3, <2>4 DEF ruleVars, TypeOK, RestTyped
<1>7. ASSUME NEW p \in Pollers, FindActive(p) PROVE RestTyped'
  <2>1. FiringOf(rule[p]) \subseteq Nat
    BY <1>i DEF FiringOf
  <2>2. (IF FiringOf(rule[p]) = {} THEN 0 ELSE CHOOSE i \in FiringOf(rule[p]) : TRUE) \in Nat
    BY <2>1
  <2>3. target' \in [Pollers -> Nat]
    BY <1>t, <1>7, <2>2 DEF FindActive, TypeOK
  <2>4. pc' \in [Pollers -> {"idle", "cursor", "collect", "publish", "next"} \cup Evaluating]
    BY <1>t, <1>7 DEF FindActive, Goto, TypeOK, Evaluating
  <2>5. UNCHANGED <<now, ruleVars, cursor, applied, drawn, known, sample, replaying, todo, rule,
                    edits, crashes>>
    BY <1>7 DEF FindActive
  <2> QED BY <1>t, <2>3, <2>4, <2>5 DEF ruleVars, TypeOK, RestTyped
<1>8. ASSUME NEW p \in Pollers, CheckCooldown(p) PROVE RestTyped'
  <2>1. Anchor(p) \subseteq Nat
    BY <1>i DEF Anchor
  <2> QED BY <1>t, <1>8, <2>1 DEF CheckCooldown, Goto, ruleVars, TypeOK, RestTyped, Evaluating
<1>9. ASSUME NEW p \in Pollers, Suppress(p) PROVE RestTyped'
  BY <1>t, <1>9 DEF Suppress, Goto, ruleVars, TypeOK, RestTyped, Evaluating
<1>10. ASSUME NEW p \in Pollers, OpenIncident(p) \/ ClearIncident(p) PROVE RestTyped'
  BY <1>t, <1>10 DEF OpenIncident, ClearIncident, Goto, ruleVars, TypeOK, RestTyped, Evaluating
<1>11. ASSUME NEW p \in Pollers, Crash(p) PROVE RestTyped'
  BY <1>t, <1>11 DEF Crash, Goto, ruleVars, TypeOK, RestTyped, Evaluating
<1>12. ASSUME NEW r \in Rules, UserStep(r) PROVE RestTyped'
  <2>1. ASSUME NEW m \in BOOLEAN, SetMuted(r, m) PROVE RestTyped'
    BY <1>t, <2>1 DEF SetMuted, workVars, TypeOK, RestTyped, Evaluating
  <2>2. ASSUME NEW b \in BOOLEAN, ChangeRule(r, b),
               enabled' \in [Rules -> BOOLEAN], listed' \in [Rules -> BOOLEAN]
        PROVE  RestTyped'
    <3>1. /\ rev' = [rev EXCEPT ![r] = @ + 1] /\ edits' = edits + 1
          /\ UNCHANGED <<now, muted, cursor, applied, drawn, workVars, crashes>>
      BY <2>2 DEF ChangeRule
    <3> QED BY <1>t, <2>2, <3>1 DEF workVars, TypeOK, RestTyped, Evaluating
  <2>3. CASE EditRule(r)
    BY <1>t, <2>2, <2>3 DEF EditRule, TypeOK
  <2>4. CASE DisableRule(r)
    BY <1>t, <2>2, <2>4 DEF DisableRule, TypeOK
  <2>5. CASE EnableRule(r)
    BY <1>t, <2>2, <2>5 DEF EnableRule, TypeOK
  <2>6. CASE DeleteRule(r)
    BY <1>t, <2>2, <2>6 DEF DeleteRule, TypeOK
  <2> QED BY <1>12, <2>1, <2>3, <2>4, <2>5, <2>6 DEF UserStep
<1>13. ASSUME NEW r \in Rules, SnoozeExpires(r) PROVE RestTyped'
  BY <1>t, <1>13 DEF SnoozeExpires, workVars, TypeOK, RestTyped, Evaluating
<1>14. ASSUME NEW i \in DOMAIN incidents, ResolveByHand(i) PROVE RestTyped'
  BY <1>t, <1>14 DEF ResolveByHand, ruleVars, workVars, TypeOK, RestTyped, Evaluating
<1>15. Tick \/ UNCHANGED vars => RestTyped'
  BY <1>t DEF Tick, vars, ruleVars, workVars, TypeOK, RestTyped, Evaluating
<1> QED BY <1>1, <1>2, <1>3, <1>4, <1>5, <1>6, <1>7, <1>8, <1>9, <1>10, <1>11, <1>12, <1>13, <1>14, <1>15
        DEF Next, PollStep

LEMMA PlacedStep ==
  ASSUME Typed, [Next]_vars
  PROVE  Placed'
<1>1. /\ DOMAIN incidents \subseteq DOMAIN incidents'
      /\ \A i \in DOMAIN incidents : incidents'[i].rule = incidents[i].rule
  BY IncidentsChange, IncidentTypes DEF Keeps
<1>2. SUFFICES ASSUME NEW q \in Pollers, pc'[q] \in {"suppress", "clear"}
               PROVE  target'[q] \in DOMAIN incidents /\ incidents[target'[q]].rule = rule'[q]
  BY <1>1 DEF Placed
<1>t. TypeOK /\ Placed
  BY DEF Typed
<1>3. CASE pc'[q] = pc[q] /\ target'[q] = target[q] /\ rule'[q] = rule[q]
  BY <1>2, <1>3, <1>t DEF Placed
<1>4. ASSUME NEW p \in Pollers, FindActive(p), p = q
      PROVE  target'[q] \in DOMAIN incidents /\ incidents[target'[q]].rule = rule'[q]
  <2>1. pc'[q] = "clear" /\ FiringOf(rule[q]) # {}
    BY <1>2, <1>4, <1>t DEF FindActive, Hot, Goto, TypeOK
  <2>2. target'[q] = CHOOSE i \in FiringOf(rule[q]) : TRUE
    BY <1>4, <1>t, <2>1 DEF FindActive, TypeOK
  <2>3. target'[q] \in FiringOf(rule[q])
    BY <2>1, <2>2
  <2> QED BY <1>4, <2>3 DEF FiringOf, FindActive
<1>5. ASSUME NEW p \in Pollers, CheckCooldown(p), p = q
      PROVE  target'[q] \in DOMAIN incidents /\ incidents[target'[q]].rule = rule'[q]
  <2>1. target'[q] \in Anchor(q)
    BY <1>2, <1>5, <1>t DEF CheckCooldown, Goto, TypeOK
  <2> QED BY <1>5, <2>1 DEF Anchor, CheckCooldown
<1>6. ASSUME NEW p \in Pollers, PollStep(p) \/ Crash(p)
      PROVE  \/ FindActive(p) /\ p = q
             \/ CheckCooldown(p) /\ p = q
             \/ pc'[q] = pc[q] /\ target'[q] = target[q] /\ rule'[q] = rule[q]
  <2>1. CASE p # q
    BY <1>6, <2>1, <1>t DEF PollStep, LoadRules, ReadCursor, Collect, Publish, Finish, NextRule,
         FindActive, CheckCooldown, Suppress, OpenIncident, ClearIncident, Crash, Goto, TypeOK
  <2>2. CASE p = q
    BY <1>2, <1>6, <2>2, <1>t DEF PollStep, LoadRules, ReadCursor, Collect, Publish, Finish, NextRule,
         Suppress, OpenIncident, ClearIncident, Crash, Goto, TypeOK
  <2> QED BY <2>1, <2>2
<1>7. (\E r \in Rules : UserStep(r) \/ SnoozeExpires(r)) \/ Tick \/ UNCHANGED vars
      \/ (\E i \in DOMAIN incidents : ResolveByHand(i)) => UNCHANGED <<pc, target, rule>>
  BY DEF UserStep, EditRule, DisableRule, EnableRule, DeleteRule, ChangeRule, SetMuted,
         SnoozeExpires, ResolveByHand, Tick, vars, workVars
<1> QED BY <1>3, <1>4, <1>5, <1>6, <1>7 DEF Next

LEMMA TypedStep == Typed /\ [Next]_vars => Typed'
<1> SUFFICES ASSUME Typed, [Next]_vars PROVE Typed'
  OBVIOUS
<1>1. RestTyped' /\ Placed'
  BY RestStep, PlacedStep
<1>2. incidents' \in Seq(Incident)
  BY IncidentsChange, IncidentTypes
<1>3. RestTyped' /\ incidents' \in Seq(Incident) => TypeOK'
  BY DEF RestTyped, TypeOK, Evaluating
<1> QED BY <1>1, <1>2, <1>3 DEF Typed

\* Rows, samples, incidents and what every replica holds keep their types.
THEOREM TypeCorrect == Spec => []TypeOK
<1>1. Typed => TypeOK
  BY DEF Typed
<1> QED BY <1>1, TypedInit, TypedStep, PTL DEF Spec

-----------------------------------------------------------------------------
(* One firing incident a rule *)

OneFiring ==
  \A i, j \in DOMAIN incidents :
    /\ incidents[i].status = "firing" /\ incidents[j].status = "firing"
    /\ incidents[i].rule = incidents[j].rule
    => i = j

LEMMA OneFiringStep == Typed /\ OneFiring /\ [Next]_vars => OneFiring'
<1> SUFFICES ASSUME Typed, OneFiring, [Next]_vars,
                    NEW i \in DOMAIN incidents', NEW j \in DOMAIN incidents',
                    incidents'[i].status = "firing", incidents'[j].status = "firing",
                    incidents'[i].rule = incidents'[j].rule
             PROVE  i = j
  BY DEF OneFiring
<1>1. /\ incidents \in Seq(Incident)
      /\ \A k \in DOMAIN incidents : Keeps(k)
  BY IncidentsChange, IncidentTypes DEF Typed, TypeOK
<1>2. CASE i \in DOMAIN incidents /\ j \in DOMAIN incidents
  BY <1>1, <1>2 DEF Keeps, OneFiring
<1>3. CASE DOMAIN incidents' = DOMAIN incidents
  BY <1>2, <1>3
<1>4. ASSUME NEW p \in Pollers, Opens(p) PROVE i = j
  <2>1. incidents' = Append(incidents, NewIncident(p))
    BY <1>4 DEF Opens
  <2>2. NewIncident(p).rule = rule[p]
    BY DEF NewIncident
  <2>3. \A k \in DOMAIN incidents : incidents[k].rule = rule[p] => incidents[k].status # "firing"
    BY <1>4 DEF Opens, FiringOf
  <2>4. \A k \in DOMAIN incidents : incidents'[k] = incidents[k]
    BY <1>1, <2>1
  <2>5. \A k \in DOMAIN incidents' \ DOMAIN incidents :
          k = Len(incidents) + 1 /\ incidents'[k].rule = rule[p]
    BY <1>1, <2>1, <2>2
  <2> QED BY <1>2, <2>3, <2>4, <2>5
<1>5. Nothing \/ Dismissed \/ (\E p \in Pollers : Silences(p) \/ Resolves(p))
      => DOMAIN incidents' = DOMAIN incidents
  BY DEF Nothing, Dismissed, Silences, Resolves, OthersStay
<1> QED BY <1>3, <1>4, <1>5, IncidentsChange

LEMMA AtMostOne ==
  ASSUME NEW S, \A x, y \in S : x = y
  PROVE  Cardinality(S) <= 1
<1>1. CASE S = {}
  BY <1>1, FS_EmptySet
<1>2. CASE S # {}
  <2>1. PICK x \in S : S = {x}
    BY <1>2
  <2> QED BY <2>1, FS_Singleton
<1> QED BY <1>1, <1>2

\* However the replicas' reads and inserts cross, one incident of a rule fires.
THEOREM OneFires == Spec => []OneFiringPerRule
<1>1. Init => OneFiring
  BY DEF Init, OneFiring
<1>2. OneFiring => OneFiringPerRule
  <2> SUFFICES ASSUME OneFiring, NEW r \in Rules PROVE Cardinality(FiringOf(r)) <= 1
    BY DEF OneFiringPerRule
  <2>1. \A x, y \in FiringOf(r) : x = y
    BY DEF OneFiring, FiringOf
  <2> QED BY <2>1, AtMostOne
<1> QED BY <1>1, <1>2, TypedInit, TypedStep, OneFiringStep, PTL DEF Spec

-----------------------------------------------------------------------------
(* A sample is evaluated for the revisions it was taken under *)

\* What a worker still has to evaluate with the sample at hand.
Doing(p) == todo[p] \cup (IF pc[p] \in Evaluating THEN {rule[p]} ELSE {})

AsSampled ==
  \A p \in Pollers :
    /\ pc[p] \in {"idle", "cursor", "collect", "publish"} => todo[p] = {}
    /\ pc[p] = "publish" => sample[p].revs = known[p]
    /\ \A r \in Doing(p) : sample[p].revs[r] = known[p][r]

LEMMA AsSampledStep == Typed /\ AsSampled /\ [Next]_vars => AsSampled'
<1> SUFFICES ASSUME Typed, AsSampled, [Next]_vars, NEW q \in Pollers
             PROVE  /\ pc'[q] \in {"idle", "cursor", "collect", "publish"} => todo'[q] = {}
                    /\ pc'[q] = "publish" => sample'[q].revs = known'[q]
                    /\ \A r \in todo'[q] \cup (IF pc'[q] \in Evaluating THEN {rule'[q]} ELSE {}) :
                         sample'[q].revs[r] = known'[q][r]
  BY DEF AsSampled, Doing
<1>t. TypeOK
  BY DEF Typed
<1>i. /\ pc[q] \in {"idle", "cursor", "collect", "publish"} => todo[q] = {}
      /\ pc[q] = "publish" => sample[q].revs = known[q]
      /\ \A r \in todo[q] : sample[q].revs[r] = known[q][r]
      /\ pc[q] \in Evaluating => sample[q].revs[rule[q]] = known[q][rule[q]]
  BY DEF AsSampled, Doing
<1> DEFINE Goal == /\ pc'[q] \in {"idle", "cursor", "collect", "publish"} => todo'[q] = {}
                   /\ pc'[q] = "publish" => sample'[q].revs = known'[q]
                   /\ \A r \in todo'[q] : sample'[q].revs[r] = known'[q][r]
                   /\ pc'[q] \in Evaluating => sample'[q].revs[rule'[q]] = known'[q][rule'[q]]
<1> SUFFICES Goal
  OBVIOUS
<1>1. CASE UNCHANGED <<pc, todo, known>> /\ sample'[q] = sample[q] /\ rule'[q] = rule[q]
  BY <1>1, <1>i
<1>2. ASSUME NEW p \in Pollers, p # q, PollStep(p) \/ Crash(p) PROVE Goal
  BY <1>2, <1>i, <1>t DEF PollStep, LoadRules, ReadCursor, Collect, Publish, Finish, NextRule,
     FindActive, CheckCooldown, Suppress, OpenIncident, ClearIncident, Crash, Goto, TypeOK
<1>3. CASE LoadRules(q)
  BY <1>3, <1>i, <1>t DEF LoadRules, Goto, Evaluating, TypeOK
<1>4. CASE ReadCursor(q)
  BY <1>4, <1>i, <1>t DEF ReadCursor, Replayable, Goto, Evaluating, TypeOK
<1>5. CASE Collect(q)
  <2>1. sample'[q].revs = known[q] /\ pc'[q] = "publish" /\ UNCHANGED <<known, todo>>
    BY <1>5, <1>t DEF Collect, Goto, TypeOK
  <2> QED BY <1>5, <1>i, <2>1 DEF Collect, Evaluating
<1>6. CASE Publish(q)
  BY <1>6, <1>i, <1>t DEF Publish, Goto, Evaluating, TypeOK
<1>7. CASE Finish(q) \/ Crash(q)
  BY <1>7, <1>i, <1>t DEF Finish, Crash, Goto, Evaluating, TypeOK
<1>8. CASE NextRule(q)
  BY <1>8, <1>i, <1>t DEF NextRule, Goto, Evaluating, TypeOK
<1>9. CASE \/ FindActive(q) \/ CheckCooldown(q) \/ Suppress(q)
          \/ OpenIncident(q) \/ ClearIncident(q)
  BY <1>9, <1>i, <1>t DEF FindActive, CheckCooldown, Suppress, OpenIncident, ClearIncident, Goto,
                          Evaluating, TypeOK
<1>10. \/ \E r \in Rules : UserStep(r) \/ SnoozeExpires(r)
       \/ (\E k \in DOMAIN incidents : ResolveByHand(k)) \/ Tick \/ UNCHANGED vars
       => UNCHANGED <<pc, todo, known, sample, rule>>
  BY DEF UserStep, EditRule, DisableRule, EnableRule, DeleteRule, ChangeRule, SetMuted,
         SnoozeExpires, ResolveByHand, Tick, vars, workVars
<1> HIDE DEF Goal
<1> QED BY <1>1, <1>2, <1>3, <1>4, <1>5, <1>6, <1>7, <1>8, <1>9, <1>10 DEF Next, PollStep

LEMMA PredatedStep ==
  Typed /\ AsSampled /\ NoPredatedIncident /\ [Next]_vars => NoPredatedIncident'
<1> SUFFICES ASSUME Typed, AsSampled, NoPredatedIncident, [Next]_vars,
                    NEW i \in DOMAIN incidents'
             PROVE  incidents'[i].sampledRev = incidents'[i].rev
  BY DEF NoPredatedIncident
<1>1. incidents \in Seq(Incident) /\ \A k \in DOMAIN incidents : Keeps(k)
  BY IncidentsChange, IncidentTypes DEF Typed, TypeOK
<1>2. CASE i \in DOMAIN incidents
  BY <1>1, <1>2 DEF Keeps, NoPredatedIncident
<1>3. ASSUME NEW p \in Pollers, Opens(p), i \notin DOMAIN incidents
      PROVE  incidents'[i].sampledRev = incidents'[i].rev
  <2>1. incidents'[i] = NewIncident(p)
    BY <1>1, <1>3 DEF Opens
  <2>2. sample[p].revs[rule[p]] = known[p][rule[p]] /\ rev[rule[p]] = known[p][rule[p]]
    BY <1>3 DEF Opens, AsSampled, Doing, Evaluating, Current, RuleUnchanged
  <2> QED BY <2>1, <2>2 DEF NewIncident
<1>4. Nothing \/ Dismissed \/ (\E p \in Pollers : Silences(p) \/ Resolves(p))
      => DOMAIN incidents' = DOMAIN incidents
  BY DEF Nothing, Dismissed, Silences, Resolves, OthersStay
<1> QED BY <1>2, <1>3, <1>4, IncidentsChange

\* No edit, however it falls, lets an incident open from a sample that was taken
\* under another revision of its rule.
THEOREM NothingPredated == Spec => []NoPredatedIncident
<1>1. Init => AsSampled /\ NoPredatedIncident
  BY DEF Init, AsSampled, Doing, Evaluating, NoPredatedIncident
<1> QED BY <1>1, TypedInit, TypedStep, AsSampledStep, PredatedStep, PTL DEF Spec

-----------------------------------------------------------------------------
(* The cursor only moves on *)

\* Every incident was opened by a sample that was the cursor at the time.
Opened == \A i \in DOMAIN incidents : NotAfter(incidents[i].openedBy, Id(cursor))

LEMMA CursorMoves ==
  ASSUME TypeOK, [Next]_vars
  PROVE  \/ UNCHANGED <<cursor, applied>>
         \/ \E p \in Pollers : /\ pc[p] \in {"publish", "next"}
                               /\ NotAfter(Id(cursor), Id(sample[p]))
                               /\ cursor' = sample[p]
<1>1. ASSUME NEW p \in Pollers, Publish(p) \/ Finish(p)
      PROVE  \/ UNCHANGED <<cursor, applied>>
             \/ /\ pc[p] \in {"publish", "next"} /\ NotAfter(Id(cursor), Id(sample[p]))
                /\ cursor' = sample[p]
  BY <1>1 DEF Publish, Finish, Upsert
<1>2. ASSUME NEW p \in Pollers,
             \/ LoadRules(p) \/ ReadCursor(p) \/ Collect(p) \/ NextRule(p) \/ FindActive(p)
             \/ CheckCooldown(p) \/ Suppress(p) \/ OpenIncident(p) \/ ClearIncident(p) \/ Crash(p)
      PROVE  UNCHANGED <<cursor, applied>>
  BY <1>2 DEF LoadRules, ReadCursor, Collect, NextRule, FindActive, CheckCooldown, Suppress,
              OpenIncident, ClearIncident, Crash
<1>3. \/ \E r \in Rules : UserStep(r) \/ SnoozeExpires(r)
      \/ (\E k \in DOMAIN incidents : ResolveByHand(k)) \/ Tick \/ UNCHANGED vars
      => UNCHANGED <<cursor, applied>>
  BY DEF UserStep, EditRule, DisableRule, EnableRule, DeleteRule, ChangeRule, SetMuted,
         SnoozeExpires, ResolveByHand, Tick, vars
<1> QED BY <1>1, <1>2, <1>3 DEF Next, PollStep

LEMMA CursorOrder ==
  ASSUME TypeOK, [Next]_vars
  PROVE  NotAfter(Id(cursor), Id(cursor'))
<1>1. NotAfter(Id(cursor), Id(cursor))
  BY DEF TypeOK, NotAfter, Id, Sample
<1> QED BY <1>1, CursorMoves

LEMMA NotAfterTransitive ==
  ASSUME NEW x \in Nat \X Nat, NEW y \in Nat \X Nat, NEW z \in Nat \X Nat,
         NotAfter(x, y), NotAfter(y, z)
  PROVE  NotAfter(x, z)
BY DEF NotAfter

LEMMA OpenedStep == Typed /\ Opened /\ [Next]_vars => Opened'
<1> SUFFICES ASSUME Typed, Opened, [Next]_vars, NEW i \in DOMAIN incidents'
             PROVE  NotAfter(incidents'[i].openedBy, Id(cursor'))
  BY DEF Opened, Id
<1>t. TypeOK /\ TypeOK'
  BY TypedStep DEF Typed
<1>1. incidents \in Seq(Incident) /\ \A k \in DOMAIN incidents : Keeps(k)
  BY IncidentsChange, IncidentTypes DEF Typed, TypeOK
<1>2. Id(cursor) \in Nat \X Nat /\ Id(cursor') \in Nat \X Nat
  BY <1>t DEF TypeOK, Sample, Id
<1>3. incidents'[i] \in Incident
  BY <1>t DEF TypeOK
<1>4. incidents'[i].openedBy \in Nat \X Nat
  BY <1>3 DEF Incident
<1>5. NotAfter(incidents'[i].openedBy, Id(cursor))
  <2>1. CASE i \in DOMAIN incidents
    BY <1>1, <2>1 DEF Keeps, Opened
  <2>2. ASSUME NEW p \in Pollers, Opens(p), i \notin DOMAIN incidents
        PROVE  NotAfter(incidents'[i].openedBy, Id(cursor))
    <3>1. incidents'[i] = NewIncident(p)
      BY <1>1, <2>2 DEF Opens
    <3>2. incidents'[i].openedBy = Id(cursor)
      BY <2>2, <3>1 DEF NewIncident, Opens, Current
    <3> QED BY <1>t, <3>2 DEF NotAfter, Id, TypeOK, Sample
  <2>3. Nothing \/ Dismissed \/ (\E p \in Pollers : Silences(p) \/ Resolves(p))
        => DOMAIN incidents' = DOMAIN incidents
    BY DEF Nothing, Dismissed, Silences, Resolves, OthersStay
  <2> QED BY <2>1, <2>2, <2>3, IncidentsChange
<1> QED BY <1>2, <1>4, <1>5, <1>t, CursorOrder, NotAfterTransitive

LEMMA ClearedStep ==
  Typed /\ Opened /\ ClearedByNewerSample /\ [Next]_vars => ClearedByNewerSample'
<1> SUFFICES ASSUME Typed, Opened, ClearedByNewerSample, [Next]_vars, NEW i \in DOMAIN incidents',
                    incidents'[i].clearedBy # <<0, 0>>
             PROVE  NotAfter(incidents'[i].openedBy, incidents'[i].clearedBy)
  BY DEF ClearedByNewerSample
<1>1. incidents \in Seq(Incident) /\ \A k \in DOMAIN incidents : Keeps(k) /\ incidents[k] \in Incident
  BY IncidentsChange, IncidentTypes DEF Typed, TypeOK
<1>2. CASE i \in DOMAIN incidents /\ incidents'[i].clearedBy = incidents[i].clearedBy
  BY <1>1, <1>2 DEF Keeps, ClearedByNewerSample
<1>3. ASSUME NEW p \in Pollers, Resolves(p)
      PROVE  NotAfter(incidents'[i].openedBy, incidents'[i].clearedBy)
  <2>0. i \in DOMAIN incidents
    BY <1>3 DEF Resolves, OthersStay
  <2>1. CASE i # target[p]
    BY <1>2, <1>3, <2>0, <2>1 DEF Resolves, OthersStay
  <2>2. CASE i = target[p]
    <3>1. incidents'[i].clearedBy = Id(cursor)
      BY <1>1, <1>3, <2>0, <2>2 DEF Resolves, Clears, Current, Incident
    <3> QED BY <1>1, <2>0, <3>1 DEF Keeps, Opened
  <2> QED BY <2>1, <2>2
<1>4. ASSUME NEW p \in Pollers, Silences(p) PROVE i \in DOMAIN incidents /\ incidents'[i].clearedBy = incidents[i].clearedBy
  <2>0. i \in DOMAIN incidents
    BY <1>4 DEF Silences, OthersStay
  <2>1. CASE i # target[p]
    BY <1>4, <2>0, <2>1 DEF Silences, OthersStay
  <2>2. CASE i = target[p]
    <3>1. PICK n \in Nat : incidents'[i] = [incidents[i] EXCEPT !.suppressed = n,
                             !.lastToken = sample[p].token, !.silenced = @ \cup {sample[p].token}]
      BY <1>4, <2>2 DEF Silences, Counts
    <3> QED BY <1>1, <2>0, <3>1 DEF Incident
  <2> QED BY <2>0, <2>1, <2>2
<1>5. ASSUME Dismissed PROVE i \in DOMAIN incidents /\ incidents'[i].clearedBy = incidents[i].clearedBy
  <2>0. i \in DOMAIN incidents
    BY <1>5 DEF Dismissed
  <2>1. CASE Ended(i)
    BY <1>1, <2>0, <2>1 DEF Ended, Incident
  <2> QED BY <1>5, <2>0, <2>1 DEF Dismissed
<1>6. ASSUME NEW p \in Pollers, Opens(p) PROVE i \in DOMAIN incidents /\ incidents'[i].clearedBy = incidents[i].clearedBy
  <2>1. CASE i \in DOMAIN incidents
    BY <1>1, <1>6, <2>1 DEF Opens
  <2>2. CASE i \notin DOMAIN incidents
    <3>1. incidents'[i] = NewIncident(p)
      BY <1>1, <1>6, <2>2 DEF Opens
    <3> QED BY <3>1 DEF NewIncident
  <2> QED BY <2>1, <2>2
<1>7. CASE Nothing
  BY <1>2, <1>7 DEF Nothing
<1> QED BY <1>2, <1>3, <1>4, <1>5, <1>6, <1>7, IncidentsChange

\* However slow a replica is, its old sample does not clear an incident that a
\* newer one opened.
THEOREM NewerClears == Spec => []ClearedByNewerSample
<1>1. Init => Opened /\ ClearedByNewerSample
  BY DEF Init, Opened, ClearedByNewerSample
<1> QED BY <1>1, TypedInit, TypedStep, OpenedStep, ClearedStep, PTL DEF Spec

-----------------------------------------------------------------------------
(* Snoozed rules *)

\* A worker that loaded the newest revision of a rule loaded one that is not
\* snoozed: to snooze makes a revision.
Awake ==
  \A p \in Pollers, r \in Rules :
    known[p][r] <= rev[r] /\ (known[p][r] = rev[r] => ~muted[r])

LEMMA AwakeStep == Typed /\ Awake /\ [Next]_vars => Awake'
<1> SUFFICES ASSUME Typed, Awake, [Next]_vars, NEW q \in Pollers, NEW s \in Rules
             PROVE  known'[q][s] <= rev'[s] /\ (known'[q][s] = rev'[s] => ~muted'[s])
  BY DEF Awake
<1> DEFINE Goal == known'[q][s] <= rev'[s] /\ (known'[q][s] = rev'[s] => ~muted'[s])
<1>t. TypeOK
  BY DEF Typed
<1>k. known[q][s] \in Nat /\ rev[s] \in Nat /\ rev[s] # 0
      /\ known[q][s] <= rev[s] /\ (known[q][s] = rev[s] => ~muted[s])
  BY <1>t DEF TypeOK, Awake
<1>1. CASE UNCHANGED <<known, ruleVars>>
  BY <1>1, <1>k DEF ruleVars
<1>2. ASSUME NEW p \in Pollers, LoadRules(p) PROVE Goal
  <2>1. known' = [known EXCEPT ![p] = [r \in Rules |-> IF Active(r) THEN rev[r] ELSE 0]]
        /\ UNCHANGED ruleVars
    BY <1>2 DEF LoadRules
  <2>2. CASE p = q
    <3>1. known'[q][s] = IF Active(s) THEN rev[s] ELSE 0
      BY <1>t, <2>1, <2>2 DEF TypeOK
    <3> QED BY <1>k, <2>1, <3>1 DEF Active, ruleVars
  <2>3. CASE p # q
    BY <1>t, <1>k, <2>1, <2>3 DEF TypeOK, ruleVars
  <2> QED BY <2>2, <2>3
<1>3. ASSUME NEW p \in Pollers,
             \/ ReadCursor(p) \/ Collect(p) \/ Publish(p) \/ Finish(p)
             \/ NextRule(p) \/ FindActive(p) \/ CheckCooldown(p)
             \/ Suppress(p) \/ OpenIncident(p) \/ ClearIncident(p) \/ Crash(p)
      PROVE  Goal
  <2>1. UNCHANGED <<known, ruleVars>>
    BY <1>3 DEF ReadCursor, Collect, Publish, Finish, NextRule, FindActive, CheckCooldown,
                Suppress, OpenIncident, ClearIncident, Crash
  <2> QED BY <1>1, <2>1
<1>4. ASSUME NEW r \in Rules, NEW b \in BOOLEAN, ChangeRule(r, b) PROVE Goal
  <2>1. rev' = [rev EXCEPT ![r] = @ + 1] /\ muted' = muted /\ known' = known
    BY <1>4 DEF ChangeRule, workVars
  <2> QED BY <1>t, <1>k, <2>1 DEF TypeOK
<1>5. ASSUME NEW r \in Rules, NEW m \in BOOLEAN, SetMuted(r, m) PROVE Goal
  <2>1. rev' = [rev EXCEPT ![r] = @ + 1] /\ muted' = [muted EXCEPT ![r] = m] /\ known' = known
    BY <1>5 DEF SetMuted, workVars
  <2> QED BY <1>t, <1>k, <2>1 DEF TypeOK
<1>6. ASSUME NEW r \in Rules, SnoozeExpires(r) PROVE Goal
  <2>1. rev' = rev /\ muted' = [muted EXCEPT ![r] = FALSE] /\ known' = known
    BY <1>6 DEF SnoozeExpires, workVars
  <2> QED BY <1>t, <1>k, <2>1 DEF TypeOK
<1>7. (\E k \in DOMAIN incidents : ResolveByHand(k)) \/ Tick \/ UNCHANGED vars => Goal
  <2>1. (\E k \in DOMAIN incidents : ResolveByHand(k)) \/ Tick \/ UNCHANGED vars
        => UNCHANGED <<known, ruleVars>>
    BY DEF ResolveByHand, Tick, vars, workVars
  <2> QED BY <1>1, <2>1
<1>8. (known'[q][s] <= rev'[s] /\ (known'[q][s] = rev'[s] => ~muted'[s])) <=> Goal
  OBVIOUS
<1> HIDE DEF Goal
<1>9. ASSUME NEW r \in Rules, UserStep(r) PROVE Goal
  BY <1>4, <1>5, <1>9 DEF UserStep, EditRule, DisableRule, EnableRule, DeleteRule
<1>10. Goal
  BY <1>2, <1>3, <1>6, <1>7, <1>9 DEF Next, PollStep
<1> QED BY <1>8, <1>10

\* A step that clears, or opens, an incident of a rule finds the rule as it was loaded.
LEMMA FrozenStep ==
  ASSUME Typed, Awake, [Next]_vars, NEW r \in Rules, muted[r]
  PROVE  /\ \A i \in DOMAIN incidents :
              incidents[i].rule = r => incidents'[i].clearedBy = incidents[i].clearedBy
         /\ \A i \in DOMAIN incidents' \ DOMAIN incidents : incidents'[i].rule # r
<1>1. incidents \in Seq(Incident) /\ \A k \in DOMAIN incidents : incidents[k] \in Incident
  BY DEF Typed, TypeOK
<1>2. ASSUME NEW p \in Pollers, Current(p), rule[p] = r PROVE FALSE
  BY <1>2 DEF Awake, Current, RuleUnchanged
<1>3. CASE Nothing
  BY <1>3 DEF Nothing
<1>4. CASE Dismissed
  <2>1. ASSUME NEW i \in DOMAIN incidents PROVE incidents'[i].clearedBy = incidents[i].clearedBy
    BY <1>1, <1>4 DEF Dismissed, Ended, Incident
  <2> QED BY <1>4, <2>1 DEF Dismissed
<1>5. ASSUME NEW p \in Pollers, Opens(p)
      PROVE  /\ \A i \in DOMAIN incidents : incidents'[i] = incidents[i]
             /\ \A i \in DOMAIN incidents' \ DOMAIN incidents : incidents'[i].rule # r
  <2>1. \A i \in DOMAIN incidents : incidents'[i] = incidents[i]
    BY <1>1, <1>5 DEF Opens
  <2>2. \A i \in DOMAIN incidents' \ DOMAIN incidents : incidents'[i] = NewIncident(p)
    BY <1>1, <1>5 DEF Opens
  <2> QED BY <1>2, <1>5, <2>1, <2>2 DEF Opens, NewIncident
<1>6. ASSUME NEW p \in Pollers, Silences(p) \/ Resolves(p)
      PROVE  /\ DOMAIN incidents' = DOMAIN incidents
             /\ \A i \in DOMAIN incidents :
                  incidents[i].rule = r => incidents'[i].clearedBy = incidents[i].clearedBy
  <2>1. incidents[target[p]].rule # r
    BY <1>2, <1>6 DEF Typed, Placed, Silences, Resolves
  <2> QED BY <1>6, <2>1 DEF Silences, Resolves, OthersStay
<1> QED BY <1>3, <1>4, <1>5, <1>6, IncidentsChange

\* A poll that began before a snooze neither opens nor clears an incident in it.
THEOREM SnoozeFreezes == Spec => FrozenWhileSnoozed
<1>1. Init => Awake
  BY DEF Init, Awake
<1>2. Typed /\ Awake /\ [Next]_vars
      => [\A r \in Rules : muted[r] /\ muted'[r] =>
            /\ \A i \in DOMAIN incidents :
                 incidents[i].rule = r => incidents'[i].clearedBy = incidents[i].clearedBy
            /\ \A i \in DOMAIN incidents' \ DOMAIN incidents : incidents'[i].rule # r]_vars
  BY FrozenStep
<1> QED BY <1>1, <1>2, TypedInit, TypedStep, AwakeStep, PTL DEF Spec, FrozenWhileSnoozed

-----------------------------------------------------------------------------
(* Each sample is counted once *)

\* The samples a later step may still write or compare.
Live == {cursor} \cup {sample[p] : p \in Pollers}

\* A token tells one sample from all others.
Tokened ==
  /\ \A s \in Live : s.token # 0 => s.token \in drawn
  /\ \A s, u \in Live : s.token = u.token => s = u
  /\ \A p \in Pollers :
       pc[p] \in {"publish", "next"} \cup Evaluating => sample[p].token # 0
  /\ ~applied => cursor.token # 0

\* The samples counted for x were published: they are behind the cursor, the last
\* one at most at it.
Behind(x, live, c) ==
  \A s \in live : s.token \in x.silenced =>
    NotAfter(Id(s), Id(c)) /\ (s.token # x.lastToken => Id(s) # Id(c))

Tallied(x) ==
  /\ IsFiniteSet(x.silenced) /\ x.suppressed = Cardinality(x.silenced)
  /\ x.lastToken \in x.silenced \/ (x.silenced = {} /\ x.lastToken = 0)

Counted ==
  \A i \in DOMAIN incidents :
    /\ Tallied(incidents[i]) /\ incidents[i].silenced \subseteq drawn
    /\ Behind(incidents[i], Live, cursor)

\* A step takes no sample, or one with a token that was never given out.
LEMMA LiveChange ==
  ASSUME Typed, [Next]_vars
  PROVE  \/ Live' \subseteq Live /\ drawn' = drawn
         \/ \E n \in Sample : /\ n.token \in Tokens \ drawn /\ drawn' = drawn \cup {n.token}
                              /\ Live' \subseteq Live \cup {n} /\ cursor' = cursor
<1>t. TypeOK
  BY DEF Typed
<1>1. ASSUME NEW p \in Pollers, Collect(p)
      PROVE  \E n \in Sample : /\ n.token \in Tokens \ drawn /\ drawn' = drawn \cup {n.token}
                               /\ Live' \subseteq Live \cup {n} /\ cursor' = cursor
  <2>1. PICK t \in Tokens \ drawn, h \in SUBSET Loaded(p) :
          /\ drawn' = drawn \cup {t}
          /\ sample' = [sample EXCEPT ![p] =
               [at |-> now, token |-> t, base |-> sample[p].at, revs |-> known[p], hot |-> h]]
    BY <1>1 DEF Collect
  <2> DEFINE n == [at |-> now, token |-> t, base |-> sample[p].at, revs |-> known[p], hot |-> h]
  <2>2. n \in Sample /\ n.token = t
    BY <1>t, MonitorAssumption DEF TypeOK, Sample, Loaded
  <2>3. sample' = [sample EXCEPT ![p] = n]
    BY <2>1
  <2> HIDE DEF n
  <2>4. cursor' = cursor
    BY <1>1 DEF Collect
  <2>5. Live' \subseteq Live \cup {n}
    BY <1>t, <2>3, <2>4 DEF Live, TypeOK
  <2> QED BY <2>1, <2>2, <2>4, <2>5
<1>2. ASSUME NEW p \in Pollers, ReadCursor(p) PROVE Live' \subseteq Live /\ drawn' = drawn
  BY <1>t, <1>2 DEF ReadCursor, Live, TypeOK
<1>3. CASE UNCHANGED <<sample, drawn>>
  <2>1. cursor' \in Live
    BY CursorMoves, <1>t DEF Live
  <2> QED BY <1>3, <2>1 DEF Live
<1>4. ASSUME NEW p \in Pollers,
             \/ LoadRules(p) \/ Publish(p) \/ Finish(p) \/ NextRule(p) \/ FindActive(p)
             \/ CheckCooldown(p) \/ Suppress(p) \/ OpenIncident(p) \/ ClearIncident(p) \/ Crash(p)
      PROVE  UNCHANGED <<sample, drawn>>
  BY <1>4 DEF LoadRules, Publish, Finish, NextRule, FindActive, CheckCooldown, Suppress,
              OpenIncident, ClearIncident, Crash
<1>5. ASSUME NEW r \in Rules, UserStep(r) \/ SnoozeExpires(r) PROVE UNCHANGED <<sample, drawn>>
  BY <1>5 DEF UserStep, EditRule, DisableRule, EnableRule, DeleteRule, ChangeRule, SetMuted,
              SnoozeExpires, workVars
<1>6. (\E k \in DOMAIN incidents : ResolveByHand(k)) \/ Tick \/ UNCHANGED vars
      => UNCHANGED <<sample, drawn>>
  BY DEF ResolveByHand, Tick, vars, workVars
<1> QED BY <1>1, <1>2, <1>3, <1>4, <1>5, <1>6 DEF Next, PollStep

\* A worker that evaluates, and a cursor that is pending, have a real sample.
LEMMA RealSamples ==
  ASSUME Typed, Tokened, [Next]_vars
  PROVE  /\ \A p \in Pollers :
              pc'[p] \in {"publish", "next"} \cup Evaluating => sample'[p].token # 0
         /\ ~applied' => cursor'.token # 0
<1>t. TypeOK
  BY DEF Typed
<1>i. \A p \in Pollers :
        pc[p] \in {"publish", "next"} \cup Evaluating => sample[p].token # 0
  BY DEF Tokened
<1>1. ~applied' => cursor'.token # 0
  BY <1>t, <1>i, CursorMoves DEF Tokened
<1> SUFFICES ASSUME NEW q \in Pollers, pc'[q] \in {"publish", "next"} \cup Evaluating
             PROVE  sample'[q].token # 0
  BY <1>1
<1>2. CASE pc'[q] = pc[q] /\ sample'[q] = sample[q]
  BY <1>2, <1>i
<1>3. ASSUME NEW p \in Pollers, p # q, PollStep(p) \/ Crash(p)
      PROVE  pc'[q] = pc[q] /\ sample'[q] = sample[q]
  BY <1>3, <1>t DEF PollStep, LoadRules, ReadCursor, Collect, Publish, Finish, NextRule,
     FindActive, CheckCooldown, Suppress, OpenIncident, ClearIncident, Crash, Goto, TypeOK
<1>4. CASE Collect(q)
  BY <1>4, <1>t, MonitorAssumption DEF Collect, TypeOK
<1>5. CASE ReadCursor(q)
  BY <1>5, <1>t DEF ReadCursor, Goto, TypeOK, Evaluating, Tokened
<1>6. CASE LoadRules(q) \/ Crash(q)
  BY <1>6, <1>t DEF LoadRules, Crash, Goto, TypeOK, Evaluating
<1>7. CASE \/ Publish(q) \/ Finish(q) \/ NextRule(q) \/ FindActive(q) \/ CheckCooldown(q)
          \/ Suppress(q) \/ OpenIncident(q) \/ ClearIncident(q)
  <2>1. sample' = sample /\ pc[q] \in {"publish", "next"} \cup Evaluating
    BY <1>7 DEF Publish, Finish, NextRule, FindActive, CheckCooldown, Suppress, OpenIncident,
                ClearIncident, Evaluating
  <2> QED BY <1>i, <2>1
<1>8. ASSUME NEW r \in Rules, UserStep(r) \/ SnoozeExpires(r) PROVE UNCHANGED <<pc, sample>>
  BY <1>8 DEF UserStep, EditRule, DisableRule, EnableRule, DeleteRule, ChangeRule, SetMuted,
              SnoozeExpires, workVars
<1>9. (\E k \in DOMAIN incidents : ResolveByHand(k)) \/ Tick \/ UNCHANGED vars
      => UNCHANGED <<pc, sample>>
  BY DEF ResolveByHand, Tick, vars, workVars
<1> QED BY <1>2, <1>3, <1>4, <1>5, <1>6, <1>7, <1>8, <1>9 DEF Next, PollStep

LEMMA TokenedInit == Init => Tokened
<1> SUFFICES ASSUME Init PROVE Tokened
  OBVIOUS
<1>1. Live \subseteq {NoSample} /\ NoSample.token = 0
  BY DEF Init, Live, NoSample
<1>2. \A p \in Pollers : pc[p] = "idle"
  BY DEF Init
<1>3. applied
  BY DEF Init
<1> QED BY <1>1, <1>2, <1>3 DEF Tokened, Evaluating

LEMMA TokenedStep == Typed /\ Tokened /\ [Next]_vars => Tokened'
<1> SUFFICES ASSUME Typed, Tokened, [Next]_vars PROVE Tokened'
  OBVIOUS
<1>1. (\A s \in Live' : s.token # 0 => s.token \in drawn')
      /\ (\A s, u \in Live' : s.token = u.token => s = u)
  <2>1. \A s \in Live : s.token # 0 => s.token \in drawn
    BY DEF Tokened
  <2>2. \A s, u \in Live : s.token = u.token => s = u
    BY DEF Tokened
  <2>3. CASE Live' \subseteq Live /\ drawn' = drawn
    BY <2>1, <2>2, <2>3
  <2>4. ASSUME NEW n \in Sample, n.token \in Tokens \ drawn, drawn' = drawn \cup {n.token},
               Live' \subseteq Live \cup {n}
        PROVE  (\A s \in Live' : s.token # 0 => s.token \in drawn')
               /\ (\A s, u \in Live' : s.token = u.token => s = u)
    <3>1. n.token # 0
      BY <2>4, MonitorAssumption
    <3> QED BY <2>1, <2>2, <2>4, <3>1
  <2> QED BY <2>3, <2>4, LiveChange
<1> QED BY <1>1, RealSamples DEF Tokened

LEMMA LiveTypes ==
  ASSUME TypeOK
  PROVE  Live \subseteq Sample
BY DEF TypeOK, Live

\* What was counted stays behind the cursor, wherever it moves.
LEMMA BehindStep ==
  ASSUME Typed, Typed', Tokened, [Next]_vars, NEW x,
         x.silenced \subseteq drawn, Behind(x, Live, cursor)
  PROVE  x.silenced \subseteq drawn' /\ Behind(x, Live', cursor')
<1>t. TypeOK /\ TypeOK'
  BY DEF Typed
<1>1. x.silenced \subseteq drawn' /\ \A s \in Live' : s.token \in x.silenced => s \in Live
  <2>1. CASE Live' \subseteq Live /\ drawn' = drawn
    BY <2>1
  <2>2. ASSUME NEW n \in Sample, n.token \in Tokens \ drawn, drawn' = drawn \cup {n.token},
               Live' \subseteq Live \cup {n}
        PROVE  x.silenced \subseteq drawn' /\ \A s \in Live' : s.token \in x.silenced => s \in Live
    BY <2>2
  <2> QED BY <2>1, <2>2, LiveChange
<1>2. NotAfter(Id(cursor), Id(cursor'))
  BY <1>t, CursorOrder
<1>3. ASSUME NEW s \in Live', s.token \in x.silenced
      PROVE  NotAfter(Id(s), Id(cursor')) /\ (s.token # x.lastToken => Id(s) # Id(cursor'))
  <2>1. s \in Live /\ s \in Sample /\ cursor \in Sample /\ cursor' \in Sample
    BY <1>1, <1>3, <1>t, LiveTypes DEF TypeOK
  <2>2. NotAfter(Id(s), Id(cursor)) /\ (s.token # x.lastToken => Id(s) # Id(cursor))
    BY <1>3, <2>1 DEF Behind
  <2> QED BY <1>2, <2>1, <2>2 DEF NotAfter, Id, Sample
<1> QED BY <1>1, <1>3 DEF Behind

LEMMA CountedStep == Typed /\ Tokened /\ Counted /\ [Next]_vars => Counted'
<1> SUFFICES ASSUME Typed, Tokened, Counted, [Next]_vars, NEW i \in DOMAIN incidents'
             PROVE  /\ Tallied(incidents'[i]) /\ incidents'[i].silenced \subseteq drawn'
                    /\ Behind(incidents'[i], Live', cursor')
  BY DEF Counted, Tallied, Behind, Id, NotAfter
<1>t. TypeOK /\ Typed'
  BY TypedStep DEF Typed
<1> DEFINE Good(x) == Tallied(x) /\ x.silenced \subseteq drawn /\ Behind(x, Live, cursor)
<1>s. SUFFICES Good(incidents'[i])
  BY <1>t, BehindStep
<1>e. incidents \in Seq(Incident) /\ \A k \in DOMAIN incidents : incidents[k] \in Incident
  BY <1>t DEF TypeOK
<1>1. CASE i \in DOMAIN incidents /\ incidents'[i] = incidents[i]
  BY <1>1 DEF Counted
<1>2. CASE Dismissed
  <2>0. i \in DOMAIN incidents
    BY <1>2 DEF Dismissed
  <2>1. CASE Ended(i)
    <3>1. PICK v \in BOOLEAN :
            incidents'[i] = [incidents[i] EXCEPT !.status = "resolved", !.invalidated = v]
      BY <2>1 DEF Ended
    <3>2. /\ incidents'[i].silenced = incidents[i].silenced
          /\ incidents'[i].suppressed = incidents[i].suppressed
          /\ incidents'[i].lastToken = incidents[i].lastToken
      BY <1>e, <2>0, <3>1 DEF Incident
    <3>3. Good(incidents[i])
      BY <2>0 DEF Counted
    <3> QED BY <3>2, <3>3 DEF Tallied, Behind
  <2> QED BY <1>1, <1>2, <2>0, <2>1 DEF Dismissed
<1>3. ASSUME NEW p \in Pollers, Resolves(p) PROVE Good(incidents'[i])
  <2>0. i \in DOMAIN incidents
    BY <1>3 DEF Resolves, OthersStay
  <2>1. CASE i = target[p]
    <3>1. /\ incidents'[i].silenced = incidents[i].silenced
          /\ incidents'[i].suppressed = incidents[i].suppressed
          /\ incidents'[i].lastToken = incidents[i].lastToken
      BY <1>e, <1>3, <2>0, <2>1 DEF Resolves, Clears, Incident
    <3>2. Good(incidents[i])
      BY <2>0 DEF Counted
    <3> QED BY <3>1, <3>2 DEF Tallied, Behind
  <2> QED BY <1>1, <1>3, <2>0, <2>1 DEF Resolves, OthersStay
<1>4. ASSUME NEW p \in Pollers, Opens(p) PROVE Good(incidents'[i])
  <2>1. CASE i \in DOMAIN incidents
    BY <1>e, <1>1, <1>4, <2>1 DEF Opens
  <2>2. CASE i \notin DOMAIN incidents
    <3>1. incidents'[i] = NewIncident(p)
      BY <1>e, <1>4, <2>2 DEF Opens
    <3>2. incidents'[i].silenced = {} /\ incidents'[i].suppressed = 0 /\ incidents'[i].lastToken = 0
      BY <3>1 DEF NewIncident
    <3> QED BY <3>2, FS_EmptySet DEF Tallied, Behind
  <2> QED BY <2>1, <2>2
<1>5. ASSUME NEW p \in Pollers, Silences(p) PROVE Good(incidents'[i])
  <2>0. i \in DOMAIN incidents
    BY <1>5 DEF Silences, OthersStay
  <2>1. CASE i = target[p]
    <3> DEFINE x == incidents[i]
               y == incidents'[i]
               t == sample[p].token
    <3>1. x \in Incident /\ Good(x)
      BY <1>e, <2>0 DEF Counted
    <3>2. PICK n \in Nat :
            /\ n = IF x.lastToken = t THEN x.suppressed ELSE x.suppressed + 1
            /\ y = [x EXCEPT !.suppressed = n, !.lastToken = t, !.silenced = @ \cup {t}]
      BY <1>5, <2>1 DEF Silences, Counts
    <3>3. y.silenced = x.silenced \cup {t} /\ y.suppressed = n /\ y.lastToken = t
      BY <3>1, <3>2 DEF Incident
    <3>4. /\ t # 0 /\ t \in drawn
          /\ sample[p] \in Live /\ cursor \in Live
          /\ cursor.token = t /\ cursor.at = sample[p].at
      BY <1>5, <1>t DEF Silences, Current, Id, Tokened, Live, Evaluating
    <3>5. CASE x.lastToken = t
      <4>1. t \in x.silenced
        BY <3>1, <3>4, <3>5 DEF Tallied
      <4>2. y.silenced = x.silenced /\ y.suppressed = x.suppressed /\ y.lastToken = x.lastToken
        BY <3>2, <3>3, <3>5, <4>1
      <4> QED BY <3>1, <4>2 DEF Tallied, Behind
    <3>6. CASE x.lastToken # t
      <4>1. t \notin x.silenced
        BY <3>1, <3>4, <3>6 DEF Behind
      <4>2. Tallied(y)
        BY <3>1, <3>2, <3>3, <3>6, <4>1, FS_AddElement, FS_CardinalityType DEF Tallied
      <4>3. ASSUME NEW s \in Live, s.token \in y.silenced
            PROVE  NotAfter(Id(s), Id(cursor)) /\ (s.token # t => Id(s) # Id(cursor))
        <5>1. s \in Sample /\ cursor \in Sample
          BY <1>t, LiveTypes DEF TypeOK
        <5>2. CASE s.token = t
          <6>1. s.at = cursor.at
            BY <3>4, <5>2 DEF Tokened
          <6> QED BY <3>4, <5>1, <5>2, <6>1 DEF NotAfter, Id, Sample
        <5>3. CASE s.token # t
          <6>1. s.token \in x.silenced
            BY <3>3, <4>3, <5>3
          <6> QED BY <3>1, <3>4, <5>3, <6>1 DEF Behind, Id
        <5> QED BY <5>2, <5>3
      <4> QED BY <3>1, <3>3, <3>4, <4>2, <4>3 DEF Behind
    <3> QED BY <3>5, <3>6
  <2> QED BY <1>1, <1>5, <2>0, <2>1 DEF Silences, OthersStay
<1>6. CASE Nothing
  BY <1>1, <1>6 DEF Nothing
<1> HIDE DEF Good
<1> QED BY <1>2, <1>3, <1>4, <1>5, <1>6, IncidentsChange

\* The count shown for a cooldown is the number of samples it silenced, however
\* often each was replayed and by whom.
THEOREM CountIsTrue == Spec => []SuppressionsCounted
<1>1. Init => Tokened /\ Counted
  BY TokenedInit DEF Init, Counted
<1>2. Counted => SuppressionsCounted
  BY DEF Counted, Tallied, SuppressionsCounted
<1> QED BY <1>1, <1>2, TypedInit, TypedStep, TokenedStep, CountedStep, PTL DEF Spec

-----------------------------------------------------------------------------
(* While the rules do not change: what an applied sample stands for *)

Working == {"next"} \cup Evaluating

\* Every rule has its first revision, is active, and is loaded by every poll.
Steady ==
  /\ rev = [r \in Rules |-> 1]
  /\ \A r \in Rules : enabled[r] /\ listed[r] /\ ~muted[r]

Loads ==
  /\ ~applied => cursor.revs = [r \in Rules |-> 1]
  /\ \A p \in Pollers :
       /\ pc[p] # "idle" => known[p] = [r \in Rules |-> 1]
       /\ pc[p] \in {"publish"} \cup Working => sample[p].revs = [r \in Rules |-> 1]

\* A worker evaluates a sample that was published.
Seen == \A p \in Pollers : pc[p] \in Working => NotAfter(Id(sample[p]), Id(cursor))

LEMMA NoEdits ==
  ASSUME MaxEdits = 0, Typed, Steady, NEW r \in Rules, UserStep(r) \/ SnoozeExpires(r)
  PROVE  FALSE
<1>1. edits \in Nat
  BY DEF Typed, TypeOK
<1>2. ~SnoozeExpires(r)
  BY DEF SnoozeExpires, Steady
<1>3. ASSUME NEW b \in BOOLEAN, ChangeRule(r, b) PROVE edits < MaxEdits
  BY <1>3 DEF ChangeRule
<1>4. ASSUME NEW m \in BOOLEAN, SetMuted(r, m) PROVE edits < MaxEdits
  BY <1>4 DEF SetMuted
<1>5. edits < MaxEdits
  BY <1>2, <1>3, <1>4 DEF UserStep, EditRule, DisableRule, EnableRule, DeleteRule
<1> QED BY <1>1, <1>5

LEMMA SteadyStep == ASSUME MaxEdits = 0 PROVE Typed /\ Steady /\ [Next]_vars => Steady'
<1> SUFFICES ASSUME Typed, Steady, [Next]_vars PROVE Steady'
  OBVIOUS
<1>2. ASSUME NEW r \in Rules, UserStep(r) \/ SnoozeExpires(r) PROVE FALSE
  BY <1>2, NoEdits
<1>3. ASSUME NEW p \in Pollers, PollStep(p) \/ Crash(p) PROVE UNCHANGED ruleVars
  BY <1>3 DEF PollStep, LoadRules, ReadCursor, Collect, Publish, Finish, NextRule, FindActive,
              CheckCooldown, Suppress, OpenIncident, ClearIncident, Crash
<1>4. (\E k \in DOMAIN incidents : ResolveByHand(k)) \/ Tick \/ UNCHANGED vars => UNCHANGED ruleVars
  BY DEF ResolveByHand, Tick, vars
<1>5. UNCHANGED ruleVars
  BY <1>2, <1>3, <1>4 DEF Next
<1> QED BY <1>5 DEF Steady, ruleVars

\* A step of one worker leaves what the others hold.
LEMMA OthersKeep ==
  ASSUME TypeOK, NEW p \in Pollers, NEW q \in Pollers, p # q, PollStep(p) \/ Crash(p)
  PROVE  /\ pc'[q] = pc[q] /\ sample'[q] = sample[q] /\ todo'[q] = todo[q]
         /\ rule'[q] = rule[q] /\ known'[q] = known[q] /\ target'[q] = target[q]
         /\ replaying'[q] = replaying[q]
BY DEF PollStep, LoadRules, ReadCursor, Collect, Publish, Finish, NextRule, FindActive,
       CheckCooldown, Suppress, OpenIncident, ClearIncident, Crash, Goto, TypeOK

LEMMA RestKeeps ==
  ASSUME MaxEdits = 0, Typed, Steady, Next, \A p \in Pollers : ~(PollStep(p) \/ Crash(p))
  PROVE  UNCHANGED <<workVars, cursor, applied, evaluated>>
<1>2. ASSUME NEW r \in Rules, UserStep(r) \/ SnoozeExpires(r) PROVE FALSE
  BY <1>2, NoEdits
<1>3. (\E k \in DOMAIN incidents : ResolveByHand(k)) \/ Tick
      => UNCHANGED <<workVars, cursor, applied, evaluated>>
  BY DEF ResolveByHand, Tick
<1> QED BY <1>2, <1>3 DEF Next

LEMMA LoadsStep ==
  ASSUME MaxEdits = 0 PROVE Typed /\ Steady /\ Loads /\ [Next]_vars => Loads'
<1> SUFFICES ASSUME Typed, Steady, Loads, [Next]_vars PROVE Loads'
  OBVIOUS
<1>t. TypeOK
  BY DEF Typed
<1>1. ~applied' => cursor'.revs = [r \in Rules |-> 1]
  <2>1. ASSUME NEW p \in Pollers, Publish(p) PROVE ~applied' => cursor'.revs = [r \in Rules |-> 1]
    BY <2>1 DEF Publish, Upsert, Loads
  <2>2. ASSUME NEW p \in Pollers, Finish(p) PROVE ~applied' => cursor'.revs = [r \in Rules |-> 1]
    BY <2>2 DEF Finish, Upsert, Loads
  <2>3. ASSUME NEW p \in Pollers,
             \/ LoadRules(p) \/ ReadCursor(p) \/ Collect(p) \/ NextRule(p) \/ FindActive(p)
             \/ CheckCooldown(p) \/ Suppress(p) \/ OpenIncident(p) \/ ClearIncident(p) \/ Crash(p)
        PROVE  UNCHANGED <<cursor, applied>>
    BY <2>3 DEF LoadRules, ReadCursor, Collect, NextRule, FindActive, CheckCooldown, Suppress,
                OpenIncident, ClearIncident, Crash
  <2>4. UNCHANGED vars => UNCHANGED <<cursor, applied>>
    BY DEF vars
  <2> QED BY <2>1, <2>2, <2>3, <2>4, RestKeeps DEF Loads, PollStep
<1> SUFFICES ASSUME NEW q \in Pollers
             PROVE  /\ pc'[q] # "idle" => known'[q] = [r \in Rules |-> 1]
                    /\ pc'[q] \in {"publish"} \cup Working => sample'[q].revs = [r \in Rules |-> 1]
  BY <1>1 DEF Loads
<1> DEFINE Goal == /\ pc'[q] # "idle" => known'[q] = [r \in Rules |-> 1]
                   /\ pc'[q] \in {"publish"} \cup Working => sample'[q].revs = [r \in Rules |-> 1]
<1> SUFFICES Goal
  OBVIOUS
<1>i. /\ ~applied => cursor.revs = [r \in Rules |-> 1]
      /\ pc[q] # "idle" => known[q] = [r \in Rules |-> 1]
      /\ pc[q] \in {"publish"} \cup Working => sample[q].revs = [r \in Rules |-> 1]
  BY DEF Loads
<1>2. CASE pc'[q] = pc[q] /\ sample'[q] = sample[q] /\ known'[q] = known[q]
  BY <1>2, <1>i
<1>3. CASE LoadRules(q)
  BY <1>3, <1>t DEF LoadRules, Goto, TypeOK, Steady, Active, Working, Evaluating
<1>4. CASE ReadCursor(q)
  BY <1>4, <1>t, <1>i DEF ReadCursor, Goto, TypeOK, Working, Evaluating
<1>5. CASE Collect(q)
  BY <1>5, <1>t, <1>i DEF Collect, Goto, TypeOK
<1>6. CASE \/ Publish(q) \/ Finish(q) \/ NextRule(q) \/ FindActive(q) \/ CheckCooldown(q)
          \/ Suppress(q) \/ OpenIncident(q) \/ ClearIncident(q) \/ Crash(q)
  <2>1. UNCHANGED <<sample, known>> /\ (pc'[q] = "idle" \/ pc[q] \in {"publish"} \cup Working)
    BY <1>6, <1>t DEF Publish, Finish, NextRule, FindActive, CheckCooldown, Suppress, OpenIncident,
                      ClearIncident, Crash, Goto, TypeOK, Working, Evaluating
  <2> QED BY <1>i, <2>1 DEF Working, Evaluating
<1>7. UNCHANGED vars => UNCHANGED workVars
  BY DEF vars
<1>8. UNCHANGED workVars => Goal
  BY <1>2 DEF workVars
<1> HIDE DEF Goal
<1>9. ASSUME NEW p \in Pollers, p # q, PollStep(p) \/ Crash(p)
      PROVE  pc'[q] = pc[q] /\ sample'[q] = sample[q] /\ known'[q] = known[q]
  BY <1>t, <1>9, OthersKeep
<1> QED BY <1>2, <1>3, <1>4, <1>5, <1>6, <1>7, <1>8, <1>9, RestKeeps DEF PollStep

LEMMA SeenStep == Typed /\ Seen /\ [Next]_vars => Seen'
<1> SUFFICES ASSUME Typed, Seen, [Next]_vars, NEW q \in Pollers, pc'[q] \in Working
             PROVE  NotAfter(Id(sample'[q]), Id(cursor'))
  BY DEF Seen, Id
<1>t. TypeOK /\ TypeOK'
  BY TypedStep DEF Typed
<1>o. NotAfter(Id(cursor), Id(cursor'))
  BY <1>t, CursorOrder
<1>n. \A s \in Sample : Id(s) \in Nat \X Nat
  BY DEF Id, Sample
<1>d. /\ Id(cursor) \in Nat \X Nat /\ Id(cursor') \in Nat \X Nat
      /\ Id(sample[q]) \in Nat \X Nat
  BY <1>t, <1>n DEF TypeOK
<1>1. CASE pc[q] \in Working /\ sample'[q] = sample[q]
  BY <1>1, <1>o, <1>d, NotAfterTransitive DEF Seen
<1>2. ASSUME NEW p \in Pollers, p # q, PollStep(p) \/ Crash(p)
      PROVE  pc[q] \in Working /\ sample'[q] = sample[q]
  BY <1>2, <1>t, OthersKeep
<1>3. CASE LoadRules(q) \/ Collect(q) \/ Crash(q)
  BY <1>3, <1>t DEF LoadRules, Collect, Crash, Goto, TypeOK, Working, Evaluating
<1>4. CASE ReadCursor(q)
  <2>1. sample'[q] = cursor
    BY <1>4, <1>t DEF ReadCursor, TypeOK
  <2> QED BY <1>o, <2>1
<1>5. CASE Publish(q)
  <2>1. sample' = sample /\ UpsertWins(sample[q])
    BY <1>5, <1>t DEF Publish, Goto, TypeOK, Working, Evaluating
  <2>2. cursor' = sample[q]
    BY <1>5, <2>1 DEF Publish, Upsert, UpsertWins
  <2> QED BY <1>t, <2>1, <2>2 DEF NotAfter, Id, TypeOK, Sample
<1>6. CASE \/ Finish(q) \/ NextRule(q) \/ FindActive(q) \/ CheckCooldown(q) \/ Suppress(q)
          \/ OpenIncident(q) \/ ClearIncident(q)
  <2>1. sample'[q] = sample[q] /\ pc[q] \in Working
    BY <1>6 DEF Finish, NextRule, FindActive, CheckCooldown, Suppress, OpenIncident,
                ClearIncident, Working, Evaluating
  <2> QED BY <1>1, <2>1
<1>7. ASSUME NEW r \in Rules, UserStep(r) \/ SnoozeExpires(r) PROVE UNCHANGED <<pc, sample>>
  BY <1>7 DEF UserStep, EditRule, DisableRule, EnableRule, DeleteRule, ChangeRule, SetMuted,
              SnoozeExpires, workVars
<1>8. (\E k \in DOMAIN incidents : ResolveByHand(k)) \/ Tick \/ UNCHANGED vars
      => UNCHANGED <<pc, sample>>
  BY DEF ResolveByHand, Tick, vars, workVars
<1> QED BY <1>1, <1>2, <1>3, <1>4, <1>5, <1>6, <1>7, <1>8 DEF Next, PollStep

\* A worker whose sample has the cursor's place has the cursor.
LEMMA Caught ==
  ASSUME Tokened, NEW p \in Pollers, Id(sample[p]) = Id(cursor)
  PROVE  sample[p] = cursor
<1>1. sample[p].token = cursor.token
  BY DEF Id
<1> QED BY <1>1 DEF Tokened, Live

\* Once passed, a sample is passed for good.
LEMMA Passed ==
  ASSUME TypeOK, TypeOK', [Next]_vars, Seen, NEW p \in Pollers, pc[p] \in Working,
         Id(sample[p]) = Id(cursor')
  PROVE  Id(sample[p]) = Id(cursor)
<1>1. NotAfter(Id(sample[p]), Id(cursor)) /\ NotAfter(Id(cursor), Id(cursor'))
  BY CursorOrder DEF Seen
<1>2. sample[p] \in Sample /\ cursor \in Sample /\ cursor' \in Sample
  BY DEF TypeOK, Sample
<1> QED BY <1>1, <1>2 DEF Sample, Id, NotAfter

\* The last sample evaluated by a worker that finishes and whose write wins.
LEMMA FinishWins ==
  ASSUME TypeOK, Tokened, Seen, NEW p \in Pollers, Finish(p), UpsertWins(sample[p])
  PROVE  sample[p] = cursor /\ cursor' = cursor /\ applied' /\ Doing(p) = {}
<1>1. pc[p] \in Working /\ pc[p] \notin Evaluating /\ todo[p] = {}
  BY DEF Finish, Working, Evaluating
<1>2. NotAfter(Id(sample[p]), Id(cursor)) /\ NotAfter(Id(cursor), Id(sample[p]))
  BY <1>1 DEF Seen, UpsertWins
<1>3. Id(sample[p]) = Id(cursor)
  BY <1>2 DEF TypeOK, Sample, Id, NotAfter
<1>4. sample[p] = cursor
  BY <1>3, Caught
<1>5. cursor' = sample[p] /\ applied'
  BY DEF Finish, Upsert, UpsertWins
<1> QED BY <1>1, <1>4, <1>5 DEF Doing

-----------------------------------------------------------------------------
(* No instant is skipped *)

Of(s, r) == [rule |-> r, base |-> s.base, at |-> s.at]

CoveredBy(n, ev) ==
  \A r \in Rules, t \in 1..n : \E v \in ev : v.rule = r /\ v.base < t /\ t <= v.at

Kept ==
  /\ applied => CoveredBy(cursor.at, evaluated)
  /\ CoveredBy(cursor.base, evaluated)
  /\ \A p \in Pollers :
       /\ pc[p] = "collect" => CoveredBy(sample[p].at, evaluated)
       /\ pc[p] \in {"publish"} \cup Working => CoveredBy(sample[p].base, evaluated)
       /\ pc[p] \in Working /\ Id(sample[p]) = Id(cursor)
          => \A r \in Rules \ Doing(p) : Of(sample[p], r) \in evaluated

LEMMA CoveredGrows ==
  ASSUME NEW n, NEW ev, NEW more, ev \subseteq more, CoveredBy(n, ev)
  PROVE  CoveredBy(n, more)
BY DEF CoveredBy

LEMMA CoveredOn ==
  ASSUME NEW s \in Sample, NEW ev, CoveredBy(s.base, ev), \A r \in Rules : Of(s, r) \in ev
  PROVE  CoveredBy(s.at, ev)
<1> SUFFICES ASSUME NEW r \in Rules, NEW t \in 1..s.at
             PROVE  \E v \in ev : v.rule = r /\ v.base < t /\ t <= v.at
  BY DEF CoveredBy
<1>1. s.base \in Nat /\ s.at \in Nat
  BY DEF Sample
<1>2. CASE t <= s.base
  BY <1>1, <1>2 DEF CoveredBy
<1>3. CASE s.base < t
  <2>1. Of(s, r).rule = r /\ Of(s, r).base = s.base /\ Of(s, r).at = s.at
    BY DEF Of
  <2> QED BY <1>1, <1>3, <2>1
<1> QED BY <1>1, <1>2, <1>3

LEMMA EvaluatedGrows == [Next]_vars => evaluated \subseteq evaluated'
<1>1. ASSUME NEW p \in Pollers, PollStep(p) \/ Crash(p) PROVE evaluated \subseteq evaluated'
  BY <1>1 DEF PollStep, LoadRules, ReadCursor, Collect, Publish, Finish, NextRule, FindActive,
     CheckCooldown, Suppress, OpenIncident, ClearIncident, Crash, Evaluated
<1>2. ASSUME NEW r \in Rules, UserStep(r) \/ SnoozeExpires(r) PROVE evaluated' = evaluated
  BY <1>2 DEF UserStep, EditRule, DisableRule, EnableRule, DeleteRule, ChangeRule, SetMuted,
              SnoozeExpires
<1>3. (\E k \in DOMAIN incidents : ResolveByHand(k)) \/ Tick \/ UNCHANGED vars
      => evaluated' = evaluated
  BY DEF ResolveByHand, Tick, vars
<1> QED BY <1>1, <1>2, <1>3 DEF Next

\* The cursor has covered everything before it, and all of its own when applied.
LEMMA KeptByCursor ==
  ASSUME Typed, Tokened, Seen, Kept, [Next]_vars
  PROVE  (applied' => CoveredBy(cursor'.at, evaluated')) /\ CoveredBy(cursor'.base, evaluated')
<1>t. TypeOK
  BY DEF Typed
<1>g. \A n : CoveredBy(n, evaluated) => CoveredBy(n, evaluated')
  BY EvaluatedGrows, CoveredGrows
<1>1. CASE UNCHANGED <<cursor, applied>>
  BY <1>1, <1>g DEF Kept
<1>2. ASSUME NEW p \in Pollers, Publish(p)
      PROVE  UNCHANGED <<cursor, applied>> \/ (~applied' /\ CoveredBy(cursor'.base, evaluated'))
  <2>1. CASE UpsertWins(sample[p])
    <3>1. cursor' = sample[p] /\ ~applied' /\ pc[p] = "publish"
      BY <1>2, <2>1 DEF Publish, Upsert, UpsertWins
    <3> QED BY <1>g, <3>1 DEF Kept
  <2>2. CASE ~UpsertWins(sample[p])
    BY <1>2, <2>2 DEF Publish, Upsert, UpsertWins
  <2> QED BY <2>1, <2>2
<1>3. ASSUME NEW p \in Pollers, Finish(p)
      PROVE  UNCHANGED <<cursor, applied>>
             \/ (CoveredBy(cursor'.at, evaluated') /\ CoveredBy(cursor'.base, evaluated'))
  <2>1. CASE UpsertWins(sample[p])
    <3>1. sample[p] = cursor /\ cursor' = cursor /\ Doing(p) = {} /\ pc[p] \in Working
      BY <1>3, <1>t, <2>1, FinishWins DEF Finish, Working
    <3>2. \A r \in Rules : Of(cursor, r) \in evaluated
      BY <3>1 DEF Kept
    <3>3. CoveredBy(cursor.base, evaluated)
      BY DEF Kept
    <3>4. CoveredBy(cursor.at, evaluated)
      BY <1>t, <3>2, <3>3, CoveredOn DEF TypeOK
    <3> QED BY <1>g, <3>1, <3>3, <3>4
  <2>2. CASE ~UpsertWins(sample[p])
    BY <1>3, <2>2 DEF Finish, Upsert, UpsertWins
  <2> QED BY <2>1, <2>2
<1>4. ASSUME NEW p \in Pollers,
             \/ LoadRules(p) \/ ReadCursor(p) \/ Collect(p) \/ NextRule(p) \/ FindActive(p)
             \/ CheckCooldown(p) \/ Suppress(p) \/ OpenIncident(p) \/ ClearIncident(p) \/ Crash(p)
      PROVE  UNCHANGED <<cursor, applied>>
  BY <1>4 DEF LoadRules, ReadCursor, Collect, NextRule, FindActive, CheckCooldown, Suppress,
              OpenIncident, ClearIncident, Crash
<1>5. ASSUME NEW r \in Rules, UserStep(r) \/ SnoozeExpires(r) PROVE UNCHANGED <<cursor, applied>>
  BY <1>5 DEF UserStep, EditRule, DisableRule, EnableRule, DeleteRule, ChangeRule, SetMuted,
              SnoozeExpires
<1>6. (\E k \in DOMAIN incidents : ResolveByHand(k)) \/ Tick \/ UNCHANGED vars
      => UNCHANGED <<cursor, applied>>
  BY DEF ResolveByHand, Tick, vars
<1> QED BY <1>1, <1>2, <1>3, <1>4, <1>5, <1>6 DEF Next, PollStep

\* While nobody edits, a write is void only because the cursor has moved.
LEMMA VoidWrite ==
  ASSUME Typed, Steady, Loads, NEW p \in Pollers, pc[p] \in Working, ~Current(p)
  PROVE  Id(cursor) # Id(sample[p])
<1>1. rule[p] \in Rules /\ pc[p] # "idle"
  BY DEF Typed, TypeOK, Working, Evaluating
<1>2. rev[rule[p]] = known[p][rule[p]]
  BY <1>1 DEF Steady, Loads
<1> QED BY <1>2 DEF Current, RuleUnchanged

\* What a worker does with its sample.
LEMMA KeptByWorker ==
  ASSUME Typed, Steady, Loads, Tokened, Seen, Kept, NEW q \in Pollers, PollStep(q) \/ Crash(q)
  PROVE  /\ pc'[q] = "collect" => CoveredBy(sample'[q].at, evaluated)
         /\ pc'[q] \in {"publish"} \cup Working => CoveredBy(sample'[q].base, evaluated)
         /\ pc'[q] \in Working /\ Id(sample'[q]) = Id(cursor')
            => \A r \in Rules \ Doing(q)' : Of(sample'[q], r) \in evaluated'
<1>t. TypeOK
  BY DEF Typed
<1> DEFINE Goal == /\ pc'[q] = "collect" => CoveredBy(sample'[q].at, evaluated)
                   /\ pc'[q] \in {"publish"} \cup Working => CoveredBy(sample'[q].base, evaluated)
                   /\ pc'[q] \in Working /\ Id(sample'[q]) = Id(cursor')
                      => \A r \in Rules \ Doing(q)' : Of(sample'[q], r) \in evaluated'
<1> SUFFICES Goal
  OBVIOUS
<1>k. pc[q] # "idle" => Loaded(q) = Rules
  BY <1>t DEF Loads, Loaded
<1>1. CASE LoadRules(q) \/ Crash(q)
  BY <1>1, <1>t DEF LoadRules, Crash, Goto, TypeOK, Working, Evaluating
<1>2. CASE ReadCursor(q)
  <2>1. sample'[q] = cursor /\ evaluated' = evaluated
    BY <1>2, <1>t DEF ReadCursor, TypeOK
  <2>2. CASE applied
    <3>1. pc'[q] = "collect"
      BY <1>2, <1>t, <2>2 DEF ReadCursor, Goto, TypeOK
    <3> QED BY <2>1, <2>2, <3>1 DEF Kept, Working, Evaluating
  <2>3. CASE ~applied
    <3>1. pc'[q] = "next" /\ todo'[q] = Replayable(q)
      BY <1>2, <1>t, <2>3 DEF ReadCursor, Goto, TypeOK
    <3>2. Replayable(q) = Rules
      BY <1>2, <1>k, <2>3 DEF ReadCursor, Replayable, Loads
    <3> QED BY <2>1, <3>1, <3>2 DEF Kept, Doing
  <2> QED BY <2>2, <2>3
<1>3. CASE Collect(q)
  <2>1. pc[q] = "collect" /\ pc'[q] = "publish" /\ sample'[q].base = sample[q].at
    BY <1>3, <1>t DEF Collect, Goto, TypeOK
  <2> QED BY <2>1 DEF Kept, Working, Evaluating
<1>4. CASE Publish(q)
  <2>1. sample' = sample /\ pc[q] = "publish" /\ pc'[q] \in {"next", "idle"}
        /\ (pc'[q] = "next" => todo'[q] = Loaded(q))
    BY <1>4, <1>t DEF Publish, Goto, TypeOK
  <2> QED BY <1>k, <2>1 DEF Kept, Doing, Working, Evaluating
<1>5. CASE Finish(q)
  <2>1. sample' = sample /\ evaluated' = evaluated /\ pc'[q] \in {"collect", "idle"}
        /\ (pc'[q] = "collect" => UpsertWins(sample[q]))
    BY <1>5, <1>t DEF Finish, Goto, TypeOK
  <2>2. CASE UpsertWins(sample[q])
    <3>1. sample[q] = cursor /\ Doing(q) = {} /\ pc[q] \in Working
      BY <1>5, <1>t, <2>2, FinishWins DEF Finish, Working
    <3>2. \A r \in Rules : Of(cursor, r) \in evaluated
      BY <3>1 DEF Kept
    <3>3. CoveredBy(cursor.at, evaluated)
      BY <1>t, <3>2, CoveredOn DEF TypeOK, Kept
    <3> QED BY <2>1, <3>1, <3>3 DEF Working, Evaluating
  <2> QED BY <2>1, <2>2 DEF Working, Evaluating
<1>6. CASE NextRule(q)
  <2>1. pc[q] = "next" /\ UNCHANGED <<sample, evaluated, cursor>>
    BY <1>6 DEF NextRule
  <2>2. Doing(q)' = Doing(q) /\ pc'[q] = "find"
    <3>1. PICK r \in todo[q] :
            /\ todo' = [todo EXCEPT ![q] = @ \ {r}]
            /\ IF Active(r) /\ rev[r] = known[q][r]
               THEN rule' = [rule EXCEPT ![q] = r] /\ Goto(q, "find")
               ELSE UNCHANGED <<rule, pc>>
      BY <1>6 DEF NextRule
    <3>2. r \in Rules /\ Active(r) /\ rev[r] = known[q][r]
      BY <1>t, <2>1, <3>1 DEF TypeOK, Steady, Loads, Active
    <3>3. todo'[q] = todo[q] \ {r} /\ rule'[q] = r /\ pc'[q] = "find"
      BY <1>t, <3>1, <3>2 DEF TypeOK, Goto
    <3> QED BY <2>1, <3>1, <3>3 DEF Doing, Evaluating
  <2> QED BY <2>1, <2>2 DEF Kept, Working, Evaluating
<1>7. CASE FindActive(q)
  <2>1. pc[q] = "find" /\ UNCHANGED <<sample, cursor, todo, rule>>
    BY <1>7 DEF FindActive
  <2>2. CASE pc'[q] = "next"
    <3>1. evaluated' = evaluated \cup {Of(sample[q], rule[q])}
      BY <1>7, <1>t, <2>2 DEF FindActive, Goto, TypeOK, Evaluated, Verdict, Of
    <3> QED BY <2>1, <2>2, <3>1 DEF Kept, Doing, Working, Evaluating
  <2>3. CASE pc'[q] # "next"
    <3>1. evaluated' = evaluated /\ pc'[q] \in {"cooldown", "clear"}
      BY <1>7, <1>t, <2>3 DEF FindActive, Goto, TypeOK
    <3> QED BY <2>1, <3>1 DEF Kept, Doing, Working, Evaluating
  <2> QED BY <2>2, <2>3
<1>8. CASE CheckCooldown(q)
  <2>1. pc[q] = "cooldown" /\ UNCHANGED <<sample, cursor, todo, rule, evaluated>>
        /\ pc'[q] \in {"open", "suppress"}
    BY <1>8, <1>t DEF CheckCooldown, Goto, TypeOK
  <2> QED BY <2>1 DEF Kept, Doing, Working, Evaluating
<1>9. CASE Suppress(q) \/ OpenIncident(q) \/ ClearIncident(q)
  <2>1. pc[q] \in Evaluating /\ pc'[q] = "next" /\ UNCHANGED <<sample, cursor, todo, rule>>
    BY <1>9, <1>t DEF Suppress, OpenIncident, ClearIncident, Goto, TypeOK, Evaluating
  <2>2. CASE Current(q)
    <3>1. Active(rule[q])
      BY <1>t DEF Steady, Active, TypeOK
    <3>2. evaluated' = evaluated \cup {Of(sample[q], rule[q])}
      BY <1>9, <2>2, <3>1 DEF Suppress, OpenIncident, ClearIncident, Evaluated, Verdict, Of
    <3> QED BY <2>1, <3>2 DEF Kept, Doing, Working, Evaluating
  <2>3. CASE ~Current(q)
    <3>1. Id(sample'[q]) # Id(cursor')
      BY <2>1, <2>3, VoidWrite DEF Working
    <3> QED BY <2>1, <3>1 DEF Kept, Working
  <2> QED BY <2>2, <2>3
<1> HIDE DEF Goal
<1> QED BY <1>1, <1>2, <1>3, <1>4, <1>5, <1>6, <1>7, <1>8, <1>9 DEF PollStep

LEMMA KeptStep ==
  ASSUME MaxEdits = 0
  PROVE  Typed /\ Steady /\ Loads /\ Tokened /\ Seen /\ Kept /\ [Next]_vars => Kept'
<1> SUFFICES ASSUME Typed, Steady, Loads, Tokened, Seen, Kept, [Next]_vars
             PROVE  Kept'
  OBVIOUS
<1>t. TypeOK /\ TypeOK'
  BY TypedStep DEF Typed
<1>g. \A n : CoveredBy(n, evaluated) => CoveredBy(n, evaluated')
  BY EvaluatedGrows, CoveredGrows
<1>1. ASSUME NEW q \in Pollers
      PROVE  /\ pc'[q] = "collect" => CoveredBy(sample'[q].at, evaluated')
             /\ pc'[q] \in {"publish"} \cup Working => CoveredBy(sample'[q].base, evaluated')
             /\ pc'[q] \in Working /\ Id(sample'[q]) = Id(cursor')
                => \A r \in Rules \ Doing(q)' : Of(sample'[q], r) \in evaluated'
  <2>1. CASE PollStep(q) \/ Crash(q)
    BY <1>g, <2>1, KeptByWorker
  <2>2. CASE UNCHANGED <<pc[q], sample[q], todo[q], rule[q]>>
    <3>1. Doing(q)' = Doing(q)
      BY <2>2 DEF Doing
    <3>2. CASE pc[q] \in Working /\ Id(sample[q]) = Id(cursor')
      <4>1. Id(sample[q]) = Id(cursor)
        BY <1>t, <3>2, Passed
      <4>2. \A r \in Rules \ Doing(q) : Of(sample[q], r) \in evaluated
        BY <3>2, <4>1 DEF Kept
      <4> QED BY <1>g, <2>2, <3>1, <4>2, EvaluatedGrows DEF Kept
    <3>3. CASE ~(pc[q] \in Working /\ Id(sample[q]) = Id(cursor'))
      BY <1>g, <2>2, <3>3 DEF Kept
    <3> QED BY <3>2, <3>3
  <2>3. ASSUME NEW p \in Pollers, p # q, PollStep(p) \/ Crash(p)
        PROVE  UNCHANGED <<pc[q], sample[q], todo[q], rule[q]>>
    BY <1>t, <2>3, OthersKeep
  <2>4. UNCHANGED workVars => UNCHANGED <<pc[q], sample[q], todo[q], rule[q]>>
    BY DEF workVars
  <2>5. UNCHANGED vars => UNCHANGED workVars
    BY DEF vars
  <2> QED BY <2>1, <2>2, <2>3, <2>4, <2>5, RestKeeps
<1>2. (applied' => CoveredBy(cursor'.at, evaluated')) /\ CoveredBy(cursor'.base, evaluated')
  BY KeptByCursor
<1> QED BY <1>1, <1>2 DEF Kept, Id

LEMMA QuietInit == Init => Steady /\ Loads /\ Seen /\ Kept
<1> SUFFICES ASSUME Init PROVE Steady /\ Loads /\ Seen /\ Kept
  OBVIOUS
<1>1. \A p \in Pollers : pc[p] = "idle"
  BY DEF Init
<1>2. applied /\ cursor.at = 0 /\ cursor.base = 0
  BY DEF Init, NoSample
<1>3. CoveredBy(0, evaluated)
  BY DEF CoveredBy
<1>4. Steady
  BY DEF Init, Steady
<1> QED BY <1>1, <1>2, <1>3, <1>4 DEF Loads, Seen, Kept, Working, Evaluating

\* While the rules do not change, no instant goes unevaluated, however replicas
\* overtake each other, die and replay.
THEOREM NoneSkipped ==
  ASSUME MaxEdits = 0
  PROVE  Spec => []NothingSkipped
<1>1. Kept => NothingSkipped
  BY DEF Kept, CoveredBy, NothingSkipped
<1> QED
  BY <1>1, TypedInit, TypedStep, TokenedInit, TokenedStep, QuietInit, SteadyStep, LoadsStep, SeenStep,
     KeptStep, PTL DEF Spec

-----------------------------------------------------------------------------
(* The newest sample decides *)

Decided ==
  /\ applied /\ cursor.at # 0 => \A r \in Rules \ cursor.hot : FiringOf(r) = {}
  /\ \A p \in Pollers :
       /\ pc[p] \in {"cooldown", "suppress", "open"} => Hot(p)
       /\ pc[p] = "clear" => ~Hot(p)
       /\ pc[p] \in Working /\ Id(sample[p]) = Id(cursor)
          => \A r \in Rules \ (Doing(p) \cup sample[p].hot) : FiringOf(r) = {}
       /\ pc[p] = "clear" /\ Id(sample[p]) = Id(cursor) => FiringOf(rule[p]) \subseteq {target[p]}

\* An incident is only ever opened for a rule the cursor triggers.
LEMMA OpensHot ==
  ASSUME Typed, Tokened, Decided, [Next]_vars, NEW r \in Rules, r \notin cursor.hot
  PROVE  FiringOf(r)' \subseteq FiringOf(r)
<1>1. incidents \in Seq(Incident) /\ \A k \in DOMAIN incidents : Keeps(k)
  BY IncidentsChange, IncidentTypes DEF Typed, TypeOK
<1>2. CASE DOMAIN incidents' = DOMAIN incidents
  BY <1>1, <1>2 DEF FiringOf, Keeps
<1>3. ASSUME NEW p \in Pollers, Opens(p) PROVE FiringOf(r)' \subseteq FiringOf(r)
  <2>1. sample[p] = cursor
    BY <1>3, Caught DEF Opens, Current
  <2>2. rule[p] # r
    BY <1>3, <2>1 DEF Opens, Decided, Hot
  <2>3. \A k \in DOMAIN incidents' \ DOMAIN incidents : incidents'[k] = NewIncident(p)
    BY <1>1, <1>3 DEF Opens
  <2> QED BY <1>1, <2>2, <2>3 DEF FiringOf, Keeps, NewIncident
<1>4. Nothing \/ Dismissed \/ (\E p \in Pollers : Silences(p) \/ Resolves(p))
      => DOMAIN incidents' = DOMAIN incidents
  BY DEF Nothing, Dismissed, Silences, Resolves, OthersStay
<1> QED BY <1>2, <1>3, <1>4, IncidentsChange

LEMMA DecidedByCursor ==
  ASSUME Typed, Tokened, Seen, Decided, [Next]_vars
  PROVE  applied' /\ cursor'.at # 0 => \A r \in Rules \ cursor'.hot : FiringOf(r)' = {}
<1>t. TypeOK
  BY DEF Typed
<1>1. CASE UNCHANGED <<cursor, applied>>
  BY <1>1, OpensHot DEF Decided
<1>2. ASSUME NEW p \in Pollers, Publish(p)
      PROVE  UNCHANGED <<cursor, applied>> \/ ~applied'
  BY <1>2 DEF Publish, Upsert
<1>3. ASSUME NEW p \in Pollers, Finish(p)
      PROVE  UNCHANGED <<cursor, applied>> \/ \A r \in Rules \ cursor'.hot : FiringOf(r)' = {}
  <2>1. CASE UpsertWins(sample[p])
    <3>1. sample[p] = cursor /\ cursor' = cursor /\ Doing(p) = {} /\ pc[p] \in Working
      BY <1>3, <1>t, <2>1, FinishWins DEF Finish, Working
    <3>2. incidents' = incidents
      BY <1>3 DEF Finish
    <3>3. \A r \in Rules \ cursor.hot : FiringOf(r) = {}
      BY <3>1 DEF Decided
    <3> QED BY <3>1, <3>2, <3>3 DEF FiringOf
  <2>2. CASE ~UpsertWins(sample[p])
    BY <1>3, <2>2 DEF Finish, Upsert, UpsertWins
  <2> QED BY <2>1, <2>2
<1>4. ASSUME NEW p \in Pollers,
             \/ LoadRules(p) \/ ReadCursor(p) \/ Collect(p) \/ NextRule(p) \/ FindActive(p)
             \/ CheckCooldown(p) \/ Suppress(p) \/ OpenIncident(p) \/ ClearIncident(p) \/ Crash(p)
      PROVE  UNCHANGED <<cursor, applied>>
  BY <1>4 DEF LoadRules, ReadCursor, Collect, NextRule, FindActive, CheckCooldown, Suppress,
              OpenIncident, ClearIncident, Crash
<1>5. ASSUME NEW r \in Rules, UserStep(r) \/ SnoozeExpires(r) PROVE UNCHANGED <<cursor, applied>>
  BY <1>5 DEF UserStep, EditRule, DisableRule, EnableRule, DeleteRule, ChangeRule, SetMuted,
              SnoozeExpires
<1>6. (\E k \in DOMAIN incidents : ResolveByHand(k)) \/ Tick \/ UNCHANGED vars
      => UNCHANGED <<cursor, applied>>
  BY DEF ResolveByHand, Tick, vars
<1> QED BY <1>1, <1>2, <1>3, <1>4, <1>5, <1>6 DEF Next, PollStep

\* A fenced clear leaves no incident of its rule.
LEMMA ClearEmpties ==
  ASSUME Typed, Decided, NEW q \in Pollers, ClearIncident(q), Current(q)
  PROVE  FiringOf(rule[q])' = {}
<1> DEFINE i == target[q]
<1>1. /\ incidents \in Seq(Incident) /\ i \in DOMAIN incidents /\ incidents[i] \in Incident
      /\ rule' = rule
  BY DEF Typed, TypeOK, Placed, ClearIncident
<1>2. FiringOf(rule[q]) \subseteq {i}
  BY DEF Decided, ClearIncident, Current
<1>3. CASE incidents[i].status # "firing"
  <2>1. incidents' = incidents
    BY <1>3 DEF ClearIncident
  <2> QED BY <1>1, <1>2, <1>3, <2>1 DEF FiringOf
<1>4. CASE incidents[i].status = "firing"
  <2>1. incidents' = [incidents EXCEPT ![i].status = "resolved", ![i].clearedBy = Id(sample[q])]
    BY <1>4 DEF ClearIncident
  <2>2. incidents'[i].status = "resolved" /\ DOMAIN incidents' = DOMAIN incidents
        /\ \A j \in DOMAIN incidents \ {i} : incidents'[j] = incidents[j]
    BY <1>1, <2>1 DEF Incident
  <2> QED BY <1>1, <1>2, <2>2 DEF FiringOf
<1> QED BY <1>3, <1>4

\* What a worker does with its sample.
LEMMA DecidedByWorker ==
  ASSUME Typed, Steady, Loads, Tokened, Seen, OneFiring, Decided,
         NEW q \in Pollers, PollStep(q) \/ Crash(q)
  PROVE  /\ pc'[q] \in {"cooldown", "suppress", "open"} => Hot(q)'
         /\ pc'[q] = "clear" => ~Hot(q)'
         /\ pc'[q] \in Working /\ Id(sample'[q]) = Id(cursor')
            => \A r \in Rules \ (Doing(q)' \cup sample'[q].hot) : FiringOf(r)' = {}
         /\ pc'[q] = "clear" /\ Id(sample'[q]) = Id(cursor')
            => \A r \in Rules : r = rule'[q] => FiringOf(r)' \subseteq {target'[q]}
<1>t. TypeOK
  BY DEF Typed
<1> DEFINE Goal == /\ pc'[q] \in {"cooldown", "suppress", "open"} => Hot(q)'
                   /\ pc'[q] = "clear" => ~Hot(q)'
                   /\ pc'[q] \in Working /\ Id(sample'[q]) = Id(cursor')
                      => \A r \in Rules \ (Doing(q)' \cup sample'[q].hot) : FiringOf(r)' = {}
                   /\ pc'[q] = "clear" /\ Id(sample'[q]) = Id(cursor')
                      => \A r \in Rules : r = rule'[q] => FiringOf(r)' \subseteq {target'[q]}
<1> SUFFICES Goal
  OBVIOUS
<1>k. pc[q] # "idle" => Loaded(q) = Rules
  BY <1>t DEF Loads, Loaded
<1>f. incidents' = incidents => \A r : FiringOf(r)' = FiringOf(r)
  BY DEF FiringOf
<1>1. CASE LoadRules(q) \/ Crash(q) \/ Collect(q) \/ Finish(q)
  <2>1. pc'[q] \in {"cursor", "idle", "publish", "collect"}
    BY <1>1, <1>t DEF LoadRules, Crash, Collect, Finish, Goto, TypeOK
  <2> QED BY <2>1 DEF Working, Evaluating
<1>2. CASE ReadCursor(q)
  <2>1. CASE applied
    <3>1. pc'[q] = "collect"
      BY <1>2, <1>t, <2>1 DEF ReadCursor, Goto, TypeOK
    <3> QED BY <3>1 DEF Working, Evaluating
  <2>2. CASE ~applied
    <3>1. pc'[q] = "next" /\ todo'[q] = Replayable(q)
      BY <1>2, <1>t, <2>2 DEF ReadCursor, Goto, TypeOK
    <3>2. Replayable(q) = Rules
      BY <1>2, <1>k, <2>2 DEF ReadCursor, Replayable, Loads
    <3> QED BY <3>1, <3>2 DEF Doing
  <2> QED BY <2>1, <2>2
<1>3. CASE Publish(q)
  <2>1. pc[q] = "publish" /\ pc'[q] \in {"next", "idle"}
        /\ (pc'[q] = "next" => todo'[q] = Loaded(q))
    BY <1>3, <1>t DEF Publish, Goto, TypeOK
  <2> QED BY <1>k, <2>1 DEF Doing, Working, Evaluating
<1>4. CASE NextRule(q)
  <2>1. pc[q] = "next" /\ UNCHANGED <<sample, incidents, cursor>>
    BY <1>4 DEF NextRule
  <2>2. Doing(q)' = Doing(q) /\ pc'[q] = "find"
    <3>1. PICK r \in todo[q] :
            /\ todo' = [todo EXCEPT ![q] = @ \ {r}]
            /\ IF Active(r) /\ rev[r] = known[q][r]
               THEN rule' = [rule EXCEPT ![q] = r] /\ Goto(q, "find")
               ELSE UNCHANGED <<rule, pc>>
      BY <1>4 DEF NextRule
    <3>2. r \in Rules /\ Active(r) /\ rev[r] = known[q][r]
      BY <1>t, <2>1, <3>1 DEF TypeOK, Steady, Loads, Active
    <3>3. todo'[q] = todo[q] \ {r} /\ rule'[q] = r /\ pc'[q] = "find"
      BY <1>t, <3>1, <3>2 DEF TypeOK, Goto
    <3> QED BY <2>1, <3>1, <3>3 DEF Doing, Evaluating
  <2> QED BY <1>f, <2>1, <2>2 DEF Decided, Working, Evaluating
<1>5. CASE FindActive(q)
  <2>1. pc[q] = "find" /\ UNCHANGED <<sample, cursor, todo, rule, incidents>>
    BY <1>5 DEF FindActive
  <2>2. pc[q] \in Working
    BY <2>1 DEF Working, Evaluating
  <2>3. CASE pc'[q] = "next"
    <3>1. Hot(q) \/ FiringOf(rule[q]) = {}
      BY <1>5, <1>t, <2>3 DEF FindActive, Hot, Goto, TypeOK
    <3> QED BY <1>f, <2>1, <2>2, <2>3, <3>1 DEF Decided, Doing, Hot, Evaluating
  <2>4. CASE pc'[q] = "cooldown"
    <3>1. Hot(q)
      BY <1>5, <1>t, <2>4 DEF FindActive, Hot, Goto, TypeOK
    <3> QED BY <1>f, <2>1, <2>2, <2>4, <3>1 DEF Decided, Doing, Hot, Evaluating
  <2>5. CASE pc'[q] = "clear"
    <3>1. ~Hot(q) /\ FiringOf(rule[q]) # {}
      BY <1>5, <1>t, <2>5 DEF FindActive, Hot, Goto, TypeOK
    <3>2. target'[q] = CHOOSE i \in FiringOf(rule[q]) : TRUE
      BY <1>5, <1>t, <3>1 DEF FindActive, TypeOK
    <3>3. FiringOf(rule[q]) \subseteq {target'[q]}
      BY <3>1, <3>2 DEF OneFiring, FiringOf
    <3> QED BY <1>f, <2>1, <2>2, <2>5, <3>1, <3>3 DEF Decided, Doing, Hot, Evaluating
  <2>6. pc'[q] \in {"next", "cooldown", "clear"}
    BY <1>5, <1>t DEF FindActive, Goto, TypeOK
  <2> QED BY <2>3, <2>4, <2>5, <2>6
<1>6. CASE CheckCooldown(q)
  <2>1. pc[q] = "cooldown" /\ UNCHANGED <<sample, cursor, todo, rule, incidents>>
        /\ pc'[q] \in {"open", "suppress"}
    BY <1>6, <1>t DEF CheckCooldown, Goto, TypeOK
  <2> QED BY <1>f, <2>1 DEF Decided, Doing, Hot, Working, Evaluating
<1>7. CASE Suppress(q) \/ OpenIncident(q) \/ ClearIncident(q)
  <2>1. pc[q] \in Evaluating /\ pc'[q] = "next" /\ UNCHANGED <<sample, cursor, todo, rule>>
    BY <1>7, <1>t DEF Suppress, OpenIncident, ClearIncident, Goto, TypeOK, Evaluating
  <2>2. CASE Current(q)
    <3>1. sample[q] = cursor /\ Id(sample[q]) = Id(cursor)
      BY <2>2, Caught DEF Current
    <3>2. Doing(q) = Doing(q)' \cup {rule[q]}
      BY <2>1 DEF Doing, Evaluating
    <3>3. \A r \in Rules \ (Doing(q)' \cup cursor.hot \cup {rule[q]}) : FiringOf(r) = {}
      BY <2>1, <3>1, <3>2 DEF Decided, Working
    <3>4. \A r \in Rules \ (Doing(q)' \cup cursor.hot \cup {rule[q]}) : FiringOf(r)' = {}
      BY <1>7, <3>3, OpensHot DEF Next, PollStep
    <3>5. rule[q] \in cursor.hot \/ FiringOf(rule[q])' = {}
      BY <1>7, <2>2, <3>1, ClearEmpties DEF Suppress, OpenIncident, Decided, Hot
    <3> QED BY <2>1, <3>1, <3>4, <3>5
  <2>3. CASE ~Current(q)
    <3>1. Id(sample'[q]) # Id(cursor')
      BY <2>1, <2>3, VoidWrite DEF Working
    <3> QED BY <2>1, <3>1
  <2> QED BY <2>2, <2>3
<1> HIDE DEF Goal
<1> QED BY <1>1, <1>2, <1>3, <1>4, <1>5, <1>6, <1>7 DEF PollStep

LEMMA DecidedStep ==
  ASSUME MaxEdits = 0
  PROVE  Typed /\ Steady /\ Loads /\ Tokened /\ Seen /\ OneFiring /\ Decided /\ [Next]_vars
         => Decided'
<1> SUFFICES ASSUME Typed, Steady, Loads, Tokened, Seen, OneFiring, Decided, [Next]_vars
             PROVE  Decided'
  OBVIOUS
<1>t. TypeOK /\ TypeOK'
  BY TypedStep DEF Typed
<1>1. ASSUME NEW q \in Pollers
      PROVE  /\ pc'[q] \in {"cooldown", "suppress", "open"} => Hot(q)'
             /\ pc'[q] = "clear" => ~Hot(q)'
             /\ pc'[q] \in Working /\ Id(sample'[q]) = Id(cursor')
                => \A r \in Rules \ (Doing(q)' \cup sample'[q].hot) : FiringOf(r)' = {}
             /\ pc'[q] = "clear" /\ Id(sample'[q]) = Id(cursor')
                => \A r \in Rules : r = rule'[q] => FiringOf(r)' \subseteq {target'[q]}
  <2>1. CASE PollStep(q) \/ Crash(q)
    BY <2>1, DecidedByWorker
  <2>2. CASE UNCHANGED <<pc[q], sample[q], todo[q], rule[q], target[q]>>
    <3>1. Doing(q)' = Doing(q) /\ Hot(q)' = Hot(q)
      BY <2>2 DEF Doing, Hot
    <3>2. CASE pc[q] \in Working /\ Id(sample[q]) = Id(cursor')
      <4>1. Id(sample[q]) = Id(cursor)
        BY <1>t, <3>2, Passed
      <4>2. sample[q] = cursor
        BY <4>1, Caught
      <4>3. \A r \in Rules \ (Doing(q) \cup sample[q].hot) : FiringOf(r)' = {}
        BY <3>2, <4>1, <4>2, OpensHot DEF Decided
      <4>4. ASSUME pc[q] = "clear", NEW r \in Rules, r = rule[q]
            PROVE  FiringOf(r)' \subseteq {target[q]}
        <5>1. r \notin cursor.hot
          BY <4>2, <4>4 DEF Decided, Hot
        <5>2. FiringOf(r) \subseteq {target[q]}
          BY <4>1, <4>4 DEF Decided
        <5> QED BY <5>1, <5>2, OpensHot
      <4> QED BY <2>2, <3>1, <4>3, <4>4 DEF Decided
    <3>3. CASE ~(pc[q] \in Working /\ Id(sample[q]) = Id(cursor'))
      BY <2>2, <3>1, <3>3 DEF Decided, Working, Evaluating
    <3> QED BY <3>2, <3>3
  <2>3. ASSUME NEW p \in Pollers, p # q, PollStep(p) \/ Crash(p)
        PROVE  UNCHANGED <<pc[q], sample[q], todo[q], rule[q], target[q]>>
    BY <1>t, <2>3, OthersKeep
  <2>4. UNCHANGED workVars => UNCHANGED <<pc[q], sample[q], todo[q], rule[q], target[q]>>
    BY DEF workVars
  <2>5. UNCHANGED vars => UNCHANGED workVars
    BY DEF vars
  <2> QED BY <2>1, <2>2, <2>3, <2>4, <2>5, RestKeeps
<1>2. applied' /\ cursor'.at # 0 => \A r \in Rules \ cursor'.hot : FiringOf(r)' = {}
  BY DecidedByCursor
<1>3. \A q \in Pollers : rule'[q] \in Rules
  BY <1>t DEF TypeOK
<1>4. ASSUME NEW q \in Pollers, NEW r \in Rules, r = rule'[q] PROVE FiringOf(rule[q])' = FiringOf(r)'
  BY <1>4 DEF FiringOf
<1>5. \A q \in Pollers : pc'[q] = "clear" /\ Id(sample'[q]) = Id(cursor')
                         => FiringOf(rule[q])' \subseteq {target'[q]}
  BY <1>1, <1>3, <1>4
<1> QED BY <1>1, <1>2, <1>5 DEF Decided, Id

\* While the rules do not change, an applied sample has the last word: what it does
\* not trigger does not fire, whatever older samples are still being worked on.
THEOREM NewestDecides ==
  ASSUME MaxEdits = 0
  PROVE  Spec => []AppliedSampleDecides
<1>1. Decided => AppliedSampleDecides
  BY DEF Decided, AppliedSampleDecides
<1>2. Init => Decided /\ OneFiring
  BY DEF Init, Decided, OneFiring, Working, Evaluating, NoSample
<1> QED
  BY <1>1, <1>2, TypedInit, TypedStep, TokenedInit, TokenedStep, QuietInit, SteadyStep, LoadsStep,
     SeenStep, OneFiringStep, DecidedStep, PTL DEF Spec

-----------------------------------------------------------------------------
(* Replicas act as one observer of the newest sample *)

\* A worker that loaded the newest revision of a rule loaded an active rule, and the
\* rule still is: only a revision ends that.
Fresh ==
  \A p \in Pollers, r \in Rules : known[p][r] = rev[r] => Active(r)

\* A sample fires only for rules it was taken for.
Fired ==
  \A p \in Pollers : pc[p] = "publish" => \A r \in sample[p].hot : sample[p].revs[r] # 0

\* A worker that is about to write goes by the verdict of its sample.
Judged ==
  \A p \in Pollers : /\ pc[p] \in {"cooldown", "suppress", "open"} => Hot(p)
                     /\ pc[p] = "clear" => ~Hot(p)

\* What a person does to a rule: a new revision, and perhaps the end of its incidents.
Edited(r) ==
  /\ rev' = [rev EXCEPT ![r] = @ + 1]
  /\ \A s \in Rules \ {r} :
       enabled'[s] = enabled[s] /\ listed'[s] = listed[s] /\ muted'[s] = muted[s]
  /\ UNCHANGED <<cursor, workVars>>
  /\ incidents' = [j \in DOMAIN incidents |-> incidents'[j]]
  /\ \E gone \in {{}, FiringOf(r)} :
       \A i \in DOMAIN incidents : IF i \in gone THEN Ended(i) ELSE incidents'[i] = incidents[i]

LEMMA UserEdits ==
  ASSUME TypeOK, NEW r \in Rules, UserStep(r)
  PROVE  Edited(r)
<1>1. ASSUME NEW m \in BOOLEAN, SetMuted(r, m) PROVE Edited(r)
  <2>1. incidents' = incidents /\ incidents \in Seq(Incident)
    BY <1>1 DEF SetMuted, TypeOK
  <2>2. /\ incidents' = [j \in DOMAIN incidents |-> incidents'[j]]
        /\ \A i \in DOMAIN incidents : IF i \in {} THEN Ended(i) ELSE incidents'[i] = incidents[i]
    BY <2>1
  <2>3. \A s \in Rules \ {r} :
          enabled'[s] = enabled[s] /\ listed'[s] = listed[s] /\ muted'[s] = muted[s]
    BY <1>1 DEF SetMuted, TypeOK
  <2> QED BY <1>1, <2>2, <2>3 DEF SetMuted, Edited
<1>2. ASSUME NEW b \in BOOLEAN, ChangeRule(r, b),
             \A s \in Rules \ {r} : enabled'[s] = enabled[s] /\ listed'[s] = listed[s]
      PROVE  Edited(r)
  BY <1>2, ChangeEdits DEF ChangeRule, Edited
<1>3. CASE EditRule(r)
  BY <1>2, <1>3 DEF EditRule
<1>4. CASE DisableRule(r) \/ EnableRule(r) \/ DeleteRule(r)
  <2>1. \A s \in Rules \ {r} : enabled'[s] = enabled[s] /\ listed'[s] = listed[s]
    BY <1>4 DEF DisableRule, EnableRule, DeleteRule, TypeOK
  <2> QED BY <1>2, <1>4, <2>1 DEF DisableRule, EnableRule, DeleteRule
<1> QED BY <1>1, <1>3, <1>4 DEF UserStep

LEMMA FreshStep == Typed /\ Awake /\ Fresh /\ [Next]_vars => Fresh'
<1> SUFFICES ASSUME Typed, Awake, Fresh, [Next]_vars, NEW q \in Pollers, NEW s \in Rules,
                    known'[q][s] = rev'[s]
             PROVE  Active(s)'
  BY DEF Fresh, Active
<1>t. TypeOK
  BY DEF Typed
<1>k. known[q][s] \in Nat /\ rev[s] \in Nat \ {0} /\ known[q][s] <= rev[s]
      /\ (known[q][s] = rev[s] => Active(s))
  BY <1>t DEF TypeOK, Awake, Fresh
<1>1. ASSUME NEW p \in Pollers, LoadRules(p) PROVE Active(s)'
  <2>1. known' = [known EXCEPT ![p] = [r \in Rules |-> IF Active(r) THEN rev[r] ELSE 0]]
        /\ rev' = rev /\ Active(s)' = Active(s)
    BY <1>1 DEF LoadRules, ruleVars, Active
  <2>2. CASE p = q
    <3>1. known'[q][s] = IF Active(s) THEN rev[s] ELSE 0
      BY <1>t, <2>1, <2>2 DEF TypeOK
    <3> QED BY <1>k, <2>1, <3>1
  <2>3. CASE p # q
    <3>1. known'[q] = known[q]
      BY <1>t, <2>1, <2>3 DEF TypeOK
    <3> QED BY <1>k, <2>1, <3>1
  <2> QED BY <2>2, <2>3
<1>2. UNCHANGED <<known, ruleVars>> => Active(s)'
  BY <1>k DEF ruleVars, Active
<1>3. ASSUME NEW p \in Pollers,
             \/ ReadCursor(p) \/ Collect(p) \/ Publish(p) \/ Finish(p)
             \/ NextRule(p) \/ FindActive(p) \/ CheckCooldown(p)
             \/ Suppress(p) \/ OpenIncident(p) \/ ClearIncident(p) \/ Crash(p)
      PROVE  UNCHANGED <<known, ruleVars>>
  BY <1>3 DEF ReadCursor, Collect, Publish, Finish, NextRule, FindActive, CheckCooldown,
              Suppress, OpenIncident, ClearIncident, Crash
<1>4. ASSUME NEW r \in Rules, UserStep(r) PROVE Active(s)'
  <2>1. Edited(r)
    BY <1>t, <1>4, UserEdits
  <2>2. known' = known
    BY <2>1 DEF Edited, workVars
  <2>3. CASE r = s
    BY <1>t, <1>k, <2>1, <2>2, <2>3 DEF Edited, TypeOK
  <2>4. CASE r # s
    <3>1. rev'[s] = rev[s]
      BY <1>t, <2>1, <2>4 DEF Edited, TypeOK
    <3>2. Active(s) => Active(s)'
      BY <2>1, <2>4 DEF Edited, Active
    <3> QED BY <1>k, <2>2, <3>1, <3>2
  <2> QED BY <2>3, <2>4
<1>5. ASSUME NEW r \in Rules, SnoozeExpires(r) PROVE Active(s)'
  <2>1. known' = known /\ rev' = rev /\ (Active(s) => Active(s)')
    BY <1>t, <1>5 DEF SnoozeExpires, workVars, Active, TypeOK
  <2> QED BY <1>k, <2>1
<1>6. (\E k \in DOMAIN incidents : ResolveByHand(k)) \/ Tick \/ UNCHANGED vars
      => UNCHANGED <<known, ruleVars>>
  BY DEF ResolveByHand, Tick, vars, workVars
<1> QED BY <1>1, <1>2, <1>3, <1>4, <1>5, <1>6 DEF Next, PollStep

\* What a worker holds changes by its own steps only.
LEMMA HeldByWorker ==
  ASSUME TypeOK, [Next]_vars, NEW q \in Pollers
  PROVE  \/ PollStep(q) \/ Crash(q)
         \/ pc'[q] = pc[q] /\ sample'[q] = sample[q] /\ rule'[q] = rule[q]
<1>1. ASSUME NEW p \in Pollers, p # q, PollStep(p) \/ Crash(p)
      PROVE  pc'[q] = pc[q] /\ sample'[q] = sample[q] /\ rule'[q] = rule[q]
  BY <1>1, OthersKeep
<1>2. ASSUME NEW r \in Rules, UserStep(r) \/ SnoozeExpires(r) PROVE UNCHANGED workVars
  BY <1>2, UserEdits DEF Edited, SnoozeExpires
<1>3. (\E k \in DOMAIN incidents : ResolveByHand(k)) \/ Tick \/ UNCHANGED vars
      => UNCHANGED workVars
  BY DEF ResolveByHand, Tick, vars
<1> QED BY <1>1, <1>2, <1>3 DEF Next, workVars

LEMMA FiredStep == Typed /\ Fired /\ [Next]_vars => Fired'
<1> SUFFICES ASSUME Typed, Fired, [Next]_vars, NEW q \in Pollers, pc'[q] = "publish",
                    NEW r \in sample'[q].hot
             PROVE  sample'[q].revs[r] # 0
  BY DEF Fired
<1>t. TypeOK
  BY DEF Typed
<1>1. CASE pc'[q] = pc[q] /\ sample'[q] = sample[q]
  BY <1>1 DEF Fired
<1>2. CASE Collect(q)
  BY <1>2, <1>t DEF Collect, Loaded, TypeOK
<1>3. CASE \/ LoadRules(q) \/ ReadCursor(q) \/ Publish(q) \/ Finish(q) \/ NextRule(q)
           \/ FindActive(q) \/ CheckCooldown(q) \/ Suppress(q) \/ OpenIncident(q)
           \/ ClearIncident(q) \/ Crash(q)
  <2>1. pc'[q] # "publish"
    BY <1>3, <1>t DEF LoadRules, ReadCursor, Publish, Finish, NextRule, FindActive, CheckCooldown,
                      Suppress, OpenIncident, ClearIncident, Crash, Goto, TypeOK
  <2> QED BY <2>1
<1> QED BY <1>t, <1>1, <1>2, <1>3, HeldByWorker DEF PollStep

LEMMA JudgedStep == Typed /\ Judged /\ [Next]_vars => Judged'
<1> SUFFICES ASSUME Typed, Judged, [Next]_vars, NEW q \in Pollers
             PROVE  /\ pc'[q] \in {"cooldown", "suppress", "open"} => Hot(q)'
                    /\ pc'[q] = "clear" => ~Hot(q)'
  BY DEF Judged, Hot
<1>t. TypeOK
  BY DEF Typed
<1>1. CASE pc'[q] = pc[q] /\ sample'[q] = sample[q] /\ rule'[q] = rule[q]
  BY <1>1 DEF Judged, Hot
<1>2. CASE FindActive(q)
  BY <1>2, <1>t DEF FindActive, Hot, Goto, TypeOK
<1>3. CASE CheckCooldown(q)
  BY <1>3, <1>t DEF CheckCooldown, Judged, Hot, Goto, TypeOK
<1>4. CASE \/ LoadRules(q) \/ ReadCursor(q) \/ Collect(q) \/ Publish(q) \/ Finish(q)
           \/ NextRule(q) \/ Suppress(q) \/ OpenIncident(q) \/ ClearIncident(q) \/ Crash(q)
  <2>1. pc'[q] \notin {"cooldown", "suppress", "open", "clear"}
    BY <1>4, <1>t DEF LoadRules, ReadCursor, Collect, Publish, Finish, NextRule, Suppress,
                      OpenIncident, ClearIncident, Crash, Goto, TypeOK
  <2> QED BY <2>1
<1> QED BY <1>t, <1>1, <1>2, <1>3, <1>4, HeldByWorker DEF PollStep

\* An incident as the observer writes it.
Row == [rule : Rules, status : {"firing", "resolved"}, counted : SUBSET Nat, count : Nat,
        clearedBy : Nat \X Nat]
View(x) == [rule |-> x.rule, status |-> x.status, counted |-> x.silenced,
            count |-> x.suppressed, clearedBy |-> x.clearedBy]

Views(rows) == [i \in DOMAIN rows |-> View(rows[i])]

LEMMA ViewsTypes ==
  ASSUME NEW rows \in Seq(Incident)
  PROVE  /\ Views(rows) \in Seq(Row) /\ DOMAIN Views(rows) = DOMAIN rows
         /\ Len(Views(rows)) = Len(rows)
         /\ \A i \in DOMAIN rows : Views(rows)[i] = View(rows[i]) /\ Views(rows)[i] \in Row
<1>1. DOMAIN rows = 1 .. Len(rows) /\ Len(rows) \in Nat
  OBVIOUS
<1>2. Views(rows) = [i \in 1 .. Len(rows) |-> View(rows[i])]
  BY <1>1 DEF Views
<1>3. ASSUME NEW i \in 1 .. Len(rows) PROVE View(rows[i]) \in Row
  <2>1. rows[i] \in Incident
    BY <1>1
  <2> QED BY <2>1 DEF View, Row, Incident
<1> QED BY <1>1, <1>2, <1>3

LEMMA ShownTypes ==
  ASSUME incidents \in Seq(Incident)
  PROVE  /\ Shown \in Seq(Row) /\ DOMAIN Shown = DOMAIN incidents /\ Len(Shown) = Len(incidents)
         /\ \A i \in DOMAIN incidents : Shown[i] = View(incidents[i]) /\ Shown[i] \in Row
<1>1. Shown = Views(incidents)
  BY DEF Shown, Views, View
<1> QED BY <1>1, ViewsTypes

LEMMA ShownNext ==
  ASSUME incidents' \in Seq(Incident)
  PROVE  /\ Shown' \in Seq(Row) /\ DOMAIN Shown' = DOMAIN incidents' /\ Len(Shown') = Len(incidents')
         /\ \A i \in DOMAIN incidents' : Shown'[i] = View(incidents'[i])
<1>1. Shown' = Views(incidents')
  BY DEF Shown, Views, View
<1> QED BY <1>1, ViewsTypes

LEMMA SameFiring ==
  ASSUME incidents \in Seq(Incident), NEW r
  PROVE  Promise!FiringOf(r) = FiringOf(r)
<1>1. DOMAIN Shown = DOMAIN incidents
      /\ \A i \in DOMAIN incidents : Shown[i] = View(incidents[i])
  BY ShownTypes
<1> QED BY <1>1 DEF Promise!FiringOf, FiringOf, View

LEMMA SameShown == incidents' = incidents => Shown' = Shown
BY DEF Shown

LEMMA SameAwake ==
  UNCHANGED ruleVars => [r \in Rules |-> Active(r)]' = [r \in Rules |-> Active(r)]
BY DEF ruleVars, Active

\* Ending incidents.
LEMMA Dismisses ==
  ASSUME Typed, Typed', NEW gone \in SUBSET DOMAIN incidents,
         incidents' = [j \in DOMAIN incidents |-> incidents'[j]],
         \A i \in DOMAIN incidents : IF i \in gone THEN Ended(i) ELSE incidents'[i] = incidents[i]
  PROVE  Promise!Dismissed(gone)
<1>1. incidents \in Seq(Incident) /\ incidents' \in Seq(Incident)
  BY DEF Typed, TypeOK
<1>2. DOMAIN incidents' = DOMAIN incidents
  OBVIOUS
<1>3. /\ Shown \in Seq(Row) /\ DOMAIN Shown = DOMAIN incidents
      /\ \A i \in DOMAIN incidents : Shown[i] = View(incidents[i]) /\ Shown[i] \in Row
  BY <1>1, ShownTypes
<1>4. /\ Shown' \in Seq(Row) /\ DOMAIN Shown' = DOMAIN incidents
      /\ \A i \in DOMAIN incidents : Shown'[i] = View(incidents'[i])
  BY <1>1, <1>2, ShownNext
<1>5. ASSUME NEW i \in DOMAIN incidents
      PROVE  Shown'[i] = IF i \in gone THEN [Shown[i] EXCEPT !.status = "resolved"] ELSE Shown[i]
  <2>1. CASE i \notin gone
    BY <1>3, <1>4, <2>1
  <2>2. CASE i \in gone
    <3>1. PICK v \in BOOLEAN :
            incidents'[i] = [incidents[i] EXCEPT !.status = "resolved", !.invalidated = v]
      BY <2>2 DEF Ended
    <3>2. incidents[i] \in Incident
      BY <1>1
    <3>3. View(incidents'[i]) = [View(incidents[i]) EXCEPT !.status = "resolved"]
      BY <3>1, <3>2 DEF View, Incident
    <3> QED BY <1>3, <1>4, <2>2, <3>3
  <2> QED BY <2>1, <2>2
<1>6. Shown' = [i \in DOMAIN Shown |->
                  IF i \in gone THEN [Shown[i] EXCEPT !.status = "resolved"] ELSE Shown[i]]
  BY <1>3, <1>4, <1>5
<1> QED BY <1>6 DEF Promise!Dismissed

\* The sample of a worker whose write is not void is the newest one and speaks for the
\* rule as it is now.
LEMMA Speaks ==
  ASSUME Typed, Tokened, AsSampled, Fresh, NEW p \in Pollers, pc[p] \in Evaluating, Current(p)
  PROVE  /\ sample[p] = cursor /\ rule[p] \in Rules
         /\ Promise!SpeaksFor(rule[p])
<1>1. sample[p] = cursor
  BY Caught DEF Current
<1>2. rule[p] \in Rules
  BY DEF Typed, TypeOK
<1>3. sample[p].revs[rule[p]] = known[p][rule[p]]
  BY DEF AsSampled, Doing
<1>4. rev[rule[p]] = known[p][rule[p]] /\ Active(rule[p])
  BY <1>2 DEF Current, RuleUnchanged, Fresh
<1>5. Newest.revs[rule[p]] = rev[rule[p]]
  BY <1>1, <1>3, <1>4 DEF Newest
<1> QED BY <1>1, <1>2, <1>4, <1>5 DEF Promise!SpeaksFor

LEMMA OpenSimulates ==
  ASSUME Typed, Typed', Tokened, AsSampled, Fresh, Judged, NEW p \in Pollers, Opens(p),
         UNCHANGED <<cursor, ruleVars>>
  PROVE  Promise!Open(rule[p])
<1>1. incidents \in Seq(Incident) /\ incidents' \in Seq(Incident)
  BY DEF Typed, TypeOK
<1>2. sample[p] = cursor /\ rule[p] \in Rules /\ Promise!SpeaksFor(rule[p])
  BY Speaks DEF Opens, Evaluating
<1>3. rule[p] \in Newest.hot
  BY <1>2 DEF Opens, Judged, Hot, Newest
<1>4. Promise!FiringOf(rule[p]) = {}
  BY <1>1, SameFiring DEF Opens
<1> DEFINE new == [rule |-> rule[p], status |-> "firing", counted |-> {}, count |-> 0,
                   clearedBy |-> <<0, 0>>]
<1>5. Shown' = Append(Shown, new)
  <2>1. /\ Shown \in Seq(Row) /\ Len(Shown) = Len(incidents) /\ DOMAIN Shown = DOMAIN incidents
        /\ \A i \in DOMAIN incidents : Shown[i] = View(incidents[i])
    BY <1>1, ShownTypes
  <2>2. /\ Shown' \in Seq(Row) /\ Len(Shown') = Len(incidents')
        /\ \A i \in DOMAIN incidents' : Shown'[i] = View(incidents'[i])
    BY <1>1, ShownNext
  <2>3. incidents' = Append(incidents, NewIncident(p))
    BY DEF Opens
  <2>4. /\ Len(incidents') = Len(incidents) + 1
        /\ \A i \in 1 .. Len(incidents) : incidents'[i] = incidents[i]
        /\ incidents'[Len(incidents) + 1] = NewIncident(p)
    BY <1>1, <2>3
  <2>5. View(NewIncident(p)) = new /\ new \in Row
    BY <1>2 DEF View, NewIncident, Row
  <2> HIDE DEF new
  <2>6. /\ Len(Shown') = Len(Shown) + 1
        /\ \A i \in 1 .. Len(Shown) : Shown'[i] = Shown[i]
        /\ Shown'[Len(Shown) + 1] = new
    BY <1>1, <2>1, <2>2, <2>4, <2>5
  <2>7. Append(Shown, new) \in Seq(Row) /\ Len(Append(Shown, new)) = Len(Shown) + 1
        /\ (\A i \in 1 .. Len(Shown) : Append(Shown, new)[i] = Shown[i])
        /\ Append(Shown, new)[Len(Shown) + 1] = new
    BY <2>1, <2>5
  <2>8. \A i \in 1 .. Len(Shown) + 1 : Shown'[i] = Append(Shown, new)[i]
    BY <2>1, <2>6, <2>7
  <2> QED BY <2>1, <2>2, <2>6, <2>7, <2>8
<1>6. Newest' = Newest /\ rev' = rev /\ [r \in Rules |-> Active(r)]' = [r \in Rules |-> Active(r)]
  BY SameAwake DEF Newest, ruleVars
<1> QED BY <1>2, <1>3, <1>4, <1>5, <1>6 DEF Promise!Open

\* A write in the row of one incident.
LEMMA OneRow ==
  ASSUME Typed, Typed', NEW i \in DOMAIN incidents, OthersStay(i),
         NEW y, View(incidents'[i]) = y
  PROVE  Shown' = [Shown EXCEPT ![i] = y]
<1>1. incidents \in Seq(Incident) /\ incidents' \in Seq(Incident)
  BY DEF Typed, TypeOK
<1>2. DOMAIN incidents' = DOMAIN incidents
  BY DEF OthersStay
<1>3. /\ Shown \in Seq(Row) /\ DOMAIN Shown = DOMAIN incidents
      /\ \A j \in DOMAIN incidents : Shown[j] = View(incidents[j])
  BY <1>1, ShownTypes
<1>4. /\ Shown' \in Seq(Row) /\ DOMAIN Shown' = DOMAIN incidents
      /\ \A j \in DOMAIN incidents : Shown'[j] = View(incidents'[j])
  BY <1>1, <1>2, ShownNext
<1>5. \A j \in DOMAIN incidents \ {i} : Shown'[j] = Shown[j]
  BY <1>3, <1>4 DEF OthersStay
<1> QED BY <1>3, <1>4, <1>5

Written(r, s, m, n, c) ==
  [rule |-> r, status |-> s, counted |-> m, count |-> n, clearedBy |-> c]

LEMMA RowCleared ==
  ASSUME NEW row \in Row, NEW d \in Nat \X Nat
  PROVE  [row EXCEPT !.status = "resolved", !.clearedBy = d]
         = Written(row.rule, "resolved", row.counted, row.count, d)
<1> DEFINE x == [row EXCEPT !.status = "resolved"]
<1>1. /\ x \in Row /\ x.rule = row.rule /\ x.status = "resolved"
      /\ x.counted = row.counted /\ x.count = row.count
  BY DEF Row
<1> HIDE DEF x
<1>2. [x EXCEPT !.clearedBy = d] = Written(x.rule, x.status, x.counted, x.count, d)
  BY <1>1 DEF Row, Written
<1> QED BY <1>1, <1>2 DEF x

LEMMA ClearSimulates ==
  ASSUME Typed, Typed', Tokened, AsSampled, Fresh, Judged, NEW p \in Pollers, Resolves(p),
         UNCHANGED <<cursor, ruleVars>>
  PROVE  target[p] \in DOMAIN Shown /\ Promise!Clear(target[p])
<1> DEFINE i == target[p]
<1>1. /\ i \in DOMAIN incidents /\ incidents \in Seq(Incident) /\ incidents[i] \in Incident
      /\ incidents[i].rule = rule[p]
  BY DEF Resolves, Typed, TypeOK, Placed
<1>2. DOMAIN Shown = DOMAIN incidents /\ Shown[i] = View(incidents[i]) /\ Shown[i] \in Row
  BY <1>1, ShownTypes
<1>3. sample[p] = cursor /\ Promise!SpeaksFor(rule[p])
  BY Speaks DEF Resolves, Evaluating
<1>4. Shown[i].rule = rule[p] /\ Shown[i].status = "firing" /\ rule[p] \notin Newest.hot
  BY <1>1, <1>2, <1>3 DEF View, Resolves, Clears, Judged, Hot, Newest
<1>5. Shown' = [Shown EXCEPT ![i].status = "resolved", ![i].clearedBy = <<Newest.at, Newest.token>>]
  <2> DEFINE x == incidents[i]
             c == <<Newest.at, Newest.token>>
             y == Written(x.rule, "resolved", x.silenced, x.suppressed, c)
  <2>1. View(incidents'[i]) = y
    <3>1. incidents'[i] = [x EXCEPT !.status = "resolved", !.clearedBy = c]
      BY <1>3 DEF Resolves, Clears, Id, Newest
    <3> QED BY <1>1, <3>1 DEF View, Incident, Written
  <2>2. OthersStay(i)
    BY DEF Resolves
  <2>3. Shown' = [Shown EXCEPT ![i] = y]
    <3> HIDE DEF y
    <3> QED BY <1>1, <2>1, <2>2, OneRow
  <2>4. /\ c \in Nat \X Nat /\ Shown[i].rule = x.rule
        /\ Shown[i].counted = x.silenced /\ Shown[i].count = x.suppressed
    BY <1>2 DEF View, Newest, Typed, TypeOK, Sample
  <2> HIDE DEF c
  <2>5. [Shown[i] EXCEPT !.status = "resolved", !.clearedBy = c]
        = Written(Shown[i].rule, "resolved", Shown[i].counted, Shown[i].count, c)
    BY <1>2, <2>4, RowCleared
  <2>6. Shown' = [Shown EXCEPT ![i] = [Shown[i] EXCEPT !.status = "resolved", !.clearedBy = c]]
    BY <2>3, <2>4, <2>5
  <2> QED BY <1>1, <1>2, <2>6 DEF c
<1>6. Newest' = Newest /\ rev' = rev /\ [r \in Rules |-> Active(r)]' = [r \in Rules |-> Active(r)]
  BY SameAwake DEF Newest, ruleVars
<1> QED BY <1>1, <1>2, <1>3, <1>4, <1>5, <1>6 DEF Promise!Clear

LEMMA CountSimulates ==
  ASSUME Typed, Typed', Tokened, Counted, AsSampled, Fresh, Judged, NEW p \in Pollers, Silences(p),
         UNCHANGED <<cursor, ruleVars>>
  PROVE  target[p] \in DOMAIN Shown /\ (Promise!Count(target[p]) \/ Shown' = Shown)
<1> DEFINE i == target[p]
           x == incidents[i]
           t == sample[p].token
<1>1. /\ i \in DOMAIN incidents /\ incidents \in Seq(Incident) /\ x \in Incident
      /\ x.rule = rule[p]
  BY DEF Silences, Typed, TypeOK, Placed
<1>2. DOMAIN Shown = DOMAIN incidents /\ Shown[i] = View(x) /\ Shown[i] \in Row
      /\ Shown \in Seq(Row)
  BY <1>1, ShownTypes
<1>3. sample[p] = cursor /\ Promise!SpeaksFor(rule[p])
  BY Speaks DEF Silences, Evaluating
<1>4. t # 0 /\ Newest.token = t
  BY <1>3 DEF Silences, Tokened, Evaluating, Newest
<1>5. x.lastToken = t <=> t \in x.silenced
  <2>1. Tallied(x) /\ Behind(x, Live, cursor)
    BY <1>1 DEF Counted
  <2>2. cursor \in Live
    BY DEF Live
  <2> QED BY <1>3, <1>4, <2>1, <2>2 DEF Tallied, Behind
<1>6. PICK n \in Nat :
        /\ n = IF x.lastToken = t THEN x.suppressed ELSE x.suppressed + 1
        /\ incidents'[i] = [x EXCEPT !.suppressed = n, !.lastToken = t, !.silenced = @ \cup {t}]
  BY DEF Silences, Counts
<1>7. View(incidents'[i]) = [rule |-> x.rule, status |-> x.status, counted |-> x.silenced \cup {t},
                             count |-> n, clearedBy |-> x.clearedBy]
  BY <1>1, <1>6 DEF View, Incident
<1>8. OthersStay(i)
  BY DEF Silences
<1>9. CASE t \in x.silenced
  <2>1. x.silenced \cup {t} = x.silenced /\ n = x.suppressed
    BY <1>5, <1>6, <1>9
  <2>2. View(incidents'[i]) = Shown[i]
    BY <1>2, <1>7, <2>1 DEF View
  <2>3. Shown' = [Shown EXCEPT ![i] = Shown[i]]
    BY <1>1, <1>8, <2>2, OneRow
  <2> QED BY <1>1, <1>2, <2>3
<1>10. CASE t \notin x.silenced
  <2>1. n = x.suppressed + 1
    BY <1>5, <1>6, <1>10
  <2> DEFINE y == [Shown[i] EXCEPT !.counted = @ \cup {Newest.token}, !.count = @ + 1]
  <2>2. View(incidents'[i]) = y
    <3>1. y = [View(x) EXCEPT !.counted = x.silenced \cup {t}, !.count = x.suppressed + 1]
      BY <1>2, <1>4 DEF View
    <3> HIDE DEF y, x, t
    <3> QED BY <1>7, <2>1, <3>1 DEF View
  <2>4. Shown' = [Shown EXCEPT ![i].counted = @ \cup {Newest.token}, ![i].count = @ + 1]
    <3> HIDE DEF y
    <3>1. Shown' = [Shown EXCEPT ![i] = y]
      BY <1>1, <1>8, <2>2, OneRow
    <3> QED BY <1>1, <1>2, <3>1 DEF y
  <2>3. Shown[i].rule = rule[p] /\ rule[p] \in Newest.hot /\ Newest.token \notin Shown[i].counted
    BY <1>1, <1>2, <1>3, <1>4, <1>10 DEF View, Silences, Judged, Hot, Newest
  <2>5. Newest' = Newest /\ rev' = rev /\ [r \in Rules |-> Active(r)]' = [r \in Rules |-> Active(r)]
    BY SameAwake DEF Newest, ruleVars
  <2> QED BY <1>1, <1>2, <1>3, <2>3, <2>4, <2>5 DEF Promise!Count
<1> QED BY <1>9, <1>10

\* A sample that is published is news, or it was the newest already.
LEMMA PublishSimulates ==
  ASSUME Typed, Tokened, AsSampled, Awake, Fired, NEW p \in Pollers, Publish(p)
  PROVE  Promise!Observe \/ UNCHANGED Promise!vars
<1>1. /\ UNCHANGED <<rev, incidents>> /\ pc[p] = "publish"
      /\ [r \in Rules |-> Active(r)]' = [r \in Rules |-> Active(r)] /\ Shown' = Shown
  BY SameAwake, SameShown DEF Publish, ruleVars
<1>2. CASE cursor' = cursor
  BY <1>1, <1>2 DEF Promise!vars, Newest
<1>3. CASE cursor' # cursor
  <2>1. cursor' = sample[p] /\ NotAfter(Id(cursor), Id(sample[p]))
    BY <1>3 DEF Publish, Upsert
  <2>2. Id(sample[p]) # Id(cursor)
    BY <1>3, <2>1, Caught
  <2>3. cursor \in Sample /\ sample[p] \in Sample
    BY DEF Typed, TypeOK
  <2>4. /\ Newest.at = cursor.at /\ Newest.token = cursor.token
        /\ Newest'.at = sample[p].at /\ Newest'.token = sample[p].token
        /\ Newest'.revs = sample[p].revs /\ Newest'.hot = sample[p].hot
    BY <2>1 DEF Newest
  <2>5. Newest.at < Newest'.at \/ (Newest.at = Newest'.at /\ Newest.token < Newest'.token)
    BY <2>1, <2>2, <2>3, <2>4 DEF NotAfter, Id, Sample
  <2>6. \A r \in Rules : Newest'.revs[r] <= rev[r]
    BY <1>1, <2>4 DEF AsSampled, Awake
  <2>7. \A r \in Newest'.hot : Newest'.revs[r] # 0
    BY <1>1, <2>4 DEF Fired
  <2> QED BY <1>1, <2>5, <2>6, <2>7 DEF Promise!Observe
<1> QED BY <1>2, <1>3

LEMMA FinishSimulates ==
  ASSUME Typed, Tokened, Seen, NEW p \in Pollers, Finish(p)
  PROVE  UNCHANGED Promise!vars
<1>1. UNCHANGED <<ruleVars, incidents>>
  BY DEF Finish
<1>2. cursor' = cursor
  BY FinishWins DEF Finish, Upsert, UpsertWins, Typed
<1> QED BY <1>1, <1>2, SameAwake, SameShown DEF Promise!vars, Newest, ruleVars

\* What a person does to a rule is a change of it, and what the clock does wakes it.
LEMMA UserSimulates ==
  ASSUME Typed, Typed', NEW r \in Rules, UserStep(r)
  PROVE  Promise!Change(r)
<1>t. TypeOK /\ TypeOK' /\ incidents \in Seq(Incident)
  BY DEF Typed, TypeOK
<1>1. Edited(r)
  BY <1>t, UserEdits
<1>2. \E on \in BOOLEAN :
        [s \in Rules |-> Active(s)]' = [[s \in Rules |-> Active(s)] EXCEPT ![r] = on]
  <2> DEFINE on == enabled'[r] /\ listed'[r] /\ ~muted'[r]
  <2>1. on \in BOOLEAN
    OBVIOUS
  <2>2. \A s \in Rules \ {r} : (enabled'[s] /\ listed'[s] /\ ~muted'[s]) = Active(s)
    BY <1>1 DEF Edited, Active
  <2>3. [s \in Rules |-> Active(s)]' = [[s \in Rules |-> Active(s)] EXCEPT ![r] = on]
    BY <2>2 DEF Active
  <2> QED BY <2>1, <2>3
<1>3. \E gone \in {{}, Promise!FiringOf(r)} : Promise!Dismissed(gone)
  <2>1. PICK gone \in {{}, FiringOf(r)} :
          \A i \in DOMAIN incidents : IF i \in gone THEN Ended(i) ELSE incidents'[i] = incidents[i]
    BY <1>1 DEF Edited
  <2>2. gone \in SUBSET DOMAIN incidents
    BY DEF FiringOf
  <2>3. Promise!Dismissed(gone)
    BY <1>1, <2>1, <2>2, Dismisses DEF Edited
  <2>4. Promise!FiringOf(r) = FiringOf(r)
    BY <1>t, SameFiring
  <2> QED BY <2>3, <2>4
<1> QED BY <1>1, <1>2, <1>3 DEF Promise!Change, Edited, Newest

LEMMA ExpirySimulates ==
  ASSUME Typed, NEW r \in Rules, SnoozeExpires(r)
  PROVE  Promise!Wake(r) \/ UNCHANGED Promise!vars
<1>1. /\ UNCHANGED <<rev, incidents, cursor, enabled, listed>>
      /\ muted' = [muted EXCEPT ![r] = FALSE] /\ Shown' = Shown /\ Newest' = Newest
  BY SameShown DEF SnoozeExpires, Newest
<1>2. \A s \in Rules \ {r} : muted'[s] = muted[s]
  BY <1>1 DEF Typed, TypeOK
<1>3. muted[r] /\ ~muted'[r]
  BY <1>1 DEF SnoozeExpires, Typed, TypeOK
<1>4. CASE enabled[r] /\ listed[r]
  <2>1. \A s \in Rules \ {r} : (enabled'[s] /\ listed'[s] /\ ~muted'[s]) = Active(s)
    BY <1>1, <1>2 DEF Active
  <2>2. [s \in Rules |-> Active(s)]' = [[s \in Rules |-> Active(s)] EXCEPT ![r] = TRUE]
    BY <1>1, <1>3, <1>4, <2>1 DEF Active
  <2> QED BY <1>1, <2>2 DEF Promise!Wake
<1>5. CASE ~(enabled[r] /\ listed[r])
  <2>1. [s \in Rules |-> Active(s)]' = [s \in Rules |-> Active(s)]
    BY <1>1, <1>2, <1>5 DEF Active
  <2> QED BY <1>1, <2>1 DEF Promise!vars
<1> QED BY <1>4, <1>5

LEMMA HandSimulates ==
  ASSUME Typed, Typed', NEW i \in DOMAIN incidents, ResolveByHand(i)
  PROVE  i \in DOMAIN Shown /\ Promise!Dismiss(i)
<1>1. incidents \in Seq(Incident) /\ incidents[i] \in Incident
  BY DEF Typed, TypeOK
<1>2. UNCHANGED <<ruleVars, cursor>>
  BY DEF ResolveByHand
<1>3. Ended(i) /\ OthersStay(i)
  BY HandEnds DEF Typed
<1>4. /\ incidents' = [j \in DOMAIN incidents |-> incidents'[j]]
      /\ \A j \in DOMAIN incidents : IF j \in {i} THEN Ended(j) ELSE incidents'[j] = incidents[j]
  BY <1>3 DEF OthersStay
<1>5. Promise!Dismissed({i})
  BY <1>4, Dismisses
<1>6. i \in DOMAIN Shown
  BY <1>1, ShownTypes
<1> QED BY <1>2, <1>5, <1>6, SameAwake DEF Promise!Dismiss, Newest, ruleVars

\* What the refinement rests on.
Observing ==
  Typed /\ AsSampled /\ Awake /\ Fresh /\ Fired /\ Judged /\ Tokened /\ Counted /\ Seen

LEMMA PollSimulates ==
  ASSUME Observing, Typed', NEW p \in Pollers, PollStep(p) \/ Crash(p)
  PROVE  Promise!Next \/ UNCHANGED Promise!vars
<1>1. CASE Publish(p)
  BY <1>1, PublishSimulates DEF Observing, Promise!Next
<1>2. CASE Finish(p)
  BY <1>2, FinishSimulates DEF Observing
<1>3. CASE UNCHANGED <<cursor, ruleVars, incidents>>
  BY <1>3, SameAwake, SameShown DEF Promise!vars, Newest, ruleVars
<1>4. ASSUME Opens(p), UNCHANGED <<cursor, ruleVars>> PROVE Promise!Next
  <2>1. rule[p] \in Rules
    BY DEF Observing, Typed, TypeOK
  <2>2. Promise!Open(rule[p])
    BY <1>4, OpenSimulates DEF Observing
  <2> QED BY <2>1, <2>2 DEF Promise!Next
<1>5. CASE OpenIncident(p)
  BY <1>3, <1>4, <1>5 DEF OpenIncident, Opens
<1>6. CASE Suppress(p)
  <2>1. Nothing \/ Silences(p)
    BY <1>6, SuppressChange DEF Observing
  <2>2. UNCHANGED <<cursor, ruleVars>>
    BY <1>6 DEF Suppress
  <2>3. CASE Nothing
    BY <1>3, <2>2, <2>3 DEF Nothing
  <2>4. CASE Silences(p)
    <3>1. target[p] \in DOMAIN Shown /\ (Promise!Count(target[p]) \/ Shown' = Shown)
      BY <2>2, <2>4, CountSimulates DEF Observing
    <3>2. Shown' = Shown => UNCHANGED Promise!vars
      BY <2>2, SameAwake DEF Promise!vars, Newest, ruleVars
    <3> QED BY <3>1, <3>2 DEF Promise!Next
  <2> QED BY <2>1, <2>3, <2>4
<1>7. CASE ClearIncident(p)
  <2>1. Nothing \/ Resolves(p)
    BY <1>7, ClearChange DEF Observing
  <2>2. UNCHANGED <<cursor, ruleVars>>
    BY <1>7 DEF ClearIncident
  <2>3. CASE Nothing
    BY <1>3, <2>2, <2>3 DEF Nothing
  <2>4. CASE Resolves(p)
    <3>1. target[p] \in DOMAIN Shown /\ Promise!Clear(target[p])
      BY <2>2, <2>4, ClearSimulates DEF Observing
    <3> QED BY <3>1 DEF Promise!Next
  <2> QED BY <2>1, <2>3, <2>4
<1>8. CASE \/ LoadRules(p) \/ ReadCursor(p) \/ Collect(p) \/ NextRule(p) \/ FindActive(p)
           \/ CheckCooldown(p) \/ Crash(p)
  <2>1. UNCHANGED <<cursor, ruleVars, incidents>>
    BY <1>8 DEF LoadRules, ReadCursor, Collect, NextRule, FindActive, CheckCooldown, Crash
  <2> QED BY <1>3, <2>1
<1> QED BY <1>1, <1>2, <1>5, <1>6, <1>7, <1>8 DEF PollStep

LEMMA StepSimulates ==
  ASSUME Observing, Typed', [Next]_vars
  PROVE  Promise!Next \/ UNCHANGED Promise!vars
<1>1. ASSUME NEW r \in Rules, UserStep(r) PROVE Promise!Next
  BY <1>1, UserSimulates DEF Observing, Promise!Next
<1>2. ASSUME NEW r \in Rules, SnoozeExpires(r) PROVE Promise!Next \/ UNCHANGED Promise!vars
  BY <1>2, ExpirySimulates DEF Observing, Promise!Next
<1>3. ASSUME NEW i \in DOMAIN incidents, ResolveByHand(i) PROVE Promise!Next
  BY <1>3, HandSimulates DEF Observing, Promise!Next
<1>4. Tick \/ UNCHANGED vars => UNCHANGED <<cursor, ruleVars, incidents>>
  BY DEF Tick, vars
<1>5. UNCHANGED <<cursor, ruleVars, incidents>> => UNCHANGED Promise!vars
  BY SameAwake, SameShown DEF Promise!vars, Newest, ruleVars
<1> QED BY <1>1, <1>2, <1>3, <1>4, <1>5, PollSimulates DEF Next

LEMMA ObservingInit == Init => Observing /\ Promise!Init
<1> SUFFICES ASSUME Init PROVE Observing /\ Promise!Init
  OBVIOUS
<1>1. \A p \in Pollers : pc[p] = "idle" /\ todo[p] = {}
  BY DEF Init
<1>2. AsSampled /\ Fired /\ Judged /\ Seen
  BY <1>1 DEF AsSampled, Doing, Evaluating, Fired, Judged, Seen, Working
<1>3. Awake /\ Fresh
  BY DEF Init, Awake, Fresh
<1>4. Counted
  BY DEF Init, Counted
<1>5. Newest = [at |-> 0, token |-> 0, revs |-> [r \in Rules |-> 0], hot |-> {}]
  BY DEF Init, Newest, NoSample
<1>6. Shown = <<>>
  BY DEF Init, Shown
<1>7. [r \in Rules |-> Active(r)] = [r \in Rules |-> TRUE] /\ rev = [r \in Rules |-> 1]
  BY DEF Init, Active
<1>8. Promise!Init
  BY <1>5, <1>6, <1>7 DEF Promise!Init
<1> QED BY <1>2, <1>3, <1>4, <1>8, TypedInit, TokenedInit DEF Observing

\* Whatever replicas overtake, replay or leave undone, what they write is what one
\* observer of the newest sample could have written at that instant.
THEOREM OneObserver == Spec => ActsAsOne
<1>1. Observing /\ Typed' /\ [Next]_vars => [Promise!Next]_(Promise!vars)
  BY StepSimulates
<1>2. Observing /\ [Next]_vars => Observing'
  BY TypedStep, AsSampledStep, AwakeStep, FreshStep, FiredStep, JudgedStep, TokenedStep,
     CountedStep, SeenStep DEF Observing
<1>3. Observing => Typed
  BY DEF Observing
<1> QED BY <1>1, <1>2, <1>3, ObservingInit, PTL DEF Spec, ActsAsOne, Promise!Spec
=============================================================================
