---------------------------- MODULE AlertMonitor ----------------------------
(***************************************************************************)
(* Rule evaluation for one queue of one connection, by the poll workers of *)
(* several API replicas that share only the database.                      *)
(*                                                                         *)
(* A poll samples the queue, publishes the sample as the queue's cursor    *)
(* (pending), evaluates every rule on it and then marks the cursor         *)
(* applied.  A worker that finds a pending cursor first replays it, for    *)
(* the rule revisions that existed when it was sampled.  Samples are       *)
(* ordered by (capturedAt, token), the newest wins, and each write that    *)
(* depends on a sample is fenced: it is void if the cursor has moved on or *)
(* if the rule is no longer the revision the worker loaded.  Between its   *)
(* database statements a worker may be overtaken, or die.                  *)
(*                                                                         *)
(* A sample stands for the failures of the interval (base, at]: base is    *)
(* the time of the cursor its deltas are taken from.  The verdict of a     *)
(* sample on each rule is free: hot is the set of rules it triggers.       *)
(***************************************************************************)
EXTENDS Naturals, Sequences, FiniteSets

CONSTANTS
  Pollers,      \* poll workers, one per replica
  Rules,        \* the queue's rules, other than job_failed
  Cooldown,     \* rule.cooldownMinutes
  MaxTime,      \* bound: the last instant
  Tokens,       \* bound: observation tokens; each is drawn once
  MaxIncidents, \* bound: incidents
  MaxEdits,     \* bound: changes of rules by users
  MaxCrashes    \* bound: worker deaths

ASSUME MonitorAssumption ==
  /\ Tokens \subseteq Nat \ {0} /\ IsFiniteSet(Rules)
  /\ {Cooldown, MaxTime, MaxIncidents, MaxEdits, MaxCrashes} \subseteq Nat
  /\ Rules # {}

VARIABLES
  now,                          \* the clock
  rev, enabled, muted, listed,  \* alert_rule: updated_at, enabled, mutedUntil > now,
                                \* deletion_requested_at IS NULL
  cursor,                       \* alert_check_cursor: the newest sample; at = 0, no row
  applied,                      \* its evaluationApplied flag
  incidents,                    \* alert_event rows of rule-level alerts, oldest first
  drawn,                        \* tokens given out
  pc, known, sample, replaying, \* each worker: step, loaded revisions, sample at hand
  todo, rule, target,           \* rules left, the one being evaluated, incident read
  evaluated,                    \* history: the rules each sample was evaluated for
  edits, crashes                \* used up bounds

ruleVars == <<rev, enabled, muted, listed>>
workVars == <<pc, known, sample, replaying, todo, rule, target>>
vars == <<now, ruleVars, cursor, applied, incidents, drawn, workVars,
          evaluated, edits, crashes>>

\* Revision 0 stands for "not loaded" and "not captured".
Sample == [at : Nat, token : Nat, base : Nat, revs : [Rules -> Nat], hot : SUBSET Rules]
NoSample == [at |-> 0, token |-> 0, base |-> 0, revs |-> [r \in Rules |-> 0], hot |-> {}]

\* suppressed: the coalesced row "suppressed:<id>" of the incident, its count
\* and last token; the other fields of the last line are history.
Incident == [rule : Rules, status : {"firing", "resolved"}, firedAt : Nat,
             invalidated : BOOLEAN, suppressed : Nat, lastToken : Nat,
             openedBy : Nat \X Nat, clearedBy : Nat \X Nat,
             sampledRev : Nat, rev : Nat, silenced : SUBSET Nat]

TypeOK ==
  /\ now \in Nat
  /\ rev \in [Rules -> Nat \ {0}]
  /\ enabled \in [Rules -> BOOLEAN]
  /\ muted \in [Rules -> BOOLEAN]
  /\ listed \in [Rules -> BOOLEAN]
  /\ cursor \in Sample
  /\ applied \in BOOLEAN
  /\ incidents \in Seq(Incident)
  /\ drawn \in SUBSET Tokens
  /\ pc \in [Pollers -> {"idle", "cursor", "collect", "publish", "next", "find",
                         "cooldown", "suppress", "open", "clear"}]
  /\ known \in [Pollers -> [Rules -> Nat]]
  /\ sample \in [Pollers -> Sample]
  /\ replaying \in [Pollers -> BOOLEAN]
  /\ todo \in [Pollers -> SUBSET Rules]
  /\ rule \in [Pollers -> Rules]
  /\ target \in [Pollers -> Nat]
  /\ edits \in Nat /\ crashes \in Nat

Init ==
  /\ now = 1
  /\ rev = [r \in Rules |-> 1]
  /\ enabled = [r \in Rules |-> TRUE]
  /\ muted = [r \in Rules |-> FALSE]
  /\ listed = [r \in Rules |-> TRUE]
  /\ cursor = NoSample /\ applied = TRUE
  /\ incidents = <<>>
  /\ drawn = {}
  /\ pc = [p \in Pollers |-> "idle"]
  /\ known = [p \in Pollers |-> [r \in Rules |-> 0]]
  /\ sample = [p \in Pollers |-> NoSample]
  /\ replaying = [p \in Pollers |-> FALSE]
  /\ todo = [p \in Pollers |-> {}]
  /\ rule \in [Pollers -> Rules]
  /\ target = [p \in Pollers |-> 0]
  /\ evaluated = {}
  /\ edits = 0 /\ crashes = 0

-----------------------------------------------------------------------------
(* Samples and the cursor *)

Id(s) == <<s.at, s.token>>
NotAfter(x, y) == x[1] < y[1] \/ (x[1] = y[1] /\ x[2] <= y[2])

\* Fault variant: the last write wins, not the newest sample.
Upsert_Unordered(s, isApplied) == cursor' = s /\ applied' = isApplied

\* alertCheckCursorRepository.upsert: the write takes effect unless the stored
\* cursor is newer.
Upsert(s, isApplied) ==
  IF NotAfter(Id(cursor), Id(s))
  THEN cursor' = s /\ applied' = isApplied
  ELSE UNCHANGED <<cursor, applied>>

\* What upsert returns is the caller's own sample.
UpsertWins(s) == NotAfter(Id(cursor), Id(s))

\* findAllActive
Active(r) == enabled[r] /\ listed[r] /\ ~muted[r]

-----------------------------------------------------------------------------
(* A poll *)

Goto(p, step) == pc' = [pc EXCEPT ![p] = step]

LoadRules(p) ==
  /\ pc[p] = "idle"
  /\ \E r \in Rules : Active(r)
  /\ known' = [known EXCEPT ![p] = [r \in Rules |-> IF Active(r) THEN rev[r] ELSE 0]]
  /\ Goto(p, "cursor")
  /\ UNCHANGED <<now, ruleVars, cursor, applied, incidents, drawn, sample, replaying,
                 todo, rule, target, evaluated, edits, crashes>>

Loaded(p) == {r \in Rules : known[p][r] # 0}

\* Fault variant: a replay takes every rule, whatever the revision.
Replayable_AnyRevision(p) == Loaded(p)

\* A pending cursor is replayed for the revisions it captured.
Replayable(p) == {r \in Loaded(p) : cursor.revs[r] = known[p][r]}

\* Fault variant: a pending cursor is not replayed.
ReadCursor_NoReplay(p) ==
  /\ pc[p] = "cursor"
  /\ sample' = [sample EXCEPT ![p] = cursor]
  /\ Goto(p, "collect")
  /\ UNCHANGED <<now, ruleVars, cursor, applied, incidents, drawn, known, replaying, todo,
                 rule, target, evaluated, edits, crashes>>

ReadCursor(p) ==
  /\ pc[p] = "cursor"
  /\ sample' = [sample EXCEPT ![p] = cursor]
  /\ replaying' = [replaying EXCEPT ![p] = ~applied]
  /\ todo' = [todo EXCEPT ![p] = IF applied THEN {} ELSE Replayable(p)]
  /\ Goto(p, IF applied THEN "collect" ELSE "next")
  /\ UNCHANGED <<now, ruleVars, cursor, applied, incidents, drawn, known, rule, target,
                 evaluated, edits, crashes>>

\* Read the counters of the queue; the deltas are taken from the cursor read
\* before, however old it is by now.
Collect(p) ==
  /\ pc[p] = "collect"
  /\ \E t \in Tokens \ drawn, h \in SUBSET Loaded(p) :
       /\ drawn' = drawn \cup {t}
       /\ sample' = [sample EXCEPT ![p] =
            [at |-> now, token |-> t, base |-> sample[p].at, revs |-> known[p], hot |-> h]]
  /\ Goto(p, "publish")
  /\ UNCHANGED <<now, ruleVars, cursor, applied, incidents, known, replaying, todo, rule,
                 target, evaluated, edits, crashes>>

Publish(p) ==
  /\ pc[p] = "publish"
  /\ Upsert(sample[p], FALSE)
  /\ todo' = [todo EXCEPT ![p] = IF UpsertWins(sample[p]) THEN Loaded(p) ELSE {}]
  /\ Goto(p, IF UpsertWins(sample[p]) THEN "next" ELSE "idle")
  /\ UNCHANGED <<now, ruleVars, incidents, drawn, known, sample, replaying, rule, target,
                 evaluated, edits, crashes>>

\* Fault variant: a replay is not marked applied and ends the poll.
Finish_ReplayUnmarked(p) ==
  /\ pc[p] = "next" /\ todo[p] = {}
  /\ Upsert(sample[p], ~replaying[p])
  /\ Goto(p, "idle")
  /\ replaying' = [replaying EXCEPT ![p] = FALSE]
  /\ UNCHANGED <<now, ruleVars, incidents, drawn, known, sample, todo, rule, target,
                 evaluated, edits, crashes>>

\* All rules done: mark the sample applied.  After a replay the poll goes on to
\* take its own sample, unless the cursor moved.
Finish(p) ==
  /\ pc[p] = "next" /\ todo[p] = {}
  /\ Upsert(sample[p], TRUE)
  /\ Goto(p, IF replaying[p] /\ UpsertWins(sample[p]) THEN "collect" ELSE "idle")
  /\ replaying' = [replaying EXCEPT ![p] = FALSE]
  /\ UNCHANGED <<now, ruleVars, incidents, drawn, known, sample, todo, rule, target,
                 evaluated, edits, crashes>>

-----------------------------------------------------------------------------
(* processAlertEvaluation *)

\* Fault variants: writes not fenced by the rule's revision, or by the cursor.
RuleUnchanged_Unfenced(p) == TRUE
Current_IgnoringCursor(p) == rev[rule[p]] = known[p][rule[p]]

\* The fence of the three writing transactions.
RuleUnchanged(p) == rev[rule[p]] = known[p][rule[p]]
Current(p) == RuleUnchanged(p) /\ Id(cursor) = Id(sample[p])

Hot(p) == rule[p] \in sample[p].hot

FiringOf(r) == {i \in DOMAIN incidents : incidents[i].rule = r /\ incidents[i].status = "firing"}

\* The next rule; one that is gone, disabled, snoozed or edited is passed over.
NextRule(p) ==
  /\ pc[p] = "next"
  /\ \E r \in todo[p] :
       /\ todo' = [todo EXCEPT ![p] = @ \ {r}]
       /\ IF Active(r) /\ rev[r] = known[p][r]
          THEN rule' = [rule EXCEPT ![p] = r] /\ Goto(p, "find")
          ELSE UNCHANGED <<rule, pc>>
  /\ UNCHANGED <<now, ruleVars, cursor, applied, incidents, drawn, known, sample, replaying,
                 target, evaluated, edits, crashes>>

Verdict(p) == [rule |-> rule[p], base |-> sample[p].base, at |-> sample[p].at]
Evaluated(p) == evaluated' = evaluated \cup {Verdict(p)}

\* findActiveFiring.  A triggered rule with an open incident only resumes its
\* notification (module AlertDelivery).
FindActive(p) ==
  /\ pc[p] = "find"
  /\ LET open == FiringOf(rule[p])
     IN /\ target' = [target EXCEPT ![p] = IF open = {} THEN 0 ELSE CHOOSE i \in open : TRUE]
        /\ IF Hot(p) = (open # {})
           THEN Goto(p, "next") /\ Evaluated(p)
           ELSE Goto(p, IF Hot(p) THEN "cooldown" ELSE "clear") /\ UNCHANGED evaluated
  /\ UNCHANGED <<now, ruleVars, cursor, applied, incidents, drawn, known, sample, replaying,
                 todo, rule, edits, crashes>>

\* findMostRecentFiredForRule: the incident a cooldown counts from, unless a
\* change of the rule has voided it.
Anchor(p) ==
  LET mine == {i \in DOMAIN incidents : incidents[i].rule = rule[p]}
  IN {i \in mine : /\ \A j \in mine : j <= i
                   /\ ~incidents[i].invalidated
                   /\ now - incidents[i].firedAt < Cooldown}

CheckCooldown(p) ==
  /\ pc[p] = "cooldown"
  /\ \/ /\ Anchor(p) = {}
        /\ UNCHANGED target /\ Goto(p, "open")
     \/ \E i \in Anchor(p) :
          target' = [target EXCEPT ![p] = i] /\ Goto(p, "suppress")
  /\ UNCHANGED <<now, ruleVars, cursor, applied, incidents, drawn, known, sample, replaying,
                 todo, rule, evaluated, edits, crashes>>

\* Fault variant: a replayed sample is counted again.
Suppress_EachTime(p) ==
  /\ pc[p] = "suppress"
  /\ IF Current(p)
     THEN /\ incidents' = [incidents EXCEPT
               ![target[p]].suppressed = @ + 1,
               ![target[p]].silenced = @ \cup {sample[p].token}]
          /\ Evaluated(p)
     ELSE UNCHANGED <<incidents, evaluated>>
  /\ Goto(p, "next")
  /\ UNCHANGED <<now, ruleVars, cursor, applied, drawn, known, sample, replaying, todo, rule,
                 target, edits, crashes>>

\* upsertSuppressed: one row per incident, counting each sample once.
Suppress(p) ==
  /\ pc[p] = "suppress"
  /\ LET i == target[p]
         again == incidents[i].lastToken = sample[p].token
     IN IF Current(p)
        THEN /\ incidents' = [incidents EXCEPT
                  ![i].suppressed = IF again THEN @ ELSE @ + 1,
                  ![i].lastToken = sample[p].token,
                  ![i].silenced = @ \cup {sample[p].token}]
             /\ Evaluated(p)
        ELSE UNCHANGED <<incidents, evaluated>>
  /\ Goto(p, "next")
  /\ UNCHANGED <<now, ruleVars, cursor, applied, drawn, known, sample, replaying, todo, rule,
                 target, edits, crashes>>

NewIncident(p) ==
  [rule |-> rule[p], status |-> "firing", firedAt |-> now, invalidated |-> FALSE,
   suppressed |-> 0, lastToken |-> 0, openedBy |-> Id(sample[p]), clearedBy |-> <<0, 0>>,
   sampledRev |-> sample[p].revs[rule[p]], rev |-> rev[rule[p]], silenced |-> {}]

\* Fault variant: the insert does not look for a firing incident.
OpenIncident_Blind(p) ==
  /\ pc[p] = "open"
  /\ IF Active(rule[p]) /\ Current(p)
     THEN /\ Len(incidents) < MaxIncidents
          /\ incidents' = Append(incidents, NewIncident(p))
          /\ Evaluated(p)
     ELSE UNCHANGED <<incidents, evaluated>>
  /\ Goto(p, "next")
  /\ UNCHANGED <<now, ruleVars, cursor, applied, drawn, known, sample, replaying, todo, rule,
                 target, edits, crashes>>

\* createOrGetActive: under the lock of the rule and of the cursor, insert the
\* incident unless one is firing.
OpenIncident(p) ==
  /\ pc[p] = "open"
  /\ IF Active(rule[p]) /\ Current(p)
     THEN /\ IF FiringOf(rule[p]) = {}
             THEN /\ Len(incidents) < MaxIncidents
                  /\ incidents' = Append(incidents, NewIncident(p))
             ELSE UNCHANGED incidents
          /\ Evaluated(p)
     ELSE UNCHANGED <<incidents, evaluated>>
  /\ Goto(p, "next")
  /\ UNCHANGED <<now, ruleVars, cursor, applied, drawn, known, sample, replaying, todo, rule,
                 target, edits, crashes>>

\* resolveActiveIfRuleCurrent, for the incident read before.
ClearIncident(p) ==
  /\ pc[p] = "clear"
  /\ LET i == target[p]
     IN IF Current(p)
        THEN /\ incidents' = IF incidents[i].status = "firing"
                  THEN [incidents EXCEPT ![i].status = "resolved",
                                         ![i].clearedBy = Id(sample[p])]
                  ELSE incidents
             /\ Evaluated(p)
        ELSE UNCHANGED <<incidents, evaluated>>
  /\ Goto(p, "next")
  /\ UNCHANGED <<now, ruleVars, cursor, applied, drawn, known, sample, replaying, todo, rule,
                 target, edits, crashes>>

-----------------------------------------------------------------------------
(* Users, time and crashes *)

\* updateIfCurrent: a new revision; with resolve, the open incidents of the rule
\* are resolved in the same transaction and no longer anchor a cooldown.
ChangeRule(r, resolve) ==
  /\ listed[r] /\ edits < MaxEdits /\ edits' = edits + 1
  /\ rev' = [rev EXCEPT ![r] = @ + 1]
  /\ incidents' = IF ~resolve THEN incidents
       ELSE [i \in DOMAIN incidents |->
              IF i \in FiringOf(r)
              THEN [incidents[i] EXCEPT !.status = "resolved", !.invalidated = TRUE]
              ELSE incidents[i]]
  /\ UNCHANGED <<now, muted, cursor, applied, drawn, workVars, evaluated, crashes>>

\* PATCH: an edit that keeps the scope, one that changes it, switching off, on.
EditRule(r) ==
  /\ \E resolve \in BOOLEAN : ChangeRule(r, resolve)
  /\ UNCHANGED <<enabled, listed>>
DisableRule(r) ==
  /\ ChangeRule(r, TRUE)
  /\ enabled' = [enabled EXCEPT ![r] = FALSE] /\ UNCHANGED listed
EnableRule(r) ==
  /\ ~enabled[r] /\ ChangeRule(r, FALSE)
  /\ enabled' = [enabled EXCEPT ![r] = TRUE] /\ UNCHANGED listed
DeleteRule(r) ==
  /\ ChangeRule(r, TRUE)
  /\ enabled' = [enabled EXCEPT ![r] = FALSE] /\ listed' = [listed EXCEPT ![r] = FALSE]

\* setMutedUntil: snooze and unsnooze.  A snooze also ends by itself, and then
\* leaves updated_at alone.
SetMuted(r, m) ==
  /\ edits < MaxEdits /\ edits' = edits + 1
  /\ muted' = [muted EXCEPT ![r] = m]
  /\ rev' = [rev EXCEPT ![r] = @ + 1]
  /\ UNCHANGED <<now, enabled, listed, cursor, applied, incidents, drawn, workVars,
                 evaluated, crashes>>

SnoozeExpires(r) ==
  /\ muted[r]
  /\ muted' = [muted EXCEPT ![r] = FALSE]
  /\ UNCHANGED <<now, rev, enabled, listed, cursor, applied, incidents, drawn, workVars,
                 evaluated, edits, crashes>>

ResolveByHand(i) ==
  /\ incidents[i].status = "firing"
  /\ incidents' = [incidents EXCEPT ![i].status = "resolved"]
  /\ UNCHANGED <<now, ruleVars, cursor, applied, drawn, workVars, evaluated, edits, crashes>>

Tick ==
  /\ now < MaxTime /\ now' = now + 1
  /\ UNCHANGED <<ruleVars, cursor, applied, incidents, drawn, workVars, evaluated,
                 edits, crashes>>

Crash(p) ==
  /\ pc[p] # "idle" /\ crashes < MaxCrashes /\ crashes' = crashes + 1
  /\ Goto(p, "idle")
  /\ todo' = [todo EXCEPT ![p] = {}]
  /\ UNCHANGED <<now, ruleVars, cursor, applied, incidents, drawn, known, sample, replaying,
                 rule, target, evaluated, edits>>

-----------------------------------------------------------------------------

PollStep(p) ==
  \/ LoadRules(p) \/ ReadCursor(p) \/ Collect(p) \/ Publish(p) \/ Finish(p)
  \/ NextRule(p) \/ FindActive(p) \/ CheckCooldown(p)
  \/ Suppress(p) \/ OpenIncident(p) \/ ClearIncident(p)

UserStep(r) ==
  \/ EditRule(r) \/ DisableRule(r) \/ EnableRule(r) \/ DeleteRule(r)
  \/ (\E m \in BOOLEAN : SetMuted(r, m))

Next ==
  \/ \E p \in Pollers : PollStep(p) \/ Crash(p)
  \/ \E r \in Rules : UserStep(r) \/ SnoozeExpires(r)
  \/ \E i \in DOMAIN incidents : ResolveByHand(i)
  \/ Tick

Spec == Init /\ [][Next]_vars

\* The poll timer of every replica keeps firing and a poll goes on.
FairSpec == Spec /\ \A p \in Pollers : WF_vars(PollStep(p))

-----------------------------------------------------------------------------
(* Properties *)

\* The index on firing incidents keeps one per rule and queue, whatever the
\* replicas do between their reads and their inserts.
OneFiringPerRule == \A r \in Rules : Cardinality(FiringOf(r)) <= 1

\* An incident is never opened from a sample taken under another revision of
\* its rule: neither by a worker overtaken by an edit nor by a replay.
NoPredatedIncident ==
  \A i \in DOMAIN incidents : incidents[i].sampledRev = incidents[i].rev

\* An incident opened by a newer sample is never cleared by an older one.
ClearedByNewerSample ==
  \A i \in DOMAIN incidents :
    incidents[i].clearedBy # <<0, 0>> => NotAfter(incidents[i].openedBy, incidents[i].clearedBy)

\* The count shown for a cooldown is the number of samples silenced in it, each
\* counted once however often it is replayed.
SuppressionsCounted ==
  \A i \in DOMAIN incidents : incidents[i].suppressed = Cardinality(incidents[i].silenced)

\* While a rule is snoozed its incidents stay as they are: the monitor neither
\* opens nor clears one, even from a poll that began before the snooze.
FrozenWhileSnoozed ==
  [][\A r \in Rules : muted[r] /\ muted'[r] =>
       /\ \A i \in DOMAIN incidents :
            incidents[i].rule = r => incidents'[i].clearedBy = incidents[i].clearedBy
       /\ \A i \in DOMAIN incidents' \ DOMAIN incidents : incidents'[i].rule # r]_vars

\* While the rules do not change, no instant is skipped: when a sample is marked
\* applied, each instant up to it lies in the interval of a sample that was
\* evaluated to the end, for every rule, across crashes, replays and overtaking.
NothingSkipped ==
  applied => \A r \in Rules, t \in 1..cursor.at :
    \E v \in evaluated : v.rule = r /\ v.base < t /\ t <= v.at

\* While the rules do not change, an applied sample decides: a rule it does not
\* trigger has no open incident.
AppliedSampleDecides ==
  applied /\ cursor.at # 0 => \A r \in Rules \ cursor.hot : FiringOf(r) = {}

\* The rows as one observer would have written them: what replicas, replays and
\* crashes add to a sample or an incident is left out.
Newest == [at |-> cursor.at, token |-> cursor.token, revs |-> cursor.revs, hot |-> cursor.hot]

Shown ==
  [i \in DOMAIN incidents |->
    [rule |-> incidents[i].rule, status |-> incidents[i].status,
     counted |-> incidents[i].silenced, count |-> incidents[i].suppressed,
     clearedBy |-> incidents[i].clearedBy]]

Promise == INSTANCE IncidentPromise WITH
  sample <- Newest, awake <- [r \in Rules |-> Active(r)], incidents <- Shown

\* Replicas that share only the database act like one observer of the newest
\* sample: whatever overtakes, replays or dies between reading and writing, each
\* write is one that this observer could have made at that instant.
ActsAsOne == Promise!Spec

\* A published sample is applied or replaced in the end, whoever dies.
SamplesGetApplied == (~applied) ~> applied
=============================================================================
