-------------------------- MODULE IncidentPromise ---------------------------
(***************************************************************************)
(* What the alert monitor promises, with no replica, poll, cooldown, crash *)
(* or replay in sight: one observer has the newest sample of the queue and *)
(* acts on it and on the rules as they are now.  It opens an incident only *)
(* for a rule that is awake and fires on that sample, taken under the      *)
(* rule's present revision, clears one only by a sample the rule is quiet  *)
(* on, and counts a sample in an incident once.  People change rules and   *)
(* dismiss incidents in between; a rule falls asleep only by a change.     *)
(***************************************************************************)
EXTENDS Naturals, Sequences

CONSTANTS Rules

VARIABLES
  sample,    \* the newest sample: instant, token, revisions of the rules, who fires on it
  rev,       \* the revision of each rule
  awake,     \* is the rule evaluated?
  incidents  \* oldest first

vars == <<sample, rev, awake, incidents>>

Init ==
  /\ sample = [at |-> 0, token |-> 0, revs |-> [r \in Rules |-> 0], hot |-> {}]
  /\ rev = [r \in Rules |-> 1]
  /\ awake = [r \in Rules |-> TRUE]
  /\ incidents = <<>>

FiringOf(r) == {i \in DOMAIN incidents : incidents[i].rule = r /\ incidents[i].status = "firing"}

\* A newer sample, taken under revisions the rules have had.
Observe ==
  /\ sample.at < sample'.at \/ (sample.at = sample'.at /\ sample.token < sample'.token)
  /\ \A r \in Rules : sample'.revs[r] <= rev[r]
  /\ \A r \in sample'.hot : sample'.revs[r] # 0
  /\ UNCHANGED <<rev, awake, incidents>>

\* The newest sample speaks for the rule as it is now.
SpeaksFor(r) == awake[r] /\ sample.revs[r] = rev[r]

Open(r) ==
  /\ SpeaksFor(r) /\ r \in sample.hot /\ FiringOf(r) = {}
  /\ incidents' = Append(incidents,
       [rule |-> r, status |-> "firing", counted |-> {}, count |-> 0, clearedBy |-> <<0, 0>>])
  /\ UNCHANGED <<sample, rev, awake>>

Clear(i) ==
  /\ SpeaksFor(incidents[i].rule) /\ incidents[i].rule \notin sample.hot
  /\ incidents[i].status = "firing"
  /\ incidents' = [incidents EXCEPT ![i].status = "resolved",
                                    ![i].clearedBy = <<sample.at, sample.token>>]
  /\ UNCHANGED <<sample, rev, awake>>

\* A sample that opens no incident, as one was open a while ago, is counted in that.
Count(i) ==
  /\ SpeaksFor(incidents[i].rule) /\ incidents[i].rule \in sample.hot
  /\ sample.token \notin incidents[i].counted
  /\ incidents' = [incidents EXCEPT ![i].counted = @ \cup {sample.token}, ![i].count = @ + 1]
  /\ UNCHANGED <<sample, rev, awake>>

Dismissed(gone) ==
  incidents' = [i \in DOMAIN incidents |->
    IF i \in gone THEN [incidents[i] EXCEPT !.status = "resolved"] ELSE incidents[i]]

\* A change is a new revision; it may dismiss what the rule has open.
Change(r) ==
  /\ rev' = [rev EXCEPT ![r] = @ + 1]
  /\ \E on \in BOOLEAN : awake' = [awake EXCEPT ![r] = on]
  /\ \E gone \in {{}, FiringOf(r)} : Dismissed(gone)
  /\ UNCHANGED sample

Wake(r) ==
  /\ awake' = [awake EXCEPT ![r] = TRUE]
  /\ UNCHANGED <<sample, rev, incidents>>

Dismiss(i) ==
  /\ Dismissed({i})
  /\ UNCHANGED <<sample, rev, awake>>

Next ==
  \/ Observe
  \/ \E r \in Rules : Open(r) \/ Change(r) \/ Wake(r)
  \/ \E i \in DOMAIN incidents : Clear(i) \/ Count(i) \/ Dismiss(i)

Spec == Init /\ [][Next]_vars
=============================================================================
