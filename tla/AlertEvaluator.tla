--------------------------- MODULE AlertEvaluator ---------------------------
(***************************************************************************)
(* What the three queue rules see (alert-evaluator.ts), over the life of   *)
(* one queue that is polled.                                               *)
(*                                                                         *)
(* Time is a minute clock.  Jobs fail, complete, arrive and are cleaned up *)
(* in a minute before the poll of that minute.  A poll reads the queue's   *)
(* job counts and BullMQ's per-minute metrics, evaluates the rules against *)
(* the cursor left by the previous poll and replaces the cursor.           *)
(*                                                                         *)
(* failedIn, doneIn and the fields of `last' that no rule reads    *)
(* are history, for the properties.                                        *)
(***************************************************************************)
EXTENDS Integers, FiniteSets

CONSTANTS
  Count, Window,     \* failure_threshold: count, windowMinutes
  RatePercent,       \* failure_rate: rate, windowMinutes is Window too
  MinSample,         \*   and minSample
  Stalled,           \* queue_stalled: stalledMinutes
  MetricsWindow,     \* METRICS_WINDOW_MINUTES
  SteadyPolling,     \* does every minute have its poll?
  MaxTime,           \* bound: the last minute
  MaxJobs,           \* bound: jobs that fail or complete
  MaxCleans          \* bound: times finished jobs are removed

ASSUME EvaluatorAssumption ==
  /\ {Count, Window, MinSample, Stalled, MetricsWindow, MaxTime} \subseteq Nat \ {0}
  /\ {MaxJobs, MaxCleans} \subseteq Nat
  /\ RatePercent \in 0..100
  /\ SteadyPolling \in BOOLEAN

VARIABLES
  now,             \* the minute
  metricsOn,       \* do the queue's workers record metrics?
  failedIn,        \* failures in each minute
  doneIn,          \* completions in each minute
  failed, done,    \* getJobCounts: finished jobs kept in Redis
  busySince,       \* the minute since which jobs wait or are active; 0, none
  cursor,          \* alert_check_cursor, or NoCursor
  last,            \* the last poll and its verdicts
  counted,         \* failures attributed to a poll by the cursor's deltas
  cleans           \* used up bound

vars == <<now, metricsOn, failedIn, doneIn, failed, done, busySince, cursor, last,
          counted, cleans>>
queue == <<metricsOn, failedIn, doneIn, failed, done, busySince, cleans>>
polls == <<cursor, last, counted>>

Minutes == 1..MaxTime
NoCursor == [at |-> 0, failed |-> 0, done |-> 0]
Verdicts == [at : Nat, since : Nat, threshold : BOOLEAN, rate : BOOLEAN, stalled : BOOLEAN]

TypeOK ==
  /\ now \in Minutes /\ metricsOn \in BOOLEAN
  /\ failedIn \in [Minutes -> Nat]
  /\ doneIn \in [Minutes -> Nat]
  /\ {failed, done, busySince, counted, cleans} \subseteq Nat
  /\ cursor \in [at : Nat, failed : Nat, done : Nat]
  /\ last \in Verdicts

Init ==
  /\ now = 1 /\ metricsOn \in BOOLEAN
  /\ failedIn = [m \in Minutes |-> 0] /\ doneIn = [m \in Minutes |-> 0]
  /\ failed = 0 /\ done = 0 /\ busySince = 0
  /\ cursor = NoCursor
  /\ last = [at |-> 0, since |-> 0, threshold |-> FALSE, rate |-> FALSE, stalled |-> FALSE]
  /\ counted = 0 /\ cleans = 0

-----------------------------------------------------------------------------
(* The queue *)

\* The jobs counted in f that ended in the minutes from .. to.
Ends(f, from, to) ==
  UNION {{m} \X (1..f[m]) : m \in {n \in Minutes : from <= n /\ n <= to}}

Total(f, from, to) == Cardinality(Ends(f, from, to))

\* queue.getMetrics over METRICS_WINDOW_MINUTES: nothing unless workers record.
MetricsCount(f) ==
  IF metricsOn THEN Total(f, now - MetricsWindow + 1, now) ELSE 0

Polled == last.at = now

JobArrives ==
  /\ ~Polled /\ busySince = 0
  /\ busySince' = now
  /\ UNCHANGED <<now, metricsOn, failedIn, doneIn, failed, done, cleans, polls>>

\* A job ends in this minute; no other may be left.
JobEnds ==
  /\ ~Polled /\ Total(failedIn, 1, now) + Total(doneIn, 1, now) < MaxJobs
  /\ busySince' \in {0, busySince}
  /\ UNCHANGED <<now, metricsOn, cleans, polls>>

JobFails ==
  /\ JobEnds
  /\ failedIn' = [failedIn EXCEPT ![now] = @ + 1]
  /\ failed' = failed + 1
  /\ UNCHANGED <<doneIn, done>>

JobCompletes ==
  /\ JobEnds
  /\ doneIn' = [doneIn EXCEPT ![now] = @ + 1]
  /\ done' = done + 1
  /\ UNCHANGED <<failedIn, failed>>

\* Finished jobs are removed or retried: the counts fall, the metrics do not.
Clean ==
  /\ ~Polled /\ cleans < MaxCleans /\ cleans' = cleans + 1
  /\ failed' \in {0, failed} /\ done' \in {0, done}
  /\ UNCHANGED <<now, metricsOn, failedIn, doneIn, busySince, polls>>

Minute ==
  /\ now < MaxTime /\ (SteadyPolling => Polled)
  /\ now' = now + 1
  /\ UNCHANGED <<queue, polls>>

-----------------------------------------------------------------------------
(* The evaluator *)

HasCursor == cursor # NoCursor
\* Fault variant: a falling count is not clamped.
Delta_Unclamped(current, previous) == current - previous

Delta(current, previous) == IF current > previous THEN current - previous ELSE 0
SinceCheck == now - cursor.at

FailureDelta ==
  IF HasCursor THEN Delta(failed, cursor.failed) ELSE MetricsCount(failedIn)

\* Fault variant: the age of the cursor is not looked at.
WithinWindow_Any == TRUE

\* The cursor may be a tenth of the window late.
WithinWindow == HasCursor => 10 * SinceCheck <= 11 * Window

evaluateFailureThreshold == WithinWindow /\ FailureDelta >= Count

evaluateFailureRate ==
  LET total == MetricsCount(failedIn) + MetricsCount(doneIn)
  IN total >= MinSample /\ 100 * MetricsCount(failedIn) > RatePercent * total

\* Fault variant: only the counts of kept jobs are compared.
evaluateQueueStalled_CountsOnly ==
  /\ busySince # 0
  /\ HasCursor => Delta(done, cursor.done) = 0 /\ SinceCheck >= Stalled

\* Without a cursor the last check was infinitely long ago.
evaluateQueueStalled ==
  /\ busySince # 0
  /\ MetricsCount(doneIn) = 0
  /\ HasCursor => Delta(done, cursor.done) = 0 /\ SinceCheck >= Stalled

\* Fault variant: the cursor stays until a spike is reported.
Poll_KeepsCursor ==
  /\ ~Polled
  /\ last' = [at |-> now, since |-> cursor.at, threshold |-> evaluateFailureThreshold,
              rate |-> evaluateFailureRate, stalled |-> evaluateQueueStalled]
  /\ counted' = counted + (IF HasCursor THEN FailureDelta ELSE 0)
  /\ cursor' = IF HasCursor /\ ~evaluateFailureThreshold THEN cursor
               ELSE [at |-> now, failed |-> failed, done |-> done]
  /\ UNCHANGED <<now, queue>>

Poll ==
  /\ ~Polled
  /\ last' = [at |-> now, since |-> cursor.at, threshold |-> evaluateFailureThreshold,
              rate |-> evaluateFailureRate, stalled |-> evaluateQueueStalled]
  /\ counted' = counted + (IF HasCursor THEN FailureDelta ELSE 0)
  /\ cursor' = [at |-> now, failed |-> failed, done |-> done]
  /\ UNCHANGED <<now, queue>>

Next == JobArrives \/ JobFails \/ JobCompletes \/ Clean \/ Minute \/ Poll

Spec == Init /\ [][Next]_vars

-----------------------------------------------------------------------------
(* Properties.  A verdict of poll `last' covers the minutes since+1 .. at. *)

FailuresSince(m) == Total(failedIn, m, last.at)

\* A spike reported against a cursor is recent: the failures happened inside
\* the window and its tolerance, never during a longer gap between polls, and
\* cleaning the queue cannot fake one.
NoBacklogSpike ==
  last.threshold /\ last.since # 0 =>
    \E m \in Minutes : 10 * (last.at - m + 1) <= 11 * Window /\ FailuresSince(m) >= Count

\* No failure is attributed to two polls.
CountedOnce == counted <= Total(failedIn, 1, now)

\* A queue reported as stalled, other than at its first poll, completed nothing
\* in the configured time, even if its finished jobs were removed meanwhile;
\* this takes workers that record metrics.
StalledIsIdle ==
  last.stalled /\ last.since # 0 /\ metricsOn =>
    /\ last.at - last.since >= Stalled
    /\ Stalled <= MetricsWindow => Total(doneIn, last.at - Stalled + 1, last.at) = 0

\* The comment of evaluateQueueStalled: "jobs with no completions for configured
\* window".  (Refuted: the time that counts is the time since the last poll, so
\* steady polling never reports a queue that stopped.)
StalledIsReported ==
  Polled /\ busySince # 0 /\ now - busySince >= Stalled /\ Total(doneIn, 1, now) = 0
    => last.stalled
=============================================================================
