------------------------ MODULE AlertEvaluator_proofs ------------------------
(***************************************************************************)
(* What the queue rules report is so, for any thresholds, windows, number  *)
(* of jobs, clean-ups and gaps between polls.                              *)
(*                                                                         *)
(* The cursor is the only thing a poll knows of the past, and it holds     *)
(* counts that a clean-up lowers.  The invariant relates it to what really *)
(* happened: what the next delta would say is never more than what failed  *)
(* since the last poll (Behind), and together with what was attributed so  *)
(* far never more than what failed at all (Ahead).  Both lean on the order *)
(* of a minute: its jobs end before its poll (Clock).                      *)
(***************************************************************************)
EXTENDS AlertEvaluator, FiniteSetTheorems, TLAPS

\* The parameters, one by one.
LEMMA Parameters ==
  Count \in Nat /\ Stalled \in Nat /\ MetricsWindow \in Nat /\ MaxTime \in Nat /\ 1 <= MaxTime
<1>1. MaxTime \in Nat \ {0}
  BY EvaluatorAssumption
<1>2. 1 <= MaxTime
  BY <1>1
<1> QED BY <1>1, <1>2, EvaluatorAssumption

-----------------------------------------------------------------------------
(* Counting *)

\* Jobs counted are jobs of a minute.
LEMMA EndsMember ==
  ASSUME NEW f, NEW from, NEW to, NEW e
  PROVE  e \in Ends(f, from, to) <=>
           \E m \in Minutes : \E i \in 1..f[m] : e = <<m, i>> /\ from <= m /\ m <= to
  BY DEF Ends

\* A longer interval counts no less.
LEMMA EndsGrow ==
  ASSUME NEW f, NEW a \in Int, NEW b \in Int, NEW c \in Int, NEW d \in Int,
         c <= a, b <= d
  PROVE  Ends(f, a, b) \subseteq Ends(f, c, d)
  BY DEF Ends, Minutes

LEMMA TotalType ==
  ASSUME NEW f, IsFiniteSet(Ends(f, 1, MaxTime)), NEW a \in Int, NEW b \in Int
  PROVE  IsFiniteSet(Ends(f, a, b)) /\ Total(f, a, b) \in Nat
<1>1. Ends(f, a, b) \subseteq Ends(f, 1, MaxTime)
  BY Parameters DEF Ends, Minutes
<1>2. IsFiniteSet(Ends(f, a, b))
  BY <1>1, FS_Subset
<1> QED BY <1>2, FS_CardinalityType DEF Total

LEMMA TotalGrows ==
  ASSUME NEW f, IsFiniteSet(Ends(f, 1, MaxTime)),
         NEW a \in Int, NEW b \in Int, NEW c \in Int, NEW d \in Int, c <= a, b <= d
  PROVE  Total(f, a, b) <= Total(f, c, d)
  BY EndsGrow, TotalType, FS_Subset DEF Total

LEMMA AddsOne ==
  ASSUME NEW S, NEW T, NEW x, IsFiniteSet(S), x \notin S, T = S \cup {x}
  PROVE  IsFiniteSet(T) /\ Cardinality(T) = Cardinality(S) + 1
  BY FS_AddElement

\* One more job in minute n is one more job in the intervals around n.
LEMMA OneMore ==
  ASSUME NEW f \in [Minutes -> Nat], IsFiniteSet(Ends(f, 1, MaxTime)), NEW n \in Minutes,
         NEW g, g[n] = f[n] + 1, \A m \in Minutes \ {n} : g[m] = f[m]
  PROVE  /\ IsFiniteSet(Ends(g, 1, MaxTime))
         /\ \A a, b \in Int :
              Total(g, a, b) = IF a <= n /\ n <= b THEN Total(f, a, b) + 1 ELSE Total(f, a, b)
<1> DEFINE job == <<n, f[n] + 1>>
<1>1. n \in Int /\ f[n] \in Nat /\ g[n] = f[n] + 1 /\ \A m \in Minutes \ {n} : g[m] = f[m]
  BY Parameters DEF Minutes
<1>2. 1..g[n] = (1..f[n]) \cup {f[n] + 1} /\ f[n] + 1 \notin 1..f[n]
  BY <1>1
<1>3. ASSUME NEW a \in Int, NEW b \in Int
      PROVE  Ends(g, a, b) = IF a <= n /\ n <= b THEN Ends(f, a, b) \cup {job} ELSE Ends(f, a, b)
  <2>1. ASSUME NEW e PROVE e \in Ends(g, a, b) <=> e \in Ends(f, a, b)
                                                     \/ (a <= n /\ n <= b /\ e = job)
    <3>1. ASSUME NEW m \in Minutes, NEW i, e = <<m, i>>, a <= m, m <= b
          PROVE  i \in 1..g[m] <=> i \in 1..f[m] \/ e = job
      <4>1. CASE m = n
        BY <1>2, <3>1, <4>1
      <4>2. CASE m # n
        BY <1>1, <3>1, <4>2
      <4> QED BY <4>1, <4>2
    <3>2. f[n] + 1 \in 1..g[n]
      BY <1>2
    <3>3. ASSUME e \in Ends(g, a, b)
          PROVE  e \in Ends(f, a, b) \/ (a <= n /\ n <= b /\ e = job)
      <4>1. PICK m \in Minutes : \E i \in 1..g[m] : e = <<m, i>> /\ a <= m /\ m <= b
        BY <3>3 DEF Ends
      <4> PICK i \in 1..g[m] : e = <<m, i>>
        BY <4>1
      <4>2. CASE i \in 1..f[m]
        BY <4>1, <4>2, EndsMember
      <4>3. CASE e = job
        BY <4>1, <4>3
      <4> QED BY <3>1, <4>1, <4>2, <4>3
    <3>4. ASSUME e \in Ends(f, a, b) PROVE e \in Ends(g, a, b)
      <4>1. PICK m \in Minutes : \E i \in 1..f[m] : e = <<m, i>> /\ a <= m /\ m <= b
        BY <3>4, EndsMember
      <4> PICK i \in 1..f[m] : e = <<m, i>>
        BY <4>1
      <4>2. i \in 1..g[m]
        BY <3>1, <4>1
      <4> QED BY <4>1, <4>2, EndsMember
    <3>5. ASSUME a <= n, n <= b, e = job PROVE e \in Ends(g, a, b)
      BY <3>2, <3>5, EndsMember
    <3> QED BY <3>3, <3>4, <3>5
  <2> QED BY <2>1
<1>4. ASSUME NEW a \in Int, NEW b \in Int PROVE job \notin Ends(f, a, b)
  BY <1>2, EndsMember
<1>5. 1 \in Int /\ MaxTime \in Int /\ 1 <= n /\ n <= MaxTime
  BY Parameters DEF Minutes
<1> HIDE DEF job
<1>6. IsFiniteSet(Ends(g, 1, MaxTime))
  BY <1>3, <1>4, <1>5, AddsOne
<1>7. ASSUME NEW a \in Int, NEW b \in Int
      PROVE  Total(g, a, b) = IF a <= n /\ n <= b THEN Total(f, a, b) + 1 ELSE Total(f, a, b)
  <2>1. IsFiniteSet(Ends(f, a, b))
    BY TotalType
  <2> QED BY <1>3, <1>4, <2>1, AddsOne DEF Total
<1> QED BY <1>6, <1>7

-----------------------------------------------------------------------------
(* The invariant *)

\* What ended can be counted.
Countable ==
  IsFiniteSet(Ends(failedIn, 1, MaxTime)) /\ IsFiniteSet(Ends(doneIn, 1, MaxTime))

\* The cursor is as old as the last poll.
Clock ==
  /\ cursor.at = last.at /\ last.since <= last.at /\ last.at <= now
  /\ HasCursor <=> cursor.at # 0
  /\ ~HasCursor => counted = 0

Behind == HasCursor => Delta(failed, cursor.failed) <= Total(failedIn, cursor.at + 1, now)

Ahead == HasCursor => counted + Delta(failed, cursor.failed) <= Total(failedIn, 1, now)

Base == TypeOK /\ Countable /\ Clock

LEMMA DeltaType ==
  ASSUME NEW x \in Nat, NEW y \in Nat
  PROVE  /\ Delta(x, y) \in Nat /\ Delta(x, x) = 0 /\ Delta(0, y) = 0
         /\ Delta(x + 1, y) <= Delta(x, y) + 1
  BY DEF Delta

\* The rules compute numbers and truth values.
LEMMA RulesType ==
  ASSUME Base
  PROVE  /\ \A f : IsFiniteSet(Ends(f, 1, MaxTime)) => MetricsCount(f) \in Nat
         /\ FailureDelta \in Nat /\ evaluateFailureThreshold \in BOOLEAN
         /\ evaluateFailureRate \in BOOLEAN /\ evaluateQueueStalled \in BOOLEAN
<1>1. now \in Int
  BY DEF Base, TypeOK, Minutes
<1>2. now - MetricsWindow + 1 \in Int
  BY <1>1, Parameters
<1>3. \A f : IsFiniteSet(Ends(f, 1, MaxTime)) => MetricsCount(f) \in Nat
  BY <1>1, <1>2, TotalType DEF MetricsCount
<1>4. FailureDelta \in Nat
  BY <1>3, DeltaType DEF FailureDelta, Base, TypeOK, Countable
<1> QED
  BY <1>3, <1>4 DEF evaluateFailureThreshold, evaluateFailureRate, evaluateQueueStalled, WithinWindow

\* A poll as a whole: the new cursor is level with the queue.
LEMMA PollLevels ==
  ASSUME Base, Poll
  PROVE  /\ Base' /\ cursor' = [at |-> now, failed |-> failed, done |-> done] /\ HasCursor'
         /\ Delta(failed', cursor'.failed) = 0
<1>1. now \in Nat /\ now >= 1 /\ failed \in Nat /\ done \in Nat /\ counted \in Nat
  BY DEF Base, TypeOK, Minutes
<1>2. cursor' = [at |-> now, failed |-> failed, done |-> done]
  BY DEF Poll
<1>3. last' \in Verdicts /\ last'.at = now /\ last'.since = cursor.at
  BY <1>1, RulesType DEF Poll, Verdicts, Base, TypeOK
<1>4. counted' \in Nat
  BY <1>1, RulesType DEF Poll
<1>5. TypeOK'
  BY <1>1, <1>2, <1>3, <1>4 DEF Poll, queue, Base, TypeOK
<1>6. Countable'
  BY DEF Poll, queue, Base, Countable
<1>7. HasCursor'
  BY <1>1, <1>2 DEF HasCursor, NoCursor
<1>8. cursor.at \in Nat /\ cursor.at <= now
  BY DEF Base, TypeOK, Clock
<1>9. now' = now
  BY DEF Poll
<1>10. Clock'
  BY <1>1, <1>2, <1>3, <1>7, <1>8, <1>9 DEF Clock
<1>11. Delta(failed', cursor'.failed) = 0
  BY <1>1, <1>2, DeltaType DEF Poll, queue
<1> QED BY <1>2, <1>5, <1>6, <1>7, <1>10, <1>11 DEF Base

LEMMA BaseInit == Init => Base
<1> SUFFICES ASSUME Init PROVE Base
  OBVIOUS
<1>1. 1 \in Minutes
  BY Parameters DEF Minutes
<1>2. TypeOK
  BY <1>1 DEF Init, TypeOK, Verdicts, NoCursor
<1>3. \A m \in Minutes : 1..failedIn[m] = {} /\ 1..doneIn[m] = {}
  BY DEF Init
<1>4. Ends(failedIn, 1, MaxTime) = {} /\ Ends(doneIn, 1, MaxTime) = {}
  BY <1>3, EndsMember
<1>5. Countable
  BY <1>4, FS_EmptySet DEF Countable
<1>6. Clock
  BY DEF Init, Clock, NoCursor, HasCursor
<1> QED BY <1>2, <1>5, <1>6 DEF Base

LEMMA BaseStep == Base /\ [Next]_vars => Base'
<1> SUFFICES ASSUME Base, [Next]_vars PROVE Base'
  OBVIOUS
<1>1. CASE JobArrives
  BY <1>1 DEF JobArrives, polls, Base, TypeOK, Minutes, Countable, Clock, HasCursor
<1>2. CASE JobFails
  <2>1. /\ now \in Minutes /\ failedIn'[now] = failedIn[now] + 1
        /\ \A m \in Minutes \ {now} : failedIn'[m] = failedIn[m]
    BY <1>2 DEF JobFails, Base, TypeOK
  <2>2. Countable'
    BY <1>2, <2>1, OneMore DEF JobFails, Base, TypeOK, Countable
  <2>3. TypeOK'
    BY <1>2 DEF JobFails, JobEnds, polls, Base, TypeOK
  <2>4. Clock'
    BY <1>2 DEF JobFails, JobEnds, polls, Base, Clock, HasCursor
  <2> QED BY <2>2, <2>3, <2>4 DEF Base
<1>3. CASE JobCompletes
  <2>1. /\ now \in Minutes /\ doneIn'[now] = doneIn[now] + 1
        /\ \A m \in Minutes \ {now} : doneIn'[m] = doneIn[m]
    BY <1>3 DEF JobCompletes, Base, TypeOK
  <2>2. Countable'
    BY <1>3, <2>1, OneMore DEF JobCompletes, Base, TypeOK, Countable
  <2>3. TypeOK'
    BY <1>3 DEF JobCompletes, JobEnds, polls, Base, TypeOK
  <2>4. Clock'
    BY <1>3 DEF JobCompletes, JobEnds, polls, Base, Clock, HasCursor
  <2> QED BY <2>2, <2>3, <2>4 DEF Base
<1>4. CASE Clean
  BY <1>4 DEF Clean, polls, Base, TypeOK, Countable, Clock, HasCursor
<1>5. CASE Minute
  <2>1. now' \in Minutes
    BY <1>5, Parameters DEF Minute, Base, TypeOK, Minutes
  <2>2. TypeOK' /\ Countable'
    BY <1>5, <2>1 DEF Minute, queue, polls, Base, TypeOK, Countable
  <2>3. now \in Int /\ last.at \in Int /\ last.at <= now /\ now' = now + 1
    BY <1>5 DEF Minute, Base, TypeOK, Minutes, Verdicts, Clock
  <2>4. last'.at <= now'
    BY <1>5, <2>3 DEF Minute, polls
  <2>5. Clock'
    BY <1>5, <2>4 DEF Minute, queue, polls, Base, Clock, HasCursor
  <2> QED BY <2>2, <2>5 DEF Base
<1>6. CASE Poll
  BY <1>6, PollLevels
<1>7. CASE UNCHANGED vars
  BY <1>7 DEF vars, Base, TypeOK, Countable, Clock, HasCursor
<1> QED BY <1>1, <1>2, <1>3, <1>4, <1>5, <1>6, <1>7 DEF Next

\* The clock, the counts, the cursor and the verdicts keep their types.
THEOREM TypeCorrect == Spec => []TypeOK
<1>1. Base => TypeOK
  BY DEF Base
<1> QED BY <1>1, BaseInit, BaseStep, PTL DEF Spec

\* What a step may take for granted of the numbers.
LEMMA Numbers ==
  ASSUME Base
  PROVE  /\ now \in Minutes /\ now \in Nat /\ now \in Int /\ 1 <= now /\ 1 \in Int
         /\ cursor.at \in Nat /\ cursor.at + 1 \in Int /\ cursor.at <= now /\ last.at \in Int
         /\ last.at <= now /\ now + 1 \in Int
         /\ failed \in Nat /\ cursor.failed \in Nat /\ counted \in Nat
         /\ failedIn \in [Minutes -> Nat] /\ doneIn \in [Minutes -> Nat]
         /\ IsFiniteSet(Ends(failedIn, 1, MaxTime)) /\ IsFiniteSet(Ends(doneIn, 1, MaxTime))
  BY DEF Base, TypeOK, Minutes, Verdicts, Clock, Countable

LEMMA Deltas ==
  ASSUME Base
  PROVE  /\ Delta(failed, cursor.failed) \in Nat /\ Delta(0, cursor.failed) = 0
         /\ Delta(failed + 1, cursor.failed) \in Nat
         /\ Delta(failed + 1, cursor.failed) <= Delta(failed, cursor.failed) + 1
  BY Numbers DEF Delta

LEMMA Totals ==
  ASSUME Base
  PROVE  /\ \A a, b \in Int : Total(failedIn, a, b) \in Nat
         /\ \A a, b \in Int : Total(doneIn, a, b) \in Nat
         /\ \A a, b, c, d \in Int : c <= a /\ b <= d => Total(failedIn, a, b) <= Total(failedIn, c, d)
         /\ \A a, b, c, d \in Int : c <= a /\ b <= d => Total(doneIn, a, b) <= Total(doneIn, c, d)
  BY Numbers, TotalType, TotalGrows

\* A failing job counts in every interval around this minute.
LEMMA Failing ==
  ASSUME Base, JobFails, NEW a \in Int, NEW b \in Int
  PROVE  Total(failedIn', a, b) =
           IF a <= now /\ now <= b THEN Total(failedIn, a, b) + 1 ELSE Total(failedIn, a, b)
<1>1. failedIn'[now] = failedIn[now] + 1 /\ \A m \in Minutes \ {now} : failedIn'[m] = failedIn[m]
  BY Numbers DEF JobFails
<1>2. now \in Minutes /\ failedIn \in [Minutes -> Nat] /\ IsFiniteSet(Ends(failedIn, 1, MaxTime))
  BY Numbers
<1>3. \A x, y \in Int : Total(failedIn', x, y) =
        IF x <= now /\ now <= y THEN Total(failedIn, x, y) + 1 ELSE Total(failedIn, x, y)
  BY <1>1, <1>2, OneMore
<1> QED BY <1>3

LEMMA Completing ==
  ASSUME Base, JobCompletes, NEW a \in Int, NEW b \in Int
  PROVE  Total(doneIn', a, b) =
           IF a <= now /\ now <= b THEN Total(doneIn, a, b) + 1 ELSE Total(doneIn, a, b)
<1>1. doneIn'[now] = doneIn[now] + 1 /\ \A m \in Minutes \ {now} : doneIn'[m] = doneIn[m]
  BY Numbers DEF JobCompletes
<1>2. now \in Minutes /\ doneIn \in [Minutes -> Nat] /\ IsFiniteSet(Ends(doneIn, 1, MaxTime))
  BY Numbers
<1>3. \A x, y \in Int : Total(doneIn', x, y) =
        IF x <= now /\ now <= y THEN Total(doneIn, x, y) + 1 ELSE Total(doneIn, x, y)
  BY <1>1, <1>2, OneMore
<1> QED BY <1>3

\* A minute more counts no less.
LEMMA Later ==
  ASSUME Base, NEW a \in Int
  PROVE  /\ Total(failedIn, a, now) <= Total(failedIn, a, now + 1)
         /\ Total(failedIn, a, now) \in Nat /\ Total(failedIn, a, now + 1) \in Nat
<1> DEFINE next == now + 1
<1>1. now \in Int /\ next \in Int /\ a <= a /\ now <= next
  BY Numbers
<1> HIDE DEF next
<1>2. /\ Total(failedIn, a, now) <= Total(failedIn, a, next)
      /\ Total(failedIn, a, now) \in Nat /\ Total(failedIn, a, next) \in Nat
  BY <1>1, Totals
<1> QED BY <1>2 DEF next

LEMMA BehindStep == Base /\ Behind /\ [Next]_vars => Behind'
<1> SUFFICES ASSUME Base, Behind, [Next]_vars PROVE Behind'
  OBVIOUS
<1> USE DEF Behind
<1>1. CASE JobArrives
  BY <1>1 DEF JobArrives, polls, HasCursor
<1>2. CASE JobFails
  <2> SUFFICES ASSUME HasCursor
               PROVE  Delta(failed + 1, cursor.failed) <= Total(failedIn', cursor.at + 1, now)
    BY <1>2 DEF JobFails, JobEnds, polls, HasCursor
  <2>1. cursor.at + 1 <= now /\ cursor.at + 1 \in Int /\ now \in Int
    BY <1>2, Numbers DEF JobFails, JobEnds, Polled, Base, Clock
  <2>2. Total(failedIn', cursor.at + 1, now) = Total(failedIn, cursor.at + 1, now) + 1
    BY <1>2, <2>1, Failing
  <2>3. /\ Total(failedIn, cursor.at + 1, now) \in Nat /\ Delta(failed, cursor.failed) \in Nat
        /\ Delta(failed + 1, cursor.failed) \in Nat
        /\ Delta(failed + 1, cursor.failed) <= Delta(failed, cursor.failed) + 1
    BY <2>1, Totals, Deltas
  <2> QED BY <2>2, <2>3
<1>3. CASE JobCompletes
  BY <1>3 DEF JobCompletes, JobEnds, polls, HasCursor
<1>4. CASE Clean
  <2>1. Total(failedIn, cursor.at + 1, now) \in Nat /\ Delta(0, cursor.failed) = 0
    BY Numbers, Totals, Deltas
  <2> QED BY <1>4, <2>1 DEF Clean, polls, HasCursor
<1>5. CASE Minute
  <2>1. /\ Total(failedIn, cursor.at + 1, now) <= Total(failedIn, cursor.at + 1, now + 1)
        /\ Total(failedIn, cursor.at + 1, now) \in Nat
        /\ Total(failedIn, cursor.at + 1, now + 1) \in Nat
    BY Numbers, Later
  <2>2. HasCursor => Delta(failed, cursor.failed) <= Total(failedIn, cursor.at + 1, now + 1)
    BY <2>1, Deltas
  <2> QED BY <1>5, <2>2 DEF Minute, queue, polls, HasCursor
<1>6. CASE Poll
  <2>1. cursor'.at \in Int /\ now' \in Int /\ IsFiniteSet(Ends(failedIn', 1, MaxTime))
    BY <1>6, PollLevels DEF Base, TypeOK, Minutes, Countable
  <2>2. Total(failedIn', cursor'.at + 1, now') \in Nat
    BY <2>1, TotalType
  <2> QED BY <1>6, <2>2, PollLevels
<1>7. CASE UNCHANGED vars
  BY <1>7 DEF vars, HasCursor
<1> QED BY <1>1, <1>2, <1>3, <1>4, <1>5, <1>6, <1>7 DEF Next

LEMMA AheadStep == Base /\ Ahead /\ [Next]_vars => Ahead'
<1> SUFFICES ASSUME Base, Ahead, [Next]_vars PROVE Ahead'
  OBVIOUS
<1> USE DEF Ahead
<1>1. CASE JobArrives
  BY <1>1 DEF JobArrives, polls, HasCursor
<1>2. CASE JobFails
  <2>1. Total(failedIn', 1, now) = Total(failedIn, 1, now) + 1
    BY <1>2, Numbers, Failing
  <2>2. counted \in Nat /\ Total(failedIn, 1, now) \in Nat
    BY Numbers, Totals
  <2>3. HasCursor => counted + Delta(failed + 1, cursor.failed) <= Total(failedIn', 1, now)
    BY Deltas, <2>1, <2>2
  <2> QED BY <1>2, <2>3 DEF JobFails, JobEnds, polls, HasCursor
<1>3. CASE JobCompletes
  BY <1>3 DEF JobCompletes, JobEnds, polls, HasCursor
<1>4. CASE Clean
  <2>1. /\ counted \in Nat /\ Delta(0, cursor.failed) = 0 /\ Delta(failed, cursor.failed) \in Nat
        /\ Total(failedIn, 1, now) \in Nat
    BY Numbers, Totals, Deltas
  <2>2. HasCursor => counted + Delta(0, cursor.failed) <= Total(failedIn, 1, now)
    BY <2>1
  <2> QED BY <1>4, <2>2 DEF Clean, polls, HasCursor
<1>5. CASE Minute
  <2>1. Total(failedIn, 1, now) <= Total(failedIn, 1, now + 1) /\ Total(failedIn, 1, now + 1) \in Nat
    BY Numbers, Later
  <2>2. counted \in Nat /\ Delta(failed, cursor.failed) \in Nat /\ Total(failedIn, 1, now) \in Nat
    BY Numbers, Deltas, Later
  <2>3. HasCursor => counted + Delta(failed, cursor.failed) <= Total(failedIn, 1, now + 1)
    BY <2>1, <2>2
  <2> QED BY <1>5, <2>3 DEF Minute, queue, polls, HasCursor
<1>6. CASE Poll
  <2>1. /\ Delta(failed', cursor'.failed) = 0 /\ now' = now /\ failedIn' = failedIn
        /\ counted' = counted + (IF HasCursor THEN Delta(failed, cursor.failed) ELSE 0)
    BY <1>6, PollLevels DEF Poll, queue, FailureDelta
  <2>2. counted \in Nat /\ Total(failedIn, 1, now) \in Nat /\ Delta(failed, cursor.failed) \in Nat
    BY Numbers, Totals, Deltas
  <2>3. counted' <= Total(failedIn, 1, now) /\ counted' \in Nat
    BY <2>1, <2>2 DEF Base, Clock
  <2> QED BY <2>1, <2>3
<1>7. CASE UNCHANGED vars
  BY <1>7 DEF vars, HasCursor
<1> QED BY <1>1, <1>2, <1>3, <1>4, <1>5, <1>6, <1>7 DEF Next

-----------------------------------------------------------------------------
(* The verdicts *)

\* No failure is attributed to two polls, whatever is cleaned between them.
THEOREM EachFailureOnce == Spec => []CountedOnce
<1>1. Init => Ahead
  BY DEF Init, Ahead, HasCursor
<1>2. Base /\ Ahead => CountedOnce
  <2> SUFFICES ASSUME Base, Ahead PROVE CountedOnce
    OBVIOUS
  <2>1. /\ counted \in Nat /\ Delta(failed, cursor.failed) \in Nat
        /\ Total(failedIn, 1, now) \in Nat
    BY Numbers, Totals, Deltas
  <2> QED BY <2>1 DEF Base, Clock, Ahead, CountedOnce
<1> QED BY <1>1, <1>2, BaseInit, BaseStep, AheadStep, PTL DEF Spec

\* The counts of the minutes up to the last poll no longer change.
LEMMA PastIsPast ==
  ASSUME Base, Next, ~Poll
  PROVE  /\ last' = last
         /\ \A a \in Int : /\ Total(failedIn', a, last.at) = Total(failedIn, a, last.at)
                          /\ Total(doneIn', a, last.at) = Total(doneIn, a, last.at)
<1>1. CASE JobFails
  <2>1. doneIn' = doneIn /\ last' = last
    BY <1>1 DEF JobFails, JobEnds, polls
  <2>2. ~(now <= last.at)
    BY <1>1, Numbers DEF JobFails, JobEnds, Polled
  <2>3. \A a \in Int : Total(failedIn', a, last.at) = Total(failedIn, a, last.at)
    BY <1>1, Numbers, <2>2, Failing
  <2> QED BY <2>1, <2>3
<1>2. CASE JobCompletes
  <2>1. failedIn' = failedIn /\ last' = last
    BY <1>2 DEF JobCompletes, JobEnds, polls
  <2>2. ~(now <= last.at)
    BY <1>2, Numbers DEF JobCompletes, JobEnds, Polled
  <2>3. \A a \in Int : Total(doneIn', a, last.at) = Total(doneIn, a, last.at)
    BY <1>2, Numbers, <2>2, Completing
  <2> QED BY <2>1, <2>3
<1>3. CASE JobArrives \/ Clean \/ Minute
  BY <1>3 DEF JobArrives, Clean, Minute, queue, polls
<1> QED BY <1>1, <1>2, <1>3 DEF Next

\* Behind makes a verdict of the threshold rule right when it is given.
LEMMA SpikeStep == Base /\ Behind /\ NoBacklogSpike /\ [Next]_vars => NoBacklogSpike'
<1> SUFFICES ASSUME Base, Behind, NoBacklogSpike, [Next]_vars PROVE NoBacklogSpike'
  OBVIOUS
<1>1. CASE Poll
  <2> DEFINE m == cursor.at + 1
  <2>1. /\ last' = [at |-> now, since |-> cursor.at, threshold |-> evaluateFailureThreshold,
                    rate |-> evaluateFailureRate, stalled |-> evaluateQueueStalled]
        /\ failedIn' = failedIn /\ cursor.at \in Nat /\ now \in Minutes /\ now \in Nat
        /\ cursor.at < now
    BY <1>1 DEF Poll, Polled, queue, Base, TypeOK, Minutes, Clock
  <2> SUFFICES ASSUME evaluateFailureThreshold, cursor.at # 0
               PROVE  \E n \in Minutes : /\ 10 * (now - n + 1) <= 11 * Window
                                        /\ Total(failedIn, n, now) >= Count
    BY <2>1 DEF NoBacklogSpike, FailuresSince
  <2>2. HasCursor
    BY DEF Base, Clock
  <2>3. 10 * (now - cursor.at) <= 11 * Window /\ Delta(failed, cursor.failed) >= Count
    BY <2>2 DEF evaluateFailureThreshold, WithinWindow, SinceCheck, FailureDelta
  <2>4. Total(failedIn, m, now) >= Delta(failed, cursor.failed)
    <3>1. Total(failedIn, m, now) \in Nat /\ Delta(failed, cursor.failed) \in Nat
      BY Numbers, Totals, Deltas
    <3> QED BY <2>2, <3>1 DEF Behind
  <2>5. m \in Minutes /\ now - m + 1 = now - cursor.at
    BY <2>1, Parameters DEF Minutes
  <2>6. Total(failedIn, m, now) >= Count
    <3>1. Total(failedIn, m, now) \in Nat /\ Delta(failed, cursor.failed) \in Nat /\ Count \in Nat
      BY Numbers, Totals, Deltas, Parameters
    <3> HIDE DEF m
    <3> QED BY <2>3, <2>4, <3>1
  <2> QED BY <2>3, <2>5, <2>6
<1>2. CASE Next /\ ~Poll
  <2>1. Minutes \subseteq Int
    BY DEF Minutes
  <2> QED BY <1>2, <2>1, PastIsPast DEF NoBacklogSpike, FailuresSince
<1>3. CASE UNCHANGED vars
  BY <1>3 DEF vars, NoBacklogSpike, FailuresSince
<1> QED BY <1>1, <1>2, <1>3

\* A reported spike happened within the window: no gap between polls and no
\* clean-up of the queue passes old failures off as new ones.
THEOREM SpikesAreRecent == Spec => []NoBacklogSpike
<1>1. Init => Behind /\ NoBacklogSpike
  BY DEF Init, Behind, HasCursor, NoBacklogSpike
<1> QED BY <1>1, BaseInit, BaseStep, BehindStep, SpikeStep, PTL DEF Spec

LEMMA StalledStep == Base /\ StalledIsIdle /\ [Next]_vars => StalledIsIdle'
<1> SUFFICES ASSUME Base, StalledIsIdle, [Next]_vars PROVE StalledIsIdle'
  OBVIOUS
<1>1. CASE Poll
  <2>1. /\ last' = [at |-> now, since |-> cursor.at, threshold |-> evaluateFailureThreshold,
                    rate |-> evaluateFailureRate, stalled |-> evaluateQueueStalled]
        /\ doneIn' = doneIn /\ metricsOn' = metricsOn
    BY <1>1 DEF Poll, queue
  <2> SUFFICES ASSUME evaluateQueueStalled, cursor.at # 0, metricsOn
               PROVE  /\ now - cursor.at >= Stalled
                      /\ Stalled <= MetricsWindow => Total(doneIn, now - Stalled + 1, now) = 0
    BY <2>1 DEF StalledIsIdle
  <2>2. HasCursor
    BY DEF Base, Clock
  <2>3. now - cursor.at >= Stalled /\ Total(doneIn, now - MetricsWindow + 1, now) = 0
    BY <2>2 DEF evaluateQueueStalled, SinceCheck, MetricsCount
  <2>4. ASSUME Stalled <= MetricsWindow PROVE Total(doneIn, now - Stalled + 1, now) = 0
    <3>1. /\ now - MetricsWindow + 1 \in Int /\ now - Stalled + 1 \in Int
          /\ now - MetricsWindow + 1 <= now - Stalled + 1
      BY Numbers, Parameters, <2>4
    <3>2. Total(doneIn, now - Stalled + 1, now) <= Total(doneIn, now - MetricsWindow + 1, now)
      BY Numbers, <3>1, Totals
    <3>3. Total(doneIn, now - Stalled + 1, now) \in Nat
      BY Numbers, <3>1, Totals
    <3> QED BY <2>3, <3>2, <3>3
  <2> QED BY <2>3, <2>4
<1>2. CASE Next /\ ~Poll
  <2>1. metricsOn' = metricsOn
    BY <1>2 DEF Next, JobArrives, JobFails, JobCompletes, JobEnds, Clean, Minute, queue
  <2>2. last.at - Stalled + 1 \in Int
    BY Numbers, Parameters
  <2> QED BY <1>2, <2>1, <2>2, PastIsPast DEF StalledIsIdle
<1>3. CASE UNCHANGED vars
  BY <1>3 DEF vars, StalledIsIdle
<1> QED BY <1>1, <1>2, <1>3

\* A queue reported as stalled was idle for as long as the rule asks, the metrics
\* covering what a clean-up removes from the counts.
THEOREM StalledQueuesAreIdle == Spec => []StalledIsIdle
<1>1. Init => StalledIsIdle
  BY DEF Init, StalledIsIdle
<1> QED BY <1>1, BaseInit, BaseStep, StalledStep, PTL DEF Spec
=============================================================================
