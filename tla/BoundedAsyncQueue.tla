------------------------- MODULE BoundedAsyncQueue -------------------------
(***************************************************************************)
(* createBoundedAsyncQueue: the in-process queue in front of the MCP and   *)
(* telemetry uploads.  At most MaxInFlight processors run at once, at most *)
(* MaxQueueDepth inputs wait, and an input that finds the queue full is    *)
(* dropped and counted.  resetForTests forgets everything, but cannot stop *)
(* the processors that run: each remembers the epoch it was dispatched in  *)
(* and its completion is ignored in any other.                             *)
(*                                                                         *)
(* Everything runs on one JavaScript thread, so an enqueue, a completion   *)
(* with the flush it ends in, and a reset are one step each.  Inputs are   *)
(* numbered in the order they are offered.  A processor that throws and    *)
(* one that returns free their slot alike, and hooks that throw are caught.*)
(***************************************************************************)
EXTENDS Naturals, Sequences, FiniteSets

CONSTANTS
  MaxInFlight, MaxQueueDepth,   \* the options of the queue
  MaxOffers, MaxEpochs          \* bounds: calls of enqueue and resetForTests

\* The two RangeErrors of the factory.
ASSUME QueueAssumption ==
  /\ MaxInFlight \in Nat \ {0}
  /\ MaxQueueDepth \in Nat
  /\ MaxOffers \in Nat /\ MaxEpochs \in Nat

VARIABLES
  inFlight, dropped, epoch,   \* the counters of the closure
  pending,                    \* inputs waiting
  running,                    \* the processors that run, with their epoch
  offered,                    \* calls of enqueue so far
  accepted, started           \* history: this epoch's inputs, in order

vars == <<inFlight, dropped, epoch, pending, running, offered, accepted, started>>

Task == [input : Nat, epoch : Nat]

TypeOK ==
  /\ inFlight \in Nat /\ dropped \in Nat /\ epoch \in Nat /\ offered \in Nat
  /\ pending \in Seq(Nat)
  /\ running \in SUBSET Task
  /\ accepted \in Seq(Nat) /\ started \in Seq(Nat)

Init ==
  /\ inFlight = 0 /\ dropped = 0 /\ epoch = 0 /\ offered = 0
  /\ pending = <<>>
  /\ running = {}
  /\ accepted = <<>> /\ started = <<>>

TaskOf(i) == [input |-> i, epoch |-> epoch]

\* How many inputs a flush dispatches when n processors run.
Room(n, queue) == IF n + Len(queue) <= MaxInFlight THEN Len(queue)
                  ELSE IF n <= MaxInFlight THEN MaxInFlight - n ELSE 0

\* Fault variant: the loop dispatches from the back.
Flush_LastFirst(n, queue, others) ==
  LET k == Room(n, queue)
      rest == Len(queue) - k
  IN /\ inFlight' = n + k
     /\ running' = others \cup {TaskOf(queue[j]) : j \in rest + 1 .. Len(queue)}
     /\ started' = started \o SubSeq(queue, rest + 1, Len(queue))
     /\ pending' = SubSeq(queue, 1, rest)

\* The loop of flush, for n running processors and these waiting inputs;
\* others are the processors that keep running.
Flush(n, queue, others) ==
  LET k == Room(n, queue)
  IN /\ inFlight' = n + k
     /\ running' = others \cup {TaskOf(queue[j]) : j \in 1 .. k}
     /\ started' = started \o SubSeq(queue, 1, k)
     /\ pending' = SubSeq(queue, k + 1, Len(queue))

\* Dispatched at once, dropped, or queued and flushed.
Enqueue ==
  LET i == offered + 1
      direct == inFlight < MaxInFlight /\ pending = <<>>
      full == Len(pending) >= MaxQueueDepth
  IN /\ offered < MaxOffers
     /\ offered' = i
     /\ IF direct
        THEN /\ inFlight' = inFlight + 1
             /\ running' = running \cup {TaskOf(i)}
             /\ started' = Append(started, i)
             /\ UNCHANGED pending
        ELSE IF full
             THEN UNCHANGED <<inFlight, running, started, pending>>
             ELSE Flush(inFlight, Append(pending, i), running)
     /\ dropped' = IF ~direct /\ full THEN dropped + 1 ELSE dropped
     /\ accepted' = IF ~direct /\ full THEN accepted ELSE Append(accepted, i)
     /\ UNCHANGED epoch

\* Fault variant: a completion frees its slot but does not flush.
Finish_NoFlush(t) ==
  /\ t \in running
  /\ running' = running \ {t}
  /\ inFlight' = IF t.epoch = epoch THEN inFlight - 1 ELSE inFlight
  /\ UNCHANGED <<pending, started, dropped, epoch, offered, accepted>>

\* A processor settles; in its own epoch it frees its slot and flushes.
Finish(t) ==
  /\ t \in running
  /\ IF t.epoch = epoch
     THEN Flush(inFlight - 1, pending, running \ {t})
     ELSE running' = running \ {t} /\ UNCHANGED <<inFlight, pending, started>>
  /\ UNCHANGED <<dropped, epoch, offered, accepted>>

\* Fault variant: the slots in use survive the reset.
ResetForTests_KeepsCount ==
  /\ epoch < MaxEpochs
  /\ epoch' = epoch + 1
  /\ dropped' = 0
  /\ pending' = <<>> /\ accepted' = <<>> /\ started' = <<>>
  /\ UNCHANGED <<inFlight, running, offered>>

ResetForTests ==
  /\ epoch < MaxEpochs
  /\ epoch' = epoch + 1
  /\ inFlight' = 0 /\ dropped' = 0
  /\ pending' = <<>> /\ accepted' = <<>> /\ started' = <<>>
  /\ UNCHANGED <<running, offered>>

Next == Enqueue \/ ResetForTests \/ \E t \in running : Finish(t)

Spec == Init /\ [][Next]_vars

-----------------------------------------------------------------------------
(* Properties *)

Current == {t \in running : t.epoch = epoch}

\* The counter is the truth: it equals the processors of this epoch that run,
\* whatever completions of forgotten epochs arrive late, and never passes
\* maxInFlight.
SlotsAreCounted ==
  inFlight = Cardinality(Current) /\ inFlight <= MaxInFlight

\* No input waits while a slot is free, so a queue with work cannot stall, and
\* the queue keeps within its depth.
NoIdleSlot ==
  /\ pending # <<>> => inFlight = MaxInFlight
  /\ Len(pending) <= MaxQueueDepth

\* Inputs are started in the order they were accepted and none is lost: what
\* was accepted is what was started followed by what waits.
StartedInOrder == accepted = started \o pending

\* An input is dropped only when every slot and every place is taken.
DroppedOnlyWhenFull ==
  [][dropped' > dropped => inFlight = MaxInFlight /\ Len(pending) = MaxQueueDepth]_vars
=============================================================================
