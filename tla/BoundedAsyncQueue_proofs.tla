--------------------- MODULE BoundedAsyncQueue_proofs ---------------------
(***************************************************************************)
(* Proofs about the bounded async queue, for any limits and any number of  *)
(* inputs and resets.                                                      *)
(*                                                                         *)
(* The invariant QInv joins the properties of the queue, which are         *)
(* inductive only together: because inputs wait only while every slot is   *)
(* taken, a flush never dispatches more than one of them, and because the  *)
(* waiting inputs are newer than the running ones, the one it dispatches   *)
(* is a processor of its own and the counter of slots stays the truth.     *)
(***************************************************************************)
EXTENDS BoundedAsyncQueue, TLAPS, FiniteSetTheorems, SequenceTheorems

-----------------------------------------------------------------------------
(* The flush *)

\* A flush that finds no room changes nothing but the count it is given.
LEMMA FlushNone ==
  ASSUME NEW n \in Nat, NEW queue \in Seq(Nat), NEW others, started \in Seq(Nat),
         Room(n, queue) = 0, Flush(n, queue, others)
  PROVE  inFlight' = n /\ running' = others /\ started' = started /\ pending' = queue
<1>1. SubSeq(queue, 1, 0) = <<>> /\ SubSeq(queue, 1, Len(queue)) = queue
  BY SubSeqEmpty, SubSeqFull
<1>2. started \o <<>> = started
  BY ConcatEmptySeq
<1>3. {TaskOf(queue[j]) : j \in 1 .. 0} = {}
  OBVIOUS
<1> QED BY <1>1, <1>2, <1>3 DEF Flush

\* A flush that finds room for one input dispatches the oldest.
LEMMA FlushOne ==
  ASSUME NEW n \in Nat, NEW queue \in Seq(Nat), queue # <<>>, NEW others,
         started \in Seq(Nat), Room(n, queue) = 1, Flush(n, queue, others)
  PROVE  /\ inFlight' = n + 1 /\ running' = others \cup {TaskOf(queue[1])}
         /\ started' = started \o <<queue[1]>> /\ pending' = Tail(queue)
<1>1. Len(queue) \in Nat \ {0}
  BY EmptySeq
<1>2. SubSeq(queue, 1, 1) = <<queue[1]>>
  <2>1. 1 \in 1 .. Len(queue) /\ queue[1] \in Nat
    BY <1>1, ElementOfSeq
  <2>2. SubSeq(queue, 1, 1) = SubSeq(queue, 1, 0) \o <<queue[1]>>
    BY <2>1, 1 \in 1 .. Len(queue), SubSeqRecursiveSecond
  <2>3. SubSeq(queue, 1, 0) = <<>> /\ <<queue[1]>> \in Seq(Nat)
    BY <2>1, SubSeqEmpty
  <2> QED BY <2>2, <2>3, ConcatEmptySeq
<1>3. SubSeq(queue, 2, Len(queue)) = Tail(queue)
  BY TailIsSubSeq
<1>4. {TaskOf(queue[j]) : j \in 1 .. 1} = {TaskOf(queue[1])}
  OBVIOUS
<1> QED BY <1>2, <1>3, <1>4 DEF Flush

\* Concatenation is associative, on sequences of inputs.
LEMMA ConcatSeqAppend ==
  ASSUME NEW s \in Seq(Nat), NEW t \in Seq(Nat), NEW u \in Seq(Nat)
  PROVE  (s \o t) \o u = s \o (t \o u)
OBVIOUS

-----------------------------------------------------------------------------
(* The invariant *)

\* Waiting inputs are in the order they were offered and newer than every input
\* whose processor runs in this epoch; nothing is newer than the last offer.
Ordered ==
  /\ \A i \in 1 .. Len(pending) : pending[i] <= offered
  /\ \A i, j \in 1 .. Len(pending) : i < j => pending[i] < pending[j]
  /\ \A t \in Current : t.input <= offered
  /\ \A t \in Current, i \in 1 .. Len(pending) : t.input < pending[i]
  /\ \A t \in running : t.epoch <= epoch

\* The inductive invariant.
QInv ==
  /\ TypeOK /\ Ordered /\ IsFiniteSet(running)
  /\ SlotsAreCounted /\ NoIdleSlot /\ StartedInOrder

\* An empty queue satisfies the invariant.
LEMMA QInvInit == Init => QInv
<1> SUFFICES ASSUME Init PROVE QInv
  OBVIOUS
<1>1. TypeOK
  BY DEF Init, TypeOK, Task
<1>2. Current = {} /\ IsFiniteSet(running)
  BY FS_EmptySet DEF Init, Current
<1>3. SlotsAreCounted
  BY <1>2, FS_EmptySet, QueueAssumption DEF Init, SlotsAreCounted
<1>4. NoIdleSlot /\ Ordered
  BY <1>2, QueueAssumption DEF Init, NoIdleSlot, Ordered
<1>5. StartedInOrder
  BY DEF Init, StartedInOrder
<1> QED BY <1>1, <1>2, <1>3, <1>4, <1>5 DEF QInv

-----------------------------------------------------------------------------
(* The steps *)

\* What a step needs to know of the processors: they are finitely many, and
\* those of this epoch are the running ones of its number.
LEMMA CurrentFinite ==
  QInv => /\ IsFiniteSet(Current) /\ Cardinality(Current) = inFlight
          /\ inFlight \in 0 .. MaxInFlight /\ Current \subseteq running
<1> SUFFICES ASSUME QInv PROVE /\ IsFiniteSet(Current) /\ Cardinality(Current) = inFlight
                               /\ inFlight \in 0 .. MaxInFlight /\ Current \subseteq running
  OBVIOUS
<1>1. Current \subseteq running
  BY DEF Current
<1>2. IsFiniteSet(Current)
  BY <1>1, FS_Subset DEF QInv
<1> QED BY <1>1, <1>2, QueueAssumption DEF QInv, SlotsAreCounted, TypeOK

\* An input that finds a free slot and nobody waiting starts at once.
LEMMA DirectKeeps ==
  ASSUME QInv, Enqueue, inFlight < MaxInFlight, pending = <<>>
  PROVE  QInv'
<1> DEFINE i == offered + 1
<1>1. /\ offered' = i /\ inFlight' = inFlight + 1 /\ running' = running \cup {TaskOf(i)}
      /\ started' = Append(started, i) /\ accepted' = Append(accepted, i)
      /\ pending' = <<>> /\ dropped' = dropped /\ epoch' = epoch
  BY DEF Enqueue
<1>2. /\ offered \in Nat /\ i \in Nat /\ epoch \in Nat /\ running \subseteq Task
      /\ started \in Seq(Nat) /\ accepted \in Seq(Nat) /\ inFlight \in Nat /\ dropped \in Nat
  BY DEF QInv, TypeOK
<1>3. Current' = Current \cup {TaskOf(i)}
  BY <1>1 DEF Current, TaskOf
<1>4. TaskOf(i) \notin Current
  <2>1. \A t \in Current : t.input <= offered
    BY DEF QInv, Ordered
  <2>2. TaskOf(i).input = i
    BY DEF TaskOf
  <2> QED BY <1>2, <2>1, <2>2
<1>5. TypeOK'
  <2>1. TaskOf(i) \in Task
    BY <1>2 DEF TaskOf, Task
  <2>2. <<>> \in Seq(Nat)
    OBVIOUS
  <2>3. Append(started, i) \in Seq(Nat) /\ Append(accepted, i) \in Seq(Nat)
    BY <1>2, AppendProperties
  <2> QED BY <1>1, <1>2, <2>1, <2>2, <2>3 DEF TypeOK
<1>6. IsFiniteSet(running)'
  BY <1>1, FS_AddElement DEF QInv
<1>7. SlotsAreCounted'
  <2>1. Cardinality(Current \cup {TaskOf(i)}) = inFlight + 1
    BY <1>4, CurrentFinite, FS_AddElement
  <2> QED BY <1>1, <1>2, <1>3, <2>1, QueueAssumption DEF SlotsAreCounted
<1>8. NoIdleSlot'
  BY <1>1, QueueAssumption DEF NoIdleSlot
<1>9. StartedInOrder'
  <2>1. accepted = started
    BY <1>2, ConcatEmptySeq DEF QInv, StartedInOrder
  <2>2. Append(started, i) \o <<>> = Append(started, i)
    BY <1>2, AppendProperties, ConcatEmptySeq
  <2> QED BY <1>1, <2>1, <2>2 DEF StartedInOrder
<1>10. Ordered'
  <2>1. Len(pending') = 0
    BY <1>1
  <2>2. \A t \in Current' : t.input <= offered'
    <3>1. \A t \in Current : t.input <= offered /\ t.input \in Nat
      BY <1>2, CurrentFinite DEF QInv, Ordered, Task
    <3> QED BY <1>1, <1>2, <1>3, <3>1 DEF TaskOf
  <2>3. \A t \in running' : t.epoch <= epoch'
    BY <1>1, <1>2 DEF QInv, Ordered, TaskOf
  <2> QED BY <2>1, <2>2, <2>3 DEF Ordered
<1> QED BY <1>5, <1>6, <1>7, <1>8, <1>9, <1>10 DEF QInv

\* An input that has to wait is put last: every slot is taken, so the flush that
\* follows starts nothing.
LEMMA QueuedKeeps ==
  ASSUME QInv, Enqueue, ~(inFlight < MaxInFlight /\ pending = <<>>),
         Len(pending) < MaxQueueDepth
  PROVE  QInv'
<1> PICK i : i = offered + 1
  OBVIOUS
<1> PICK queue : queue = Append(pending, i)
  OBVIOUS
<1>1. /\ offered \in Nat /\ i \in Nat /\ epoch \in Nat /\ dropped \in Nat
      /\ pending \in Seq(Nat) /\ started \in Seq(Nat) /\ accepted \in Seq(Nat)
      /\ Len(pending) \in Nat
  BY LenProperties DEF QInv, TypeOK
<1>2. inFlight = MaxInFlight /\ inFlight \in Nat
  BY CurrentFinite, QueueAssumption DEF QInv, NoIdleSlot
<1>3. /\ queue \in Seq(Nat) /\ Len(queue) = Len(pending) + 1
      /\ \A k \in 1 .. Len(pending) : queue[k] = pending[k]
      /\ queue[Len(pending) + 1] = i
  BY <1>1, AppendProperties
<1>4. ~(Len(pending) >= MaxQueueDepth)
  BY <1>1, QueueAssumption
<1>5. /\ offered' = i /\ Flush(inFlight, queue, running)
      /\ dropped' = dropped /\ accepted' = Append(accepted, i) /\ epoch' = epoch
  BY <1>4 DEF Enqueue
<1>6. Room(inFlight, queue) = 0
  BY <1>1, <1>2, <1>3, QueueAssumption DEF Room
<1>7. inFlight' = inFlight /\ running' = running /\ started' = started /\ pending' = queue
  BY <1>1, <1>2, <1>3, <1>5, <1>6, FlushNone
<1>8. Current' = Current
  BY <1>5, <1>7 DEF Current
<1>9. TypeOK'
  <2>1. Append(accepted, i) \in Seq(Nat)
    BY <1>1, AppendProperties
  <2> QED BY <1>1, <1>3, <1>5, <1>7, <2>1 DEF QInv, TypeOK
<1>10. SlotsAreCounted' /\ IsFiniteSet(running)'
  BY <1>7, <1>8 DEF QInv, SlotsAreCounted
<1>11. NoIdleSlot'
  BY <1>1, <1>2, <1>3, <1>4, <1>7, QueueAssumption DEF NoIdleSlot
<1>12. StartedInOrder'
  <2>1. accepted = started \o pending /\ <<i>> \in Seq(Nat)
    BY <1>1 DEF QInv, StartedInOrder
  <2>2. Append(accepted, i) = (started \o pending) \o <<i>>
    BY <1>1, <2>1, AppendIsConcat
  <2>3. (started \o pending) \o <<i>> = started \o (pending \o <<i>>)
    BY <1>1, <2>1, ConcatSeqAppend
  <2>4. queue = pending \o <<i>>
    BY <1>1, AppendIsConcat
  <2> QED BY <1>5, <1>7, <2>2, <2>3, <2>4 DEF StartedInOrder
<1>13. Ordered'
  <2>1. \A k \in 1 .. Len(pending) : pending[k] \in Nat /\ pending[k] <= offered
    BY <1>1, ElementOfSeq DEF QInv, Ordered
  <2>2. \A k \in 1 .. Len(queue) :
          queue[k] <= i /\ ((k \in 1 .. Len(pending) /\ queue[k] = pending[k]) \/ (queue[k] = i /\ k = Len(queue)))
    <3> SUFFICES ASSUME NEW k \in 1 .. Len(queue)
                 PROVE  queue[k] <= i /\ (\/ k \in 1 .. Len(pending) /\ queue[k] = pending[k]
                                          \/ queue[k] = i /\ k = Len(queue))
      OBVIOUS
    <3>1. k \in 1 .. Len(pending) \/ k = Len(pending) + 1
      BY <1>1, <1>3
    <3>2. CASE k \in 1 .. Len(pending)
      <4>1. queue[k] = pending[k] /\ pending[k] \in Nat /\ pending[k] <= offered
        BY <1>3, <2>1, <3>2
      <4> QED BY <1>1, <3>2, <4>1
    <3>3. CASE k = Len(pending) + 1
      <4>1. queue[k] = i
        BY <1>3, <3>3
      <4> QED BY <1>1, <1>3, <3>3, <4>1
    <3> QED BY <3>1, <3>2, <3>3
  <2>3. \A k, l \in 1 .. Len(queue) : k < l => queue[k] < queue[l]
    <3> SUFFICES ASSUME NEW k \in 1 .. Len(queue), NEW l \in 1 .. Len(queue), k < l
                 PROVE  queue[k] < queue[l]
      OBVIOUS
    <3>1. k \in 1 .. Len(pending) /\ queue[k] = pending[k]
      BY <1>1, <1>3
    <3>2. CASE l \in 1 .. Len(pending)
      BY <1>3, <3>1, <3>2 DEF QInv, Ordered
    <3>3. CASE l = Len(pending) + 1
      BY <1>1, <1>3, <2>1, <3>1, <3>3
    <3>4. l \in 1 .. Len(pending) \/ l = Len(pending) + 1
      BY <1>1, <1>3
    <3> QED BY <3>2, <3>3, <3>4
  <2>4. \A t \in Current : t.input \in Nat /\ t.input <= offered
    BY CurrentFinite DEF QInv, Ordered, TypeOK, Task
  <2>5. \A t \in Current, k \in 1 .. Len(queue) : t.input < queue[k]
    BY <1>1, <2>2, <2>4 DEF QInv, Ordered
  <2>6. \A t \in running : t.epoch <= epoch
    BY DEF QInv, Ordered
  <2>7. \A t \in Current : t.input <= i
    BY <1>1, <2>4
  <2> QED BY <1>5, <1>7, <1>8, <2>2, <2>3, <2>5, <2>6, <2>7 DEF Ordered
<1> QED BY <1>9, <1>10, <1>11, <1>12, <1>13 DEF QInv

\* A dropped input only raises the two counters.
LEMMA DroppedKeeps ==
  ASSUME QInv, Enqueue, ~(inFlight < MaxInFlight /\ pending = <<>>),
         Len(pending) >= MaxQueueDepth
  PROVE  QInv'
<1>1. /\ offered' = offered + 1 /\ dropped' = dropped + 1
      /\ UNCHANGED <<inFlight, running, started, pending, accepted, epoch>>
  BY DEF Enqueue
<1>2. Current' = Current
  BY <1>1 DEF Current
<1>3. TypeOK'
  BY <1>1 DEF QInv, TypeOK
<1>4. Ordered'
  <2>1. offered \in Nat /\ pending \in Seq(Nat)
    BY DEF QInv, TypeOK
  <2>2. \A k \in 1 .. Len(pending) : pending[k] \in Nat /\ pending[k] <= offered
    BY <2>1, ElementOfSeq DEF QInv, Ordered
  <2>3. \A t \in Current : t.input \in Nat /\ t.input <= offered
    BY CurrentFinite DEF QInv, Ordered, TypeOK, Task
  <2>4. /\ \A k \in 1 .. Len(pending) : pending[k] <= offered + 1
        /\ \A t \in Current : t.input <= offered + 1
    BY <2>1, <2>2, <2>3
  <2> QED BY <1>1, <1>2, <2>4 DEF QInv, Ordered
<1> QED BY <1>1, <1>2, <1>3, <1>4 DEF QInv, SlotsAreCounted, NoIdleSlot, StartedInOrder

\* A reset starts an epoch in which nothing runs: whatever runs is of an earlier one.
LEMMA ResetKeeps ==
  ASSUME QInv, ResetForTests
  PROVE  QInv'
<1>1. /\ epoch' = epoch + 1 /\ inFlight' = 0 /\ dropped' = 0 /\ pending' = <<>>
      /\ accepted' = <<>> /\ started' = <<>> /\ running' = running /\ offered' = offered
  BY DEF ResetForTests
<1>2. epoch \in Nat /\ \A t \in running : t.epoch \in Nat /\ t.epoch <= epoch
  BY DEF QInv, TypeOK, Task, Ordered
<1>3. Current' = {}
  BY <1>1, <1>2 DEF Current
<1>4. TypeOK' /\ IsFiniteSet(running)'
  BY <1>1, <1>2 DEF QInv, TypeOK
<1>5. SlotsAreCounted'
  BY <1>1, <1>3, FS_EmptySet, QueueAssumption DEF SlotsAreCounted
<1>6. NoIdleSlot' /\ StartedInOrder'
  BY <1>1, QueueAssumption DEF NoIdleSlot, StartedInOrder
<1>7. Ordered'
  BY <1>1, <1>2, <1>3 DEF Ordered
<1> QED BY <1>4, <1>5, <1>6, <1>7 DEF QInv

\* A completion of a forgotten epoch touches nothing this epoch counts.
LEMMA LateKeeps ==
  ASSUME QInv, NEW t \in running, Finish(t), t.epoch # epoch
  PROVE  QInv'
<1>1. running' = running \ {t} /\ UNCHANGED <<inFlight, pending, started, dropped, epoch, offered, accepted>>
  BY DEF Finish
<1>2. Current' = Current
  BY <1>1 DEF Current
<1>3. IsFiniteSet(running)'
  BY <1>1, FS_RemoveElement DEF QInv
<1> QED BY <1>1, <1>2, <1>3 DEF QInv, TypeOK, Ordered, SlotsAreCounted, NoIdleSlot, StartedInOrder

\* A completion that finds nobody waiting frees one slot.
LEMMA IdleKeeps ==
  ASSUME QInv, NEW t \in running, Finish(t), t.epoch = epoch, pending = <<>>
  PROVE  QInv'
<1>1. /\ t \in Current /\ inFlight \in Nat \ {0} /\ inFlight <= MaxInFlight
      /\ Cardinality(Current \ {t}) = inFlight - 1
  <2>1. t \in Current
    BY DEF Current
  <2>2. Cardinality(Current) # 0
    BY <2>1, CurrentFinite, FS_EmptySet
  <2>3. Cardinality(Current \ {t}) = Cardinality(Current) - 1
    BY <2>1, CurrentFinite, FS_RemoveElement
  <2>4. inFlight \in Nat \ {0} /\ inFlight <= MaxInFlight
    BY <2>2, CurrentFinite, QueueAssumption
  <2> QED BY <2>1, <2>3, <2>4, CurrentFinite
<1>2. Room(inFlight - 1, pending) = 0 /\ pending \in Seq(Nat) /\ started \in Seq(Nat) /\ inFlight - 1 \in Nat
  BY <1>1, QueueAssumption DEF Room, QInv, TypeOK
<1>3. /\ Flush(inFlight - 1, pending, running \ {t})
      /\ UNCHANGED <<dropped, epoch, offered, accepted>>
  BY DEF Finish
<1>4. inFlight' = inFlight - 1 /\ running' = running \ {t} /\ started' = started /\ pending' = pending
  BY <1>2, <1>3, FlushNone
<1>5. Current' = Current \ {t}
  BY <1>3, <1>4 DEF Current
<1>6. IsFiniteSet(running)'
  BY <1>4, FS_RemoveElement DEF QInv
<1>7. SlotsAreCounted'
  BY <1>1, <1>4, <1>5, QueueAssumption DEF SlotsAreCounted
<1>8. TypeOK'
  BY <1>2, <1>3, <1>4 DEF QInv, TypeOK
<1>9. Ordered'
  BY <1>3, <1>4, <1>5 DEF QInv, Ordered
<1> QED BY <1>3, <1>4, <1>6, <1>7, <1>8, <1>9 DEF QInv, NoIdleSlot, StartedInOrder

\* A completion that finds inputs waiting hands its slot to the oldest of them.
LEMMA HandOverKeeps ==
  ASSUME QInv, NEW t \in running, Finish(t), t.epoch = epoch, pending # <<>>
  PROVE  QInv'
<1> PICK next : next = TaskOf(pending[1])
  OBVIOUS
<1>1. /\ pending \in Seq(Nat) /\ Len(pending) \in Nat \ {0} /\ pending[1] \in Nat
      /\ started \in Seq(Nat) /\ accepted \in Seq(Nat) /\ epoch \in Nat /\ offered \in Nat
  <2>1. pending \in Seq(Nat) /\ Len(pending) \in Nat \ {0}
    BY EmptySeq DEF QInv, TypeOK
  <2> QED BY <2>1, ElementOfSeq DEF QInv, TypeOK
<1>2. inFlight = MaxInFlight /\ inFlight \in Nat \ {0}
  BY QueueAssumption DEF QInv, NoIdleSlot
<1>3. Room(inFlight - 1, pending) = 1 /\ inFlight - 1 \in Nat
  <2>1. \A m \in Nat \ {0}, l \in Nat \ {0} :
          /\ m - 1 \in Nat /\ m - (m - 1) = 1 /\ m - 1 <= m
          /\ (m - 1) + l <= m => l = 1
    OBVIOUS
  <2> QED BY <1>1, <1>2, <2>1 DEF Room
<1>4. /\ Flush(inFlight - 1, pending, running \ {t})
      /\ UNCHANGED <<dropped, epoch, offered, accepted>>
  BY DEF Finish
<1>5. /\ inFlight' = (inFlight - 1) + 1 /\ running' = (running \ {t}) \cup {next}
      /\ started' = started \o <<pending[1]>> /\ pending' = Tail(pending)
  BY <1>1, <1>3, <1>4, FlushOne
<1>6. /\ Tail(pending) \in Seq(Nat) /\ Len(Tail(pending)) = Len(pending) - 1
      /\ \A i \in 1 .. Len(Tail(pending)) : Tail(pending)[i] = pending[i + 1]
  BY <1>1, HeadTailProperties
<1>7. next.input = pending[1] /\ next.epoch = epoch /\ next \in Task
  BY <1>1 DEF TaskOf, Task
<1>8. t \in Current
  BY DEF Current
<1>9. Current' = (Current \ {t}) \cup {next}
  BY <1>4, <1>5, <1>7 DEF Current
<1>10. \A u \in Current : u.input \in Nat /\ u.input < pending[1] /\ u.input <= offered
  BY <1>1, CurrentFinite DEF QInv, Ordered, TypeOK, Task
<1>11. next \notin Current
  BY <1>1, <1>7, <1>10
<1>12. SlotsAreCounted' /\ IsFiniteSet(running)'
  <2>1. IsFiniteSet(Current \ {t}) /\ Cardinality(Current \ {t}) = inFlight - 1
    BY <1>8, CurrentFinite, FS_RemoveElement
  <2>2. Cardinality((Current \ {t}) \cup {next}) = (inFlight - 1) + 1
    BY <1>11, <2>1, FS_AddElement
  <2>3. IsFiniteSet((running \ {t}) \cup {next})
    BY FS_RemoveElement, FS_AddElement DEF QInv
  <2>4. (inFlight - 1) + 1 <= MaxInFlight
    BY <1>2
  <2> QED BY <1>5, <1>9, <2>2, <2>3, <2>4 DEF SlotsAreCounted
<1>13. TypeOK'
  <2>1. started \o <<pending[1]>> \in Seq(Nat)
    BY <1>1, ConcatProperties
  <2> QED BY <1>2, <1>4, <1>5, <1>6, <1>7, <2>1 DEF QInv, TypeOK
<1>14. NoIdleSlot'
  BY <1>1, <1>2, <1>5, <1>6, QueueAssumption DEF QInv, NoIdleSlot
<1>15. StartedInOrder'
  <2>1. pending = <<pending[1]>> \o Tail(pending)
    <3>1. pending = SubSeq(pending, 1, Len(pending))
      BY <1>1, SubSeqFull
    <3>2. 1 \in 1 .. Len(pending) /\ Len(pending) \in 1 .. Len(pending)
      BY <1>1
    <3>3. SubSeq(pending, 1, Len(pending)) = <<pending[1]>> \o SubSeq(pending, 2, Len(pending))
      BY <1>1, <3>2, SubSeqRecursiveFirst
    <3> QED BY <1>1, <3>1, <3>3, TailIsSubSeq
  <2>2. accepted = started \o (<<pending[1]>> \o Tail(pending))
    BY <2>1 DEF QInv, StartedInOrder
  <2>3. <<pending[1]>> \in Seq(Nat)
    BY <1>1
  <2>4. (started \o <<pending[1]>>) \o Tail(pending) = started \o (<<pending[1]>> \o Tail(pending))
    BY <1>1, <1>6, <2>3, ConcatSeqAppend
  <2> QED BY <1>4, <1>5, <2>2, <2>4 DEF StartedInOrder
<1>16. Ordered'
  <2>1. \A i \in 1 .. Len(pending') : i + 1 \in 1 .. Len(pending) /\ pending'[i] = pending[i + 1]
    BY <1>1, <1>5, <1>6
  <2>2. \A i \in 1 .. Len(pending') : pending'[i] <= offered
    BY <2>1 DEF QInv, Ordered
  <2>3. \A i, j \in 1 .. Len(pending') : i < j => pending'[i] < pending'[j]
    <3> SUFFICES ASSUME NEW i \in 1 .. Len(pending'), NEW j \in 1 .. Len(pending'), i < j
                 PROVE  pending[i + 1] < pending[j + 1]
      BY <2>1
    <3>1. i + 1 < j + 1
      OBVIOUS
    <3> QED BY <2>1, <3>1 DEF QInv, Ordered
  <2>4. 1 \in 1 .. Len(pending)
    BY <1>1
  <2>5. \A i \in 1 .. Len(pending') : pending[1] < pending[i + 1] /\ 1 < i + 1
    BY <2>1, <2>4 DEF QInv, Ordered
  <2>6. \A u \in Current', i \in 1 .. Len(pending') : u.input < pending'[i]
    <3> SUFFICES ASSUME NEW u \in Current', NEW i \in 1 .. Len(pending')
                 PROVE  u.input < pending[i + 1]
      BY <2>1
    <3>1. CASE u \in Current
      BY <2>1, <3>1 DEF QInv, Ordered
    <3>2. CASE u = next
      BY <1>7, <2>5, <3>2
    <3> QED BY <1>9, <3>1, <3>2
  <2>7. \A u \in Current' : u.input <= offered
    BY <1>7, <1>9, <1>10, <2>4 DEF QInv, Ordered
  <2>8. \A u \in running' : u.epoch <= epoch
    BY <1>1, <1>5, <1>7 DEF QInv, Ordered
  <2> QED BY <1>4, <2>2, <2>3, <2>6, <2>7, <2>8 DEF Ordered
<1> QED BY <1>12, <1>13, <1>14, <1>15, <1>16 DEF QInv

\* Every step keeps the invariant.
LEMMA QInvStep == QInv /\ [Next]_vars => QInv'
<1> SUFFICES ASSUME QInv, [Next]_vars PROVE QInv'
  OBVIOUS
<1>1. CASE Enqueue
  <2>1. Len(pending) \in Nat
    BY LenProperties DEF QInv, TypeOK
  <2> QED BY <1>1, <2>1, DirectKeeps, QueuedKeeps, DroppedKeeps, QueueAssumption
<1>2. CASE ResetForTests
  BY <1>2, ResetKeeps
<1>3. ASSUME NEW t \in running, Finish(t) PROVE QInv'
  BY <1>3, LateKeeps, IdleKeeps, HandOverKeeps
<1>4. CASE UNCHANGED vars
  BY <1>4 DEF vars, QInv, TypeOK, Ordered, Current, SlotsAreCounted, NoIdleSlot, StartedInOrder
<1> QED BY <1>1, <1>2, <1>3, <1>4 DEF Next

-----------------------------------------------------------------------------
(* The theorems *)

\* The parts of the invariant hold together throughout, in every epoch of the queue.
THEOREM QueueInvariant == Spec => []QInv
BY QInvInit, QInvStep, PTL DEF Spec

\* The counters and the queue keep their types (bounded-async-queue.ts: inFlight,
\* pending, droppedTotal).
THEOREM QueueTypeCorrect == Spec => []TypeOK
<1>1. QInv => TypeOK
  BY DEF QInv
<1> QED BY <1>1, QueueInvariant, PTL

\* However late the processors of an earlier epoch settle, inFlight is the number
\* of processors of this epoch that run and never passes maxInFlight.
THEOREM SlotsAreTrue == Spec => []SlotsAreCounted
<1>1. QInv => SlotsAreCounted
  BY DEF QInv
<1> QED BY <1>1, QueueInvariant, PTL

\* The queue of createBoundedAsyncQueue never holds back an input while a slot is
\* free, and never holds more than maxQueueDepth.
THEOREM NoSlotIdles == Spec => []NoIdleSlot
<1>1. QInv => NoIdleSlot
  BY DEF QInv
<1> QED BY <1>1, QueueInvariant, PTL

\* Inputs enqueue accepted are started in their order, and none is lost.
THEOREM StartsInOrder == Spec => []StartedInOrder
<1>1. QInv => StartedInOrder
  BY DEF QInv
<1> QED BY <1>1, QueueInvariant, PTL

\* enqueue drops an input only when every slot and every place is taken.
THEOREM DropsOnlyWhenFull == Spec => DroppedOnlyWhenFull
<1>1. QInv /\ [Next]_vars => [dropped' > dropped => inFlight = MaxInFlight
                                                   /\ Len(pending) = MaxQueueDepth]_vars
  <2> SUFFICES ASSUME QInv, Next, dropped' > dropped
               PROVE  inFlight = MaxInFlight /\ Len(pending) = MaxQueueDepth
    BY DEF vars
  <2>1. dropped \in Nat /\ Len(pending) \in Nat /\ inFlight \in 0 .. MaxInFlight
    BY LenProperties, CurrentFinite DEF QInv, TypeOK
  <2>2. ~ResetForTests
    BY <2>1 DEF ResetForTests
  <2>3. \A t \in running : ~Finish(t)
    BY <2>1 DEF Finish
  <2>4. Enqueue
    BY <2>2, <2>3 DEF Next
  <2>5. ~(inFlight < MaxInFlight /\ pending = <<>>) /\ Len(pending) >= MaxQueueDepth
    BY <2>1, <2>4 DEF Enqueue
  <2> QED BY <2>1, <2>5, QueueAssumption DEF QInv, NoIdleSlot
<1> QED BY <1>1, QueueInvariant, PTL DEF Spec, DroppedOnlyWhenFull
===========================================================================
