--------------------------- MODULE Capacity_proofs ---------------------------
(***************************************************************************)
(* Capacity, for any plans, resources, workers and number of faults: type  *)
(* correctness, the founding owner keeps access, an excess ends in time,   *)
(* and what a materialization leaves when nobody disturbed it: room used,  *)
(* limits kept or windowed, nothing for the next one to restore.           *)
(*                                                                         *)
(* First what an allocation keeps, by counting; then who holds the lock    *)
(* and what it has still to do, the clock and the window, and what follows *)
(* when the row is saved.                                                  *)
(***************************************************************************)
EXTENDS Capacity, FiniteSetTheorems, WellFoundedInduction, TLAPS

\* A worker that is about to read has an allocation to do.
HasWork == \A w \in Workers : pc[w] = "read" => todo[w] # <<>>

TypeInv == TypeOK /\ HasWork

-----------------------------------------------------------------------------
(* What the operators return *)

\* Allocations only name limits that exist, and there is always one to do.
LEMMA AllocationsType ==
  ASSUME NEW p \in Plans, NEW at
  PROVE  Allocations(p, at) \in Seq(Allocation) /\ Allocations(p, at) # <<>>
<1> DEFINE immediate == OverLimit(p) \ WindowedKeys
           only == [All EXCEPT !.keys = immediate]
           back == [All EXCEPT !.restoreOnly = TRUE]
<1>1. All \in Allocation
  BY DEF All, Allocation
<1>2. only \in Allocation
  BY <1>1 DEF All, Allocation, OverLimit
<1>3. back \in Allocation
  BY <1>1 DEF All, Allocation
<1>4. \/ Allocations(p, at) = <<All>>
     \/ Allocations(p, at) = <<only, back>>
     \/ Allocations(p, at) = <<back>>
  BY DEF Allocations
<1>5. ASSUME NEW x \in Allocation, NEW y \in Allocation
      PROVE  /\ <<x>> \in Seq(Allocation) /\ <<x>> # <<>>
             /\ <<x, y>> \in Seq(Allocation) /\ <<x, y>> # <<>>
  OBVIOUS
<1> HIDE DEF only, back
<1> QED
  BY <1>1, <1>2, <1>3, <1>4, <1>5

\* What is kept is among the candidates.
LEMMA KeepType ==
  ASSUME NEW on, NEW susp, NEW k, NEW limits, NEW a
  PROVE  Keep(on, susp, k, limits, a) \subseteq Candidates(on, k) /\ Candidates(on, k) \subseteq on
  BY DEF Keep, Select, Candidates

\* What is restored or suspended exists.
LEMMA PlansType ==
  ASSUME NEW on \in SUBSET Resources, NEW susp, NEW limits, NEW a
  PROVE  /\ ToRestore(on, susp, limits, a) \in SUBSET Resources
         /\ ToSuspend(on, susp, limits, a) \in SUBSET Resources
<1>1. ToRestore(on, susp, limits, a) \subseteq on
  BY KeepType DEF ToRestore
<1>2. ToSuspend(on, susp, limits, a) \subseteq on
  BY KeepType DEF ToSuspend
<1> QED
  BY <1>1, <1>2

\* The row that is saved is one.
LEMMA RowType ==
  ASSUME TypeOK, NEW p \in Plans
  PROVE  [plan |-> p, window |-> Window(p, now), ended |-> Ended(p, now)] \in Row
<1>1. now \in Times /\ now + WindowLength \in Times /\ Never \in Times
  BY CapacityAssumption DEF TypeOK, Times, Never
<1>2. row.window \in Times /\ row.ended \in Times
  BY DEF TypeOK, Row
<1>3. Window(p, now) \in Times
  BY <1>1, <1>2 DEF Window
<1>4. Ended(p, now) \in Times
  BY <1>1, <1>2 DEF Ended
<1> QED
  BY <1>3, <1>4 DEF Row

\* Subsets of the resources can be counted.
LEMMA Counting ==
  ASSUME NEW C \in SUBSET Resources
  PROVE  /\ IsFiniteSet(C) /\ Cardinality(C) \in Nat
         /\ \A D \in SUBSET C : /\ IsFiniteSet(D) /\ Cardinality(D) \in Nat
                               /\ Cardinality(D) <= Cardinality(C)
<1>1. IsFiniteSet(C)
  BY CapacityAssumption, FS_Subset
<1>2. \A D \in SUBSET C : IsFiniteSet(D) /\ Cardinality(D) <= Cardinality(C)
  BY <1>1, FS_Subset
<1> QED BY <1>1, <1>2, FS_CardinalityType

-----------------------------------------------------------------------------
(* Type correctness *)

LEMMA TypeInit == Init => TypeInv
<1> SUFFICES ASSUME Init PROVE TypeInv
  OBVIOUS
<1>1. PICK p \in Plans : row = [plan |-> p, window |-> Never, ended |-> Never]
  BY DEF Init
<1>2. Never \in Times /\ 1 \in 1..MaxTime /\ 0 \in 0..MaxFaults
  BY CapacityAssumption DEF Never, Times
<1>3. NoResult \in [row : Row, at : Times]
  BY <1>1, <1>2 DEF NoResult, Row
<1>4. enabled \in SUBSET Resources /\ suspended \in SUBSET Resources /\ row \in Row
  BY <1>1, <1>2 DEF Init, Row
<1>5. todo \in [Workers -> Seq(Allocation)] /\ result \in [Workers -> [row : Row, at : Times]]
  BY <1>3 DEF Init
<1>6. over \in [Keys -> Times] /\ settled \in Times /\ calm \in BOOLEAN
  BY <1>2 DEF Init
<1> QED
  BY <1>2, <1>4, <1>5, <1>6 DEF Init, TypeInv, TypeOK, HasWork

\* The history keeps its type whatever happens to resources and row.
LEMMA ObserveType ==
  ASSUME TypeOK, NEW grown, Observe(grown)
  PROVE  over' \in [Keys -> Times]
<1>1. now \in Times /\ Never \in Times
  BY CapacityAssumption DEF TypeOK, Times, Never
<1> QED
  BY <1>1 DEF Observe, TypeOK

LEMMA TypeStep == TypeInv /\ [Next]_vars => TypeInv'
<1> SUFFICES ASSUME TypeInv, [Next]_vars PROVE TypeInv'
  OBVIOUS
<1> USE DEF TypeInv, TypeOK, HasWork
<1>1. ASSUME NEW r \in Resources, Enable(r) PROVE TypeInv'
  BY <1>1, ObserveType DEF Enable, locals
<1>2. ASSUME NEW r \in Resources, Disable(r) PROVE TypeInv'
  BY <1>2, ObserveType DEF Disable, locals
<1>3. ASSUME NEW w \in Workers, Choose(w) PROVE TypeInv'
  <2>1. PICK k \in Keys, chosen \in Choosable :
          todo' = [todo EXCEPT ![w] =
            <<[keys |-> Keys, restoreOnly |-> FALSE, chosen |-> chosen, for |-> {k}]>>]
    BY <1>3 DEF Choose
  <2> DEFINE a == [keys |-> Keys, restoreOnly |-> FALSE, chosen |-> chosen, for |-> {k}]
  <2>2. a \in Allocation
    BY CapacityAssumption DEF Allocation
  <2>3. todo' = [todo EXCEPT ![w] = <<a>>]
    BY <2>1
  <2> HIDE DEF a
  <2>4. todo' \in [Workers -> Seq(Allocation)] /\ todo'[w] # <<>>
    BY <2>2, <2>3
  <2>5. result' \in [Workers -> [row : Row, at : Times]]
    BY <1>3, CapacityAssumption DEF Choose, Never, Times
  <2>6. pc' = [pc EXCEPT ![w] = "read"]
    BY <1>3 DEF Choose
  <2>7. HasWork'
    BY <2>3, <2>4, <2>6
  <2> QED
    BY <1>3, <2>4, <2>5, <2>6, <2>7 DEF Choose
<1>4. ASSUME NEW w \in Workers, Materialize(w) PROVE TypeInv'
  <2>1. PICK p \in Plans :
          /\ todo' = [todo EXCEPT ![w] = Allocations(p, now)]
          /\ result' = [result EXCEPT ![w] =
               [row |-> [plan |-> p, window |-> Window(p, now), ended |-> Ended(p, now)],
                at |-> now]]
    BY <1>4 DEF Materialize
  <2>2. todo' \in [Workers -> Seq(Allocation)] /\ todo'[w] # <<>>
    BY <2>1, AllocationsType
  <2>3. now \in Times
    BY CapacityAssumption DEF Times
  <2>4. result' \in [Workers -> [row : Row, at : Times]]
    BY <2>1, <2>3, RowType
  <2>5. pc' = [pc EXCEPT ![w] = "read"] /\ calm' \in BOOLEAN
    BY <1>4 DEF Materialize, Quiet
  <2>6. HasWork'
    BY <2>1, <2>2, <2>5
  <2> QED
    BY <1>4, <2>2, <2>4, <2>5, <2>6 DEF Materialize
<1>5. ASSUME NEW w \in Workers, ReadPlans(w) PROVE TypeInv'
  <2>1. restore' \in [Workers -> SUBSET Resources] /\ drop' \in [Workers -> SUBSET Resources]
    BY <1>5, PlansType DEF ReadPlans
  <2>2. todo' = [todo EXCEPT ![w] = Tail(todo[w])] /\ todo[w] \in Seq(Allocation) /\ todo[w] # <<>>
    BY <1>5 DEF ReadPlans
  <2>3. todo' \in [Workers -> Seq(Allocation)]
    BY <2>2
  <2>4. pc' = [pc EXCEPT ![w] = "restore"]
    BY <1>5 DEF ReadPlans
  <2>5. HasWork'
    BY <2>2, <2>4
  <2> QED
    BY <1>5, <2>1, <2>3, <2>4, <2>5 DEF ReadPlans
<1>6. ASSUME NEW w \in Workers, RestoreOne(w) PROVE TypeInv'
  <2>1. over' \in [Keys -> Times]
    BY <1>6, ObserveType DEF RestoreOne
  <2>2. suspended' \in SUBSET Resources /\ restore' \in [Workers -> SUBSET Resources]
    BY <1>6 DEF RestoreOne
  <2>3. calm' \in BOOLEAN
    BY <1>6 DEF RestoreOne, Disturbs
  <2> QED
    BY <1>6, <2>1, <2>2, <2>3 DEF RestoreOne
<1>7. ASSUME NEW w \in Workers, SuspendAll(w) PROVE TypeInv'
  <2>1. over' \in [Keys -> Times]
    BY <1>7, ObserveType DEF SuspendAll
  <2>2. suspended' \in SUBSET Resources /\ drop' \in [Workers -> SUBSET Resources]
    BY <1>7 DEF SuspendAll
  <2>3. calm' \in BOOLEAN
    BY <1>7 DEF SuspendAll, Disturbs
  <2>4. pc' \in [Workers -> {"idle", "lock", "read", "restore", "save"}] /\ HasWork'
    BY <1>7 DEF SuspendAll
  <2> QED
    BY <1>7, <2>1, <2>2, <2>3, <2>4 DEF SuspendAll
<1>8. ASSUME NEW w \in Workers, SaveEntitlement(w) PROVE TypeInv'
  <2>1. over' \in [Keys -> Times]
    BY <1>8, ObserveType DEF SaveEntitlement
  <2>2. row' \in Row /\ settled' \in Times
    BY <1>8 DEF SaveEntitlement
  <2>3. NoResult \in [row : Row, at : Times]
    BY CapacityAssumption DEF NoResult, Row, Times, Never
  <2>4. result' \in [Workers -> [row : Row, at : Times]]
    BY <1>8, <2>3 DEF SaveEntitlement
  <2> QED
    BY <1>8, <2>1, <2>2, <2>4 DEF SaveEntitlement, NoOne
<1>9. ASSUME NEW w \in Workers, Fails(w) PROVE TypeInv'
  <2>1. NoResult \in [row : Row, at : Times]
    BY CapacityAssumption DEF NoResult, Row, Times, Never
  <2>2. todo' \in [Workers -> Seq(Allocation)] /\ result' \in [Workers -> [row : Row, at : Times]]
    BY <1>9, <2>1 DEF Fails
  <2>3. restore' \in [Workers -> SUBSET Resources] /\ drop' \in [Workers -> SUBSET Resources]
    BY <1>9 DEF Fails
  <2>4. lock' \in Workers \cup {NoOne} /\ faults' \in 0..MaxFaults
    BY <1>9, CapacityAssumption DEF Fails
  <2>5. pc' = [pc EXCEPT ![w] = "idle"] /\ todo' = [todo EXCEPT ![w] = <<>>]
    BY <1>9 DEF Fails
  <2>6. HasWork'
    BY <2>5
  <2> QED
    BY <1>9, <2>2, <2>3, <2>4, <2>5, <2>6 DEF Fails
<1>10. CASE Tick
  BY <1>10, CapacityAssumption DEF Tick, locals
<1>11. CASE UNCHANGED vars
  BY <1>11 DEF vars, locals
<1> QED
  BY <1>1, <1>2, <1>3, <1>4, <1>5, <1>6, <1>7, <1>8, <1>9, <1>10, <1>11 DEF Next

\* The state of the allocations is what it should be, at every step of every
\* interleaving of materializations, choices, switches and failures.
THEOREM TypeCorrect == Spec => []TypeOK
<1>1. Spec => []TypeInv
  BY TypeInit, TypeStep, PTL DEF Spec
<1>2. TypeInv => TypeOK
  BY DEF TypeInv
<1> QED
  BY <1>1, <1>2, PTL

-----------------------------------------------------------------------------
(* The founding owner *)

\* Whatever the limit, even zero, and whatever is preferred: what is pinned is
\* kept, as fewer pinned resources come before it than are allowed.
LEMMA PinnedIsKept ==
  ASSUME NEW on \in SUBSET Resources, NEW k \in Keys, NEW limits \in [Keys -> Nat],
         NEW preferred, NEW r \in Founder \cap Candidates(on, k)
  PROVE  r \in Select(on, k, limits, preferred)
<1> DEFINE B == {s \in Candidates(on, k) : Before(s, r, preferred)}
           P == Candidates(Founder, k)
<1>1. B \subseteq P \ {r}
  <2> SUFFICES ASSUME NEW s \in B PROVE s \in P \ {r}
    OBVIOUS
  <2>1. s \in Founder
    BY DEF Before
  <2>2. s # r
    BY CapacityAssumption DEF Before, Candidates
  <2> QED
    BY <2>1, <2>2 DEF Candidates
<1>2. IsFiniteSet(P)
  BY Counting DEF Candidates
<1>3. r \in P
  BY DEF Candidates
<1>4. Cardinality(P \ {r}) = Cardinality(P) - 1 /\ IsFiniteSet(P \ {r})
  BY <1>2, <1>3, FS_RemoveElement
<1>5. Cardinality(B) <= Cardinality(P \ {r}) /\ IsFiniteSet(B)
  BY <1>1, <1>4, FS_Subset
<1>6. Cardinality(B) \in Nat /\ Cardinality(P) \in Nat
  BY <1>2, <1>5, FS_CardinalityType
<1>7. Pinned[k] = Cardinality(P) /\ limits[k] \in Nat
  BY DEF Pinned
<1>8. Allowed(limits, k) >= Cardinality(P)
  BY <1>6, <1>7 DEF Allowed
<1>9. Allowed(limits, k) \in Nat
  BY <1>6, <1>7 DEF Allowed
<1>10. Cardinality(B) < Allowed(limits, k)
  BY <1>4, <1>5, <1>6, <1>8, <1>9
<1> QED
  BY <1>10 DEF Select

\* No allocation, of whatever limits and with whatever choice, drops the founder.
LEMMA FounderNotDropped ==
  ASSUME NEW on \in SUBSET Resources, NEW susp, NEW limits \in [Keys -> Nat], NEW a \in Allocation
  PROVE  ToSuspend(on, susp, limits, a) \cap Founder = {}
<1> SUFFICES ASSUME NEW r \in ToSuspend(on, susp, limits, a), r \in Founder PROVE FALSE
  OBVIOUS
<1>1. PICK k \in a.keys : r \in Candidates(on, k) \ (Keep(on, susp, k, limits, a) \cup susp)
  BY DEF ToSuspend
<1>2. k \in Keys
  BY DEF Allocation
<1>3. r \in Keep(on, susp, k, limits, a)
  BY <1>1, <1>2, PinnedIsKept DEF Keep
<1> QED
  BY <1>1, <1>3

\* The founder is not suspended and on nobody's list.
FounderInv == FounderStays /\ \A w \in Workers : drop[w] \cap Founder = {}

LEMMA FounderStep == TypeInv /\ FounderInv /\ [Next]_vars => FounderInv'
<1> SUFFICES ASSUME TypeInv, FounderInv, [Next]_vars PROVE FounderInv'
  OBVIOUS
<1> USE DEF FounderInv, FounderStays
<1>1. ASSUME NEW r \in Resources, Enable(r) \/ Disable(r) PROVE FounderInv'
  BY <1>1 DEF Enable, Disable, locals
<1>2. ASSUME NEW w \in Workers, Choose(w) \/ Materialize(w) PROVE FounderInv'
  BY <1>2 DEF Choose, Materialize
<1>3. ASSUME NEW w \in Workers, ReadPlans(w) PROVE FounderInv'
  <2> DEFINE a == Head(todo[w])
             limits == LimitOf[result[w].row.plan]
  <2>1. todo[w] \in Seq(Allocation) /\ todo[w] # <<>>
    BY <1>3 DEF ReadPlans, TypeInv, TypeOK, HasWork
  <2>2. a \in Allocation
    BY <2>1
  <2>3. result[w].row.plan \in Plans
    BY DEF TypeInv, TypeOK, Row
  <2>4. limits \in [Keys -> Nat]
    BY <2>3, CapacityAssumption
  <2>5. drop' = [drop EXCEPT ![w] = ToSuspend(enabled, suspended, limits, a)]
    BY <1>3 DEF ReadPlans
  <2> HIDE DEF a, limits
  <2>6. ToSuspend(enabled, suspended, limits, a) \cap Founder = {}
    BY <2>2, <2>4, FounderNotDropped DEF TypeInv, TypeOK
  <2>7. drop \in [Workers -> SUBSET Resources] /\ suspended' = suspended
    BY <1>3 DEF ReadPlans, TypeInv, TypeOK
  <2> QED
    BY <2>5, <2>6, <2>7
<1>4. ASSUME NEW w \in Workers, RestoreOne(w) PROVE FounderInv'
  BY <1>4 DEF RestoreOne
<1>5. ASSUME NEW w \in Workers, SuspendAll(w) PROVE FounderInv'
  BY <1>5 DEF SuspendAll, TypeInv, TypeOK
<1>6. ASSUME NEW w \in Workers, SaveEntitlement(w) PROVE FounderInv'
  BY <1>6 DEF SaveEntitlement
<1>7. ASSUME NEW w \in Workers, Fails(w) PROVE FounderInv'
  BY <1>7 DEF Fails, TypeInv, TypeOK
<1>8. CASE Tick \/ UNCHANGED vars
  BY <1>8 DEF Tick, vars, locals
<1> QED
  BY <1>1, <1>2, <1>3, <1>4, <1>5, <1>6, <1>7, <1>8 DEF Next

\* The founding owner is never suspended: a plan without seats, a choice that
\* leaves the owner out, races and failures included.
THEOREM FounderSafe == Spec => []FounderStays
<1>1. Init => TypeInv /\ FounderInv
  BY TypeInit DEF Init, FounderInv, FounderStays
<1>2. TypeInv /\ FounderInv /\ [Next]_vars => (TypeInv /\ FounderInv)'
  BY TypeStep, FounderStep
<1>3. TypeInv /\ FounderInv => FounderStays
  BY DEF FounderInv
<1> QED
  BY <1>1, <1>2, <1>3, PTL DEF Spec
-----------------------------------------------------------------------------
(* What a selection keeps *)

\* selectResourcesWithinLimit on any set of candidates and any limit.
Kept(C, n, preferred) ==
  {r \in C : Cardinality({s \in C : Before(s, r, preferred)}) < n}

\* Those of the candidates that come before r.
Ahead(C, r, preferred) == {s \in C : Before(s, r, preferred)}

\* Pinned, preferred, oldest: the order is strict and total.
LEMMA BeforeOrder ==
  ASSUME NEW preferred, NEW r \in Resources, NEW s \in Resources, NEW t \in Resources
  PROVE  /\ ~Before(r, r, preferred)
         /\ Before(r, s, preferred) /\ Before(s, t, preferred) => Before(r, t, preferred)
         /\ r # s => Before(r, s, preferred) \/ Before(s, r, preferred)
<1>1. r \in Nat /\ s \in Nat /\ t \in Nat
  BY CapacityAssumption
<1> QED BY <1>1 DEF Before

\* Whoever comes earlier has fewer before it.
LEMMA RankGrows ==
  ASSUME NEW C \in SUBSET Resources, NEW preferred, NEW r \in C, NEW s \in C,
         Before(s, r, preferred)
  PROVE  Cardinality(Ahead(C, s, preferred)) < Cardinality(Ahead(C, r, preferred))
<1> DEFINE A == Ahead(C, r, preferred)
           B == Ahead(C, s, preferred)
<1>1. s \in A /\ s \notin B
  BY BeforeOrder DEF Ahead
<1>2. B \subseteq A \ {s}
  <2> SUFFICES ASSUME NEW t \in B PROVE t \in A \ {s}
    OBVIOUS
  <2>1. t \in C /\ Before(t, s, preferred)
    BY DEF Ahead
  <2>2. Before(t, r, preferred)
    BY <2>1, BeforeOrder
  <2> QED BY <1>1, <2>1, <2>2 DEF Ahead
<1>3. A \subseteq C
  BY DEF Ahead
<1> HIDE DEF A, B
<1>4. IsFiniteSet(A) /\ Cardinality(A) \in Nat
  BY <1>3, Counting
<1>5. Cardinality(A \ {s}) = Cardinality(A) - 1
  BY <1>1, <1>4, FS_RemoveElement
<1>6. Cardinality(B) <= Cardinality(A \ {s}) /\ Cardinality(B) \in Nat
  <2>1. A \ {s} \in SUBSET Resources
    BY <1>3
  <2> QED BY <1>2, <2>1, Counting
<1> QED BY <1>4, <1>5, <1>6 DEF A, B

\* What is kept comes before what is not.
LEMMA KeptFirst ==
  ASSUME NEW C \in SUBSET Resources, NEW n \in Nat, NEW preferred,
         NEW r \in Kept(C, n, preferred), NEW s \in C \ Kept(C, n, preferred)
  PROVE  Before(r, s, preferred)
<1>1. r \in C /\ s \in C /\ r # s
  BY DEF Kept
<1>2. ASSUME Before(s, r, preferred) PROVE FALSE
  <2>1. Cardinality(Ahead(C, s, preferred)) < Cardinality(Ahead(C, r, preferred))
    BY <1>1, <1>2, RankGrows
  <2>2. Cardinality(Ahead(C, r, preferred)) < n /\ ~(Cardinality(Ahead(C, s, preferred)) < n)
    BY <1>1 DEF Kept, Ahead
  <2>3. Cardinality(Ahead(C, s, preferred)) \in Nat /\ Cardinality(Ahead(C, r, preferred)) \in Nat
    BY Counting DEF Ahead
  <2> QED BY <2>1, <2>2, <2>3
<1> QED BY <1>1, <1>2, BeforeOrder

\* A set of numbers that is not empty has a least one.
LEMMA HasLeast ==
  ASSUME NEW S \in SUBSET Nat, S # {}
  PROVE  \E n \in S : \A m \in S : n <= m
<1>1. \E n \in S : \A m \in S : <<m, n>> \notin OpToRel(<, Nat)
  BY NatLessThanWellFounded, WFMin
<1>2. \A n, m \in Nat : <<m, n>> \notin OpToRel(<, Nat) => n <= m
  BY DEF OpToRel
<1> QED BY <1>1, <1>2

\* The limit is respected, and filled while there are candidates.
LEMMA KeptSize ==
  ASSUME NEW C \in SUBSET Resources, NEW n \in Nat, NEW preferred
  PROVE  /\ Cardinality(Kept(C, n, preferred)) <= n
         /\ Kept(C, n, preferred) # C => Cardinality(Kept(C, n, preferred)) >= n
<1> DEFINE K == Kept(C, n, preferred)
           rank(r) == Cardinality(Ahead(C, r, preferred))
<1>1. \A r \in C : rank(r) \in Nat
  BY Counting DEF Ahead
<1>2. K \subseteq C /\ (\A r \in C : r \in K <=> rank(r) < n)
  BY DEF Kept, Ahead
<1>3. \A r, s \in C : Before(s, r, preferred) => rank(s) < rank(r)
  BY RankGrows
<1>4. IsFiniteSet(K) /\ Cardinality(K) \in Nat
  BY <1>2, Counting
<1>5. \A r \in C : IsFiniteSet(Ahead(C, r, preferred)) /\ Ahead(C, r, preferred) \subseteq C
  BY Counting DEF Ahead
<1> HIDE DEF K, rank
<1>6. Cardinality(K) <= n
  <2>1. CASE K = {}
    BY <2>1, FS_EmptySet
  <2>2. CASE K # {}
    <3> DEFINE slack == {n - rank(r) : r \in K}
    <3>1. slack \in SUBSET Nat /\ slack # {}
      BY <1>1, <1>2, <2>2
    <3>2. PICK m \in slack : \A x \in slack : m <= x
      BY <3>1, HasLeast
    <3>3. PICK r \in K : m = n - rank(r)
      BY <3>2
    <3>4. r \in C /\ \A s \in K : ~Before(r, s, preferred)
      <4> SUFFICES ASSUME NEW s \in K, Before(r, s, preferred) PROVE FALSE
        BY <1>2
      <4>1. rank(r) < rank(s) /\ rank(r) \in Nat /\ rank(s) \in Nat /\ r \in C /\ s \in C
        BY <1>1, <1>2, <1>3
      <4>2. n - rank(r) <= n - rank(s)
        BY <3>2, <3>3
      <4> QED BY <3>1, <4>1, <4>2
    <3>5. K \subseteq Ahead(C, r, preferred) \cup {r}
      BY <1>2, <3>4, BeforeOrder DEF Ahead
    <3>6. r \notin Ahead(C, r, preferred)
      BY <3>4, BeforeOrder DEF Ahead
    <3>7. /\ Cardinality(Ahead(C, r, preferred) \cup {r}) = rank(r) + 1
          /\ IsFiniteSet(Ahead(C, r, preferred) \cup {r})
      BY <1>5, <3>4, <3>6, FS_AddElement DEF rank
    <3>8. Cardinality(K) <= rank(r) + 1
      BY <3>5, <3>7, FS_Subset
    <3>9. rank(r) < n /\ rank(r) \in Nat
      BY <1>1, <1>2, <3>4
    <3> QED BY <1>4, <3>8, <3>9
  <2> QED BY <2>1, <2>2
<1>7. ASSUME K # C PROVE Cardinality(K) >= n
  <2> DEFINE out == {rank(r) : r \in C \ K}
  <2>1. out \in SUBSET Nat /\ out # {}
    BY <1>1, <1>2, <1>7
  <2>2. PICK m \in out : \A x \in out : m <= x
    BY <2>1, HasLeast
  <2>3. PICK r \in C \ K : m = rank(r)
    BY <2>2
  <2>4. Ahead(C, r, preferred) \subseteq K
    <3> SUFFICES ASSUME NEW s \in C, Before(s, r, preferred), s \notin K PROVE FALSE
      BY DEF Ahead
    <3>1. rank(s) < rank(r) /\ rank(s) \in Nat /\ rank(r) \in Nat
      BY <1>1, <1>3, <2>3
    <3>2. rank(r) <= rank(s)
      BY <2>2, <2>3
    <3> QED BY <3>1, <3>2
  <2>5. rank(r) <= Cardinality(K)
    BY <1>4, <2>4, FS_Subset DEF rank
  <2>6. rank(r) >= n /\ rank(r) \in Nat
    BY <1>1, <1>2, <2>3
  <2> QED BY <1>4, <2>5, <2>6
<1> QED BY <1>6, <1>7 DEF K
\* Only the preference among the candidates matters.
LEMMA KeptLocal ==
  ASSUME NEW C, NEW n, NEW P, NEW Q, P \cap C = Q \cap C
  PROVE  Kept(C, n, P) = Kept(C, n, Q)
<1>1. \A r, s \in C : Before(s, r, P) <=> Before(s, r, Q)
  BY DEF Before
<1>2. \A r \in C : {s \in C : Before(s, r, P)} = {s \in C : Before(s, r, Q)}
  BY <1>1
<1> QED BY <1>2 DEF Kept

LEMMA AllowedType ==
  ASSUME NEW k \in Keys, NEW limits \in [Keys -> Nat]
  PROVE  Allowed(limits, k) \in Nat /\ limits[k] <= Allowed(limits, k) /\ limits[k] \in Nat
<1>1. Candidates(Founder, k) \in SUBSET Resources
  BY CapacityAssumption DEF Candidates, OfKey
<1>2. Pinned[k] \in Nat
  BY <1>1, Counting DEF Pinned
<1>3. limits[k] \in Nat
  OBVIOUS
<1> QED BY <1>2, <1>3 DEF Allowed

LEMMA SelectIsKept ==
  ASSUME NEW on, NEW k, NEW limits, NEW preferred
  PROVE  Select(on, k, limits, preferred) = Kept(Candidates(on, k), Allowed(limits, k), preferred)
  BY DEF Select, Kept

\* Candidates are of their kind.
LEMMA CandidatesType ==
  ASSUME NEW on, NEW k \in Keys
  PROVE  /\ Candidates(on, k) \in SUBSET Resources /\ Candidates(on, k) \subseteq on
         /\ \A r \in Candidates(on, k) : KeyOf[r] = k
  BY DEF Candidates, OfKey

-----------------------------------------------------------------------------
(* What an allocation does *)

Outcome(on, susp, limits, a) ==
  (susp \ ToRestore(on, susp, limits, a)) \cup ToSuspend(on, susp, limits, a)

\* An allocation works on every kind by itself.
LEMMA PerKind ==
  ASSUME NEW on \in SUBSET Resources, NEW susp, NEW limits, NEW a \in Allocation, NEW k \in Keys
  PROVE  /\ Candidates(on, k) \cap ToRestore(on, susp, limits, a) =
              IF k \in a.keys THEN Keep(on, susp, k, limits, a) \cap susp ELSE {}
         /\ Candidates(on, k) \cap ToSuspend(on, susp, limits, a) =
              IF k \in a.keys /\ ~a.restoreOnly
              THEN Candidates(on, k) \ (Keep(on, susp, k, limits, a) \cup susp) ELSE {}
<1> DEFINE C(j) == Candidates(on, j)
           K(j) == Keep(on, susp, j, limits, a)
<1>1. a.keys \subseteq Keys
  BY DEF Allocation
<1>2. \A j \in Keys : K(j) \subseteq C(j)
  BY KeepType
<1>3. \A j \in Keys : j # k => C(j) \cap C(k) = {}
  BY DEF Candidates, OfKey
<1> HIDE DEF C, K
<1>4. C(k) \cap (UNION {K(j) \cap susp : j \in a.keys}) = IF k \in a.keys THEN K(k) \cap susp ELSE {}
  BY <1>1, <1>2, <1>3
<1>5. C(k) \cap (UNION {C(j) \ (K(j) \cup susp) : j \in a.keys}) =
        IF k \in a.keys THEN C(k) \ (K(k) \cup susp) ELSE {}
  BY <1>1, <1>3
<1>6. ToRestore(on, susp, limits, a) = UNION {K(j) \cap susp : j \in a.keys}
  BY DEF ToRestore, K
<1>7. ToSuspend(on, susp, limits, a) =
        IF a.restoreOnly THEN {} ELSE UNION {C(j) \ (K(j) \cup susp) : j \in a.keys}
  BY DEF ToSuspend, C, K
<1>8. /\ C(k) \cap ToRestore(on, susp, limits, a) = IF k \in a.keys THEN K(k) \cap susp ELSE {}
      /\ C(k) \cap ToSuspend(on, susp, limits, a) =
           IF k \in a.keys /\ ~a.restoreOnly THEN C(k) \ (K(k) \cup susp) ELSE {}
  BY <1>4, <1>5, <1>6, <1>7
<1> QED BY <1>8 DEF C, K

\* What is suspended of a kind after an allocation.
LEMMA OutcomeOf ==
  ASSUME NEW on \in SUBSET Resources, NEW susp, NEW limits, NEW a \in Allocation, NEW k \in Keys
  PROVE  Candidates(on, k) \cap Outcome(on, susp, limits, a) =
           IF k \notin a.keys THEN Candidates(on, k) \cap susp
           ELSE IF a.restoreOnly
                THEN (Candidates(on, k) \cap susp) \ Keep(on, susp, k, limits, a)
                ELSE Candidates(on, k) \ Keep(on, susp, k, limits, a)
<1> DEFINE C == Candidates(on, k)
           K == Keep(on, susp, k, limits, a)
           R == ToRestore(on, susp, limits, a)
           D == ToSuspend(on, susp, limits, a)
<1>1. K \subseteq C
  BY KeepType
<1>2. C \cap R = IF k \in a.keys THEN K \cap susp ELSE {}
  BY PerKind
<1>3. C \cap D = IF k \in a.keys /\ ~a.restoreOnly THEN C \ (K \cup susp) ELSE {}
  BY PerKind
<1> HIDE DEF C, K, R, D
<1>4. C \cap ((susp \ R) \cup D) = ((C \cap susp) \ (C \cap R)) \cup (C \cap D)
  OBVIOUS
<1>5. C \cap ((susp \ R) \cup D) = IF k \notin a.keys THEN C \cap susp
                                 ELSE IF a.restoreOnly THEN (C \cap susp) \ K ELSE C \ K
  BY <1>1, <1>2, <1>3, <1>4
<1> QED BY <1>5 DEF Outcome, C, K, R, D

\* The same of an allocation that only restores.
LEMMA OutcomeRestored ==
  ASSUME NEW on \in SUBSET Resources, NEW susp, NEW limits, NEW a \in Allocation, NEW k \in Keys,
         k \in a.keys, a.restoreOnly
  PROVE  Candidates(on, k) \cap Outcome(on, susp, limits, a) =
           (Candidates(on, k) \cap susp) \ Keep(on, susp, k, limits, a)
  BY OutcomeOf

-----------------------------------------------------------------------------
(* What is preferred *)

\* The connections that stay, as far as rules look at them.
Stays(on, susp, k, limits) ==
  UNION {Select(on, j, limits, Resources \ susp) :
           j \in {KeyOf[c] : c \in {Watches[r] : r \in Candidates(on, k)} \ {0}}}

LEMMA PreferredOf ==
  ASSUME NEW on, NEW susp, NEW k, NEW limits, NEW a, a.for = {}
  PROVE  Preferred(on, susp, k, limits, a) =
           {r \in Resources \ susp : Watches[r] \in Stays(on, susp, k, limits) \cup {0}}
  BY DEF Preferred, Stays

\* Connections are kept by what is active alone.
LEMMA KeepWatched ==
  ASSUME NEW on \in SUBSET Resources, NEW susp, NEW limits, NEW k \in Keys, Independent(k),
         NEW a, a.for = {}
  PROVE  Keep(on, susp, k, limits, a) = Select(on, k, limits, Resources \ susp)
<1> DEFINE C == Candidates(on, k)
           P == Preferred(on, susp, k, limits, a)
<1>1. \A r \in C : Watches[r] = 0 /\ r \in Resources
  BY DEF Independent, Candidates, OfKey
<1>2. P \cap C = (Resources \ susp) \cap C
  BY <1>1, PreferredOf
<1> HIDE DEF C, P
<1>3. \A n : Kept(C, n, P) = Kept(C, n, Resources \ susp)
  BY <1>2, KeptLocal
<1> QED BY <1>3, SelectIsKept DEF Keep, C, P

-----------------------------------------------------------------------------
(* What an allocation achieves *)

\* Fewer resources use no more of a limit.
LEMMA UsageShrinks ==
  ASSUME NEW on \in SUBSET Resources, NEW susp, NEW on2, NEW susp2, NEW k,
         Candidates(on2, k) \ susp2 \subseteq Candidates(on, k) \ susp
  PROVE  /\ Usage(on2, susp2, k) <= Usage(on, susp, k)
         /\ Usage(on2, susp2, k) \in Nat /\ Usage(on, susp, k) \in Nat
<1>1. Candidates(on, k) \ susp \in SUBSET Resources
  BY DEF Candidates
<1> QED BY <1>1, Counting DEF Usage

\* A kind that is allocated uses no more than its limit.
LEMMA AllocatedFits ==
  ASSUME NEW on \in SUBSET Resources, NEW susp, NEW limits \in [Keys -> Nat],
         NEW a \in Allocation, NEW k \in a.keys, ~a.restoreOnly
  PROVE  /\ Usage(on, Outcome(on, susp, limits, a), k) <= Allowed(limits, k)
         /\ Usage(on, susp \cup ToSuspend(on, susp, limits, a), k) <= Allowed(limits, k)
<1> DEFINE C == Candidates(on, k)
           K == Keep(on, susp, k, limits, a)
           new == Outcome(on, susp, limits, a)
           D == ToSuspend(on, susp, limits, a)
<1>1. k \in Keys
  BY DEF Allocation
<1>2. C \in SUBSET Resources /\ K \subseteq C
  BY <1>1, CandidatesType, KeepType
<1>3. C \cap new = C \ K
  BY <1>1, OutcomeOf
<1>4. C \cap D = C \ (K \cup susp)
  BY <1>1, PerKind
<1>5. Allowed(limits, k) \in Nat
  BY <1>1, AllowedType
<1>6. Cardinality(K) <= Allowed(limits, k)
  BY <1>2, <1>5, KeptSize, SelectIsKept DEF Keep
<1>7. Usage(on, new, k) = Cardinality(C \ new) /\ Usage(on, susp \cup D, k) = Cardinality(C \ (susp \cup D))
  BY DEF Usage
<1> HIDE DEF C, K, new, D
<1>8. C \ new \subseteq K /\ C \ (susp \cup D) \subseteq K
  BY <1>2, <1>3, <1>4
<1>9. K \in SUBSET Resources
  BY <1>2
<1>10. /\ Cardinality(C \ new) <= Cardinality(K) /\ Cardinality(C \ (susp \cup D)) <= Cardinality(K)
      /\ Cardinality(C \ new) \in Nat /\ Cardinality(C \ (susp \cup D)) \in Nat /\ Cardinality(K) \in Nat
  BY <1>8, <1>9, Counting
<1> QED BY <1>5, <1>6, <1>7, <1>10 DEF new, D

\* After an allocation, restoring or not, nothing is suspended that has room.
LEMMA AllocatedFills ==
  ASSUME NEW on \in SUBSET Resources, NEW susp, NEW limits \in [Keys -> Nat],
         NEW a \in Allocation, NEW k \in a.keys,
         Candidates(on, k) \cap Outcome(on, susp, limits, a) # {}
  PROVE  Usage(on, Outcome(on, susp, limits, a), k) >= Allowed(limits, k)
<1> DEFINE C == Candidates(on, k)
           K == Keep(on, susp, k, limits, a)
           new == Outcome(on, susp, limits, a)
<1>1. k \in Keys
  BY DEF Allocation
<1>2. C \in SUBSET Resources /\ K \subseteq C
  BY <1>1, CandidatesType, KeepType
<1>3. C \cap new = IF a.restoreOnly THEN (C \cap susp) \ K ELSE C \ K
  BY <1>1, OutcomeOf
<1>4. Allowed(limits, k) \in Nat
  BY <1>1, AllowedType
<1>5. K # C => Cardinality(K) >= Allowed(limits, k)
  BY <1>2, <1>4, KeptSize, SelectIsKept DEF Keep
<1>6. Usage(on, new, k) = Cardinality(C \ new) /\ C \cap new # {}
  BY DEF Usage
<1> HIDE DEF C, K, new
<1>7. K # C /\ K \subseteq C \ new /\ C \ new \in SUBSET Resources
  BY <1>2, <1>3, <1>6
<1>8. Cardinality(K) <= Cardinality(C \ new) /\ Cardinality(C \ new) \in Nat /\ Cardinality(K) \in Nat
  BY <1>7, Counting
<1> QED BY <1>4, <1>5, <1>6, <1>7, <1>8 DEF new

\* What is active is pinned or preferred and so comes first: in a kind that fits
\* all of it is kept.
LEMMA ActiveKept ==
  ASSUME NEW on \in SUBSET Resources, NEW susp, NEW limits \in [Keys -> Nat],
         NEW a, a.for = {}, NEW k \in Keys, Independent(k),
         susp \cap Founder = {}, Usage(on, susp, k) <= Allowed(limits, k)
  PROVE  Candidates(on, k) \ susp \subseteq Keep(on, susp, k, limits, a)
<1> DEFINE C == Candidates(on, k)
           K == Keep(on, susp, k, limits, a)
           n == Allowed(limits, k)
           P == Resources \ susp
<1>2. C \in SUBSET Resources /\ n \in Nat
  BY CandidatesType, AllowedType
<1>4. K = Kept(C, n, P)
  BY KeepWatched, SelectIsKept
<1>5. Cardinality(C \ susp) <= n
  BY DEF Usage
<1> HIDE DEF C, K, n
<1>7. ASSUME NEW r \in C \ susp PROVE r \in K
  <2> DEFINE A == C \ susp
  <2>1. IsFiniteSet(A) /\ Cardinality(A) \in Nat
    BY <1>2, Counting
  <2>2. IsFiniteSet(A \ {r}) /\ Cardinality(A \ {r}) = Cardinality(A) - 1
    BY <1>7, <2>1, FS_RemoveElement
  <2>3. Ahead(C, r, P) \subseteq A \ {r}
    <3> SUFFICES ASSUME NEW s \in C, Before(s, r, P) PROVE s \in A \ {r}
      BY DEF Ahead
    <3>1. s \in Resources /\ r \in Resources /\ r \in P
      BY <1>2, <1>7
    <3>2. s # r
      BY <3>1, BeforeOrder
    <3>3. s \in Founder \/ s \in P
      BY <3>1 DEF Before
    <3> QED BY <3>2, <3>3
  <2>4. Cardinality(Ahead(C, r, P)) <= Cardinality(A \ {r}) /\ Cardinality(Ahead(C, r, P)) \in Nat
    BY <2>2, <2>3, FS_Subset, FS_CardinalityType
  <2>5. Cardinality(Ahead(C, r, P)) < n
    BY <1>2, <1>5, <2>1, <2>2, <2>4
  <2> QED BY <1>4, <1>7, <2>5 DEF Kept, Ahead
<1> QED BY <1>7 DEF C, K

\* Where what is suspended has no room, none of it is kept: all that is active
\* comes before it, but for what is pinned.
LEMMA NothingKept ==
  ASSUME NEW on \in SUBSET Resources, NEW susp, NEW limits \in [Keys -> Nat],
         NEW a, a.for = {}, NEW k \in Keys, Independent(k),
         susp \cap Founder = {}, Usage(on, susp, k) >= Allowed(limits, k)
  PROVE  Keep(on, susp, k, limits, a) \cap susp = {}
<1> DEFINE C == Candidates(on, k)
           K == Keep(on, susp, k, limits, a)
           n == Allowed(limits, k)
           P == Resources \ susp
<1>1. C \in SUBSET Resources /\ n \in Nat
  BY CandidatesType, AllowedType
<1>2. K = Kept(C, n, P)
  BY KeepWatched, SelectIsKept
<1>3. Cardinality(C \ susp) >= n
  BY DEF Usage
<1> HIDE DEF C, K, n
<1>4. ASSUME NEW r \in K \cap susp PROVE FALSE
  <2>1. r \in C /\ Cardinality(Ahead(C, r, P)) < n
    BY <1>2, <1>4 DEF Kept, Ahead
  <2>2. C \ susp \subseteq Ahead(C, r, P)
    <3> SUFFICES ASSUME NEW s \in C \ susp PROVE Before(s, r, P)
      BY DEF Ahead
    <3>1. s \in P /\ r \notin P /\ r \notin Founder
      BY <1>1, <1>4
    <3> QED BY <3>1 DEF Before
  <2>3. /\ Cardinality(C \ susp) <= Cardinality(Ahead(C, r, P))
        /\ Cardinality(C \ susp) \in Nat /\ Cardinality(Ahead(C, r, P)) \in Nat
    <3>1. Ahead(C, r, P) \in SUBSET Resources
      BY <1>1 DEF Ahead
    <3> QED BY <2>2, <3>1, Counting
  <2> QED BY <1>1, <1>3, <2>1, <2>3
<1> QED BY <1>4 DEF K

\* Restoring into a kind that fits leaves it fitting.
LEMMA RestoredFits ==
  ASSUME NEW on \in SUBSET Resources, NEW susp, NEW limits \in [Keys -> Nat],
         NEW a \in Allocation, NEW k \in a.keys, a.restoreOnly, a.for = {}, Independent(k),
         susp \cap Founder = {}, Usage(on, susp, k) <= Allowed(limits, k)
  PROVE  Usage(on, Outcome(on, susp, limits, a), k) <= Allowed(limits, k)
<1> DEFINE C == Candidates(on, k)
           K == Keep(on, susp, k, limits, a)
           n == Allowed(limits, k)
           P == Resources \ susp
           new == Outcome(on, susp, limits, a)
<1>1. k \in Keys
  BY DEF Allocation
<1>2. C \in SUBSET Resources /\ K \subseteq C /\ n \in Nat
  BY <1>1, CandidatesType, KeepType, AllowedType
<1>3. C \cap new = (C \cap susp) \ K
  BY <1>1, OutcomeRestored
<1>4. K = Kept(C, n, P)
  BY <1>1, KeepWatched, SelectIsKept
<1>5. Cardinality(C \ susp) <= n /\ Usage(on, new, k) = Cardinality(C \ new)
  BY DEF Usage
<1>6. Cardinality(K) <= n
  BY <1>2, <1>4, KeptSize
<1> HIDE DEF C, K, n, new
<1>7. C \ susp \subseteq K
  BY <1>1, ActiveKept DEF C, K
<1>8. C \ new \subseteq K
  BY <1>3, <1>7
<1>9. Cardinality(C \ new) <= Cardinality(K) /\ Cardinality(C \ new) \in Nat /\ Cardinality(K) \in Nat
  <2>1. K \in SUBSET Resources
    BY <1>2
  <2> QED BY <1>8, <2>1, Counting
<1>10. Usage(on, new, k) <= n
  BY <1>2, <1>5, <1>6, <1>9
<1> QED BY <1>10 DEF new, n

\* What is not allocated stays as it was; what is only restored is not suspended.
LEMMA LeftAlone ==
  ASSUME NEW on \in SUBSET Resources, NEW susp, NEW limits, NEW a \in Allocation, NEW k \in Keys,
         k \notin a.keys \/ a.restoreOnly
  PROVE  /\ Usage(on, susp \cup ToSuspend(on, susp, limits, a), k) = Usage(on, susp, k)
         /\ k \notin a.keys => Usage(on, Outcome(on, susp, limits, a), k) = Usage(on, susp, k)
<1> DEFINE C == Candidates(on, k)
           D == ToSuspend(on, susp, limits, a)
           new == Outcome(on, susp, limits, a)
<1>1. C \cap D = {}
  BY PerKind
<1>2. k \notin a.keys => C \cap new = C \cap susp
  BY OutcomeOf
<1> HIDE DEF C, D, new
<1>3. C \ (susp \cup D) = C \ susp /\ (k \notin a.keys => C \ new = C \ susp)
  BY <1>1, <1>2
<1> QED BY <1>3 DEF Usage, C, D, new

-----------------------------------------------------------------------------
(* Who holds the lock, and what is still to be done *)

\* The holder of the lock materializes, with the present instant; whoever else
\* allocates does so for an owner; in calm nobody else allocates.
Holders ==
  /\ lock # NoOne => pc[lock] \in {"read", "restore", "save"} /\ result[lock].at = now
  /\ \A v \in Workers : v # lock =>
       pc[v] # "save" /\ (pc[v] \in {"read", "restore"} => result[v].at = Never)
  /\ \A v \in Workers : pc[v] # "restore" => restore[v] = {} /\ drop[v] = {}
  /\ calm => \A v \in Workers : v # lock => pc[v] \in {"idle", "lock"}

Back == [All EXCEPT !.restoreOnly = TRUE]
Only(ks) == [All EXCEPT !.keys = ks]

\* The allocations of a materialization end with one that restores.
Agenda ==
  lock # NoOne =>
    /\ pc[lock] = "read" =>
         \/ todo[lock] = <<All>> \/ todo[lock] = <<Back>>
         \/ \E ks \in SUBSET Keys : todo[lock] = <<Only(ks), Back>>
    /\ pc[lock] = "restore" => todo[lock] = <<>> \/ todo[lock] = <<Back>>

Base == TypeInv /\ FounderInv /\ Holders /\ Agenda

LEMMA TheAllocations ==
  /\ All \in Allocation /\ All.keys = Keys /\ ~All.restoreOnly /\ All.for = {}
  /\ Back \in Allocation /\ Back.keys = Keys /\ Back.restoreOnly /\ Back.for = {}
  /\ \A ks \in SUBSET Keys : /\ Only(ks) \in Allocation /\ Only(ks).keys = ks
                            /\ ~Only(ks).restoreOnly /\ Only(ks).for = {}
  BY DEF All, Back, Only, Allocation

\* The three plans of a materialization.
LEMMA AllocationsAre ==
  ASSUME NEW p \in Plans, NEW at
  PROVE  \/ SuspendNow(p, at) /\ Allocations(p, at) = <<All>>
         \/ /\ ~SuspendNow(p, at)
            /\ \E ks \in SUBSET Keys : ks = OverLimit(p) \ WindowedKeys /\ Allocations(p, at) = <<Only(ks), Back>>
         \/ ~SuspendNow(p, at) /\ OverLimit(p) \subseteq WindowedKeys /\ Allocations(p, at) = <<Back>>
<1> DEFINE ks == OverLimit(p) \ WindowedKeys
<1>1. ks \in SUBSET Keys
  BY DEF OverLimit
<1>2. CASE SuspendNow(p, at)
  BY <1>2 DEF Allocations
<1>3. CASE ~SuspendNow(p, at) /\ ks # {}
  BY <1>1, <1>3 DEF Allocations, Only, Back
<1>4. CASE ~SuspendNow(p, at) /\ ks = {}
  BY <1>4 DEF Allocations, Back
<1> QED BY <1>2, <1>3, <1>4

LEMMA LockType ==
  ASSUME TypeInv
  PROVE  /\ lock \in Workers \cup {NoOne} /\ NoOne \notin Workers /\ now \in Nat /\ now # Never
         /\ pc \in [Workers -> {"idle", "lock", "read", "restore", "save"}]
  BY CapacityAssumption DEF TypeInv, TypeOK, Workers, NoOne, Never

LEMMA HoldersStep == TypeInv /\ Holders /\ [Next]_vars => Holders'
<1> SUFFICES ASSUME TypeInv, Holders, [Next]_vars PROVE Holders'
  OBVIOUS
<1> USE LockType DEF Holders
<1>t. /\ todo \in [Workers -> Seq(Allocation)] /\ DOMAIN result = Workers
      /\ DOMAIN restore = Workers /\ DOMAIN drop = Workers
  BY DEF TypeInv, TypeOK
<1>1. ASSUME NEW r \in Resources, Enable(r) \/ Disable(r) PROVE Holders'
  BY <1>1 DEF Enable, Disable, locals
<1>2. ASSUME NEW w \in Workers, Choose(w) PROVE Holders'
  <2>1. /\ pc[w] = "idle" /\ pc' = [pc EXCEPT ![w] = "read"]
        /\ result'[w].at = Never /\ \A v \in Workers \ {w} : result'[v] = result[v]
        /\ UNCHANGED <<lock, now, restore, drop>> /\ calm' = FALSE
    BY <1>2, <1>t DEF Choose
  <2>2. w # lock
    BY <2>1
  <2> QED BY <2>1, <2>2
<1>3. ASSUME NEW w \in Workers, Materialize(w) PROVE Holders'
  <2>1. /\ pc[w] \in {"idle", "lock"} /\ lock = NoOne /\ lock' = w
        /\ pc' = [pc EXCEPT ![w] = "read"] /\ calm' = Quiet(w)
        /\ UNCHANGED <<now, restore, drop>>
    BY <1>3 DEF Materialize
  <2>2. result'[w].at = now /\ \A v \in Workers \ {w} : result'[v] = result[v]
    BY <1>3, <1>t DEF Materialize
  <2> QED BY <2>1, <2>2 DEF Quiet
<1>4. ASSUME NEW w \in Workers, ReadPlans(w) PROVE Holders'
  <2>1. /\ pc[w] = "read" /\ pc' = [pc EXCEPT ![w] = "restore"]
        /\ \A v \in Workers \ {w} : restore'[v] = restore[v] /\ drop'[v] = drop[v]
        /\ UNCHANGED <<lock, now, result, calm>>
    BY <1>4, <1>t DEF ReadPlans
  <2> QED BY <2>1
<1>5. ASSUME NEW w \in Workers, RestoreOne(w) PROVE Holders'
  <2>1. /\ pc[w] = "restore" /\ \A v \in Workers \ {w} : restore'[v] = restore[v]
        /\ (calm' => calm) /\ UNCHANGED <<lock, now, pc, drop, result>>
    BY <1>5, <1>t DEF RestoreOne, Disturbs
  <2>2. \A v \in Workers : pc'[v] # "restore" => restore'[v] = {} /\ drop'[v] = {}
    BY <2>1
  <2> QED BY <2>1, <2>2
<1>6. ASSUME NEW w \in Workers, SuspendAll(w) PROVE Holders'
  <2>1. /\ pc[w] = "restore" /\ restore[w] = {} /\ drop'[w] = {}
        /\ \A v \in Workers \ {w} : drop'[v] = drop[v]
        /\ UNCHANGED <<lock, now, restore, result>>
    BY <1>6, <1>t DEF SuspendAll
  <2>2. /\ pc' = [pc EXCEPT ![w] = IF todo[w] # <<>> THEN "read"
                                   ELSE IF result[w].at = Never THEN "lock" ELSE "save"]
        /\ IF result[w].at = Never THEN calm' = FALSE ELSE calm' = calm
    BY <1>6 DEF SuspendAll, Disturbs
  <2>3. CASE w = lock
    <3>1. pc'[w] \in {"read", "save"} /\ (\A v \in Workers \ {w} : pc'[v] = pc[v]) /\ calm' = calm
      BY <2>1, <2>2, <2>3
    <3> QED BY <2>1, <2>3, <3>1
  <2>4. CASE w # lock
    <3>1. /\ pc'[w] \in {"read", "lock"} /\ (\A v \in Workers \ {w} : pc'[v] = pc[v])
          /\ calm' = FALSE /\ result[w].at = Never
      BY <2>1, <2>2, <2>4
    <3>2. lock' # NoOne => pc'[lock'] \in {"read", "restore", "save"} /\ result'[lock'].at = now'
      BY <2>1, <2>4, <3>1
    <3>3. \A v \in Workers : v # lock' =>
            pc'[v] # "save" /\ (pc'[v] \in {"read", "restore"} => result'[v].at = Never)
      BY <2>1, <2>4, <3>1
    <3>4. \A v \in Workers : pc'[v] # "restore" => restore'[v] = {} /\ drop'[v] = {}
      BY <2>1, <2>4, <3>1
    <3> QED BY <3>1, <3>2, <3>3, <3>4
  <2> QED BY <2>3, <2>4
<1>7. ASSUME NEW w \in Workers, SaveEntitlement(w) PROVE Holders'
  <2>1. /\ pc[w] = "save" /\ lock' = NoOne /\ pc' = [pc EXCEPT ![w] = "idle"]
        /\ \A v \in Workers \ {w} : result'[v] = result[v]
        /\ UNCHANGED <<now, restore, drop, calm>>
    BY <1>7, <1>t DEF SaveEntitlement
  <2> QED BY <2>1
<1>8. ASSUME NEW w \in Workers, Fails(w) PROVE Holders'
  <2>1. /\ lock' = (IF lock = w THEN NoOne ELSE lock) /\ pc' = [pc EXCEPT ![w] = "idle"]
        /\ restore'[w] = {} /\ drop'[w] = {}
        /\ \A v \in Workers \ {w} : /\ restore'[v] = restore[v] /\ drop'[v] = drop[v]
                                   /\ result'[v] = result[v]
        /\ now' = now /\ calm' = FALSE
    BY <1>8, <1>t DEF Fails
  <2> QED BY <2>1
<1>9. CASE Tick
  BY <1>9 DEF Tick, locals
<1>10. CASE UNCHANGED vars
  BY <1>10 DEF vars, locals
<1> QED
  BY <1>1, <1>2, <1>3, <1>4, <1>5, <1>6, <1>7, <1>8, <1>9, <1>10 DEF Next

LEMMA AgendaStep == TypeInv /\ Holders /\ Agenda /\ [Next]_vars => Agenda'
<1> SUFFICES ASSUME TypeInv, Holders, Agenda, [Next]_vars PROVE Agenda'
  OBVIOUS
<1> USE LockType DEF Agenda
<1>t. todo \in [Workers -> Seq(Allocation)]
  BY DEF TypeInv, TypeOK
<1>1. ASSUME NEW r \in Resources, Enable(r) \/ Disable(r) PROVE Agenda'
  BY <1>1 DEF Enable, Disable, locals
<1>2. ASSUME NEW w \in Workers, Choose(w) PROVE Agenda'
  <2>1. pc[w] = "idle" /\ lock' = lock
    BY <1>2 DEF Choose
  <2>2. w # lock
    BY <2>1 DEF Holders
  <2>3. \A v \in Workers \ {w} : pc'[v] = pc[v] /\ todo'[v] = todo[v]
    BY <1>2, <1>t DEF Choose
  <2> QED BY <2>1, <2>2, <2>3
<1>3. ASSUME NEW w \in Workers, Materialize(w) PROVE Agenda'
  <2>1. lock' = w /\ pc'[w] = "read" /\ \E p \in Plans : todo'[w] = Allocations(p, now)
    BY <1>3, <1>t DEF Materialize
  <2> QED BY <2>1, AllocationsAre
<1>4. ASSUME NEW w \in Workers, ReadPlans(w) PROVE Agenda'
  <2>1. /\ pc[w] = "read" /\ pc'[w] = "restore" /\ lock' = lock /\ todo'[w] = Tail(todo[w])
        /\ \A v \in Workers \ {w} : pc'[v] = pc[v] /\ todo'[v] = todo[v]
    BY <1>4, <1>t DEF ReadPlans
  <2>2. \A x, y : Tail(<<x>>) = <<>> /\ Tail(<<x, y>>) = <<y>>
    OBVIOUS
  <2> HIDE DEF Agenda
  <2>3. ASSUME w = lock PROVE todo'[w] = <<>> \/ todo'[w] = <<Back>>
    <3>1. \/ todo[w] = <<All>> \/ todo[w] = <<Back>>
          \/ \E ks \in SUBSET Keys : todo[w] = <<Only(ks), Back>>
      BY <2>1, <2>3 DEF Agenda
    <3>2. ASSUME NEW ks \in SUBSET Keys, todo[w] = <<Only(ks), Back>> PROVE todo'[w] = <<Back>>
      BY <2>1, <2>2, <3>2
    <3> QED BY <2>1, <2>2, <3>1, <3>2
  <2> QED BY <2>1, <2>3 DEF Agenda
<1>5. ASSUME NEW w \in Workers, RestoreOne(w) PROVE Agenda'
  BY <1>5 DEF RestoreOne
<1>6. ASSUME NEW w \in Workers, SuspendAll(w) PROVE Agenda'
  <2>1. /\ pc[w] = "restore" /\ UNCHANGED <<lock, todo, result>>
        /\ pc' = [pc EXCEPT ![w] = IF todo[w] # <<>> THEN "read"
                                   ELSE IF result[w].at = Never THEN "lock" ELSE "save"]
    BY <1>6 DEF SuspendAll
  <2>2. w = lock => pc'[w] # "restore" /\ (pc'[w] = "read" => todo[w] = <<Back>>)
    BY <2>1
  <2>3. \A v \in Workers \ {w} : pc'[v] = pc[v]
    BY <2>1
  <2> QED BY <2>1, <2>2, <2>3
<1>7. ASSUME NEW w \in Workers, SaveEntitlement(w) PROVE Agenda'
  BY <1>7 DEF SaveEntitlement
<1>8. ASSUME NEW w \in Workers, Fails(w) PROVE Agenda'
  <2>1. /\ lock' = (IF lock = w THEN NoOne ELSE lock)
        /\ \A v \in Workers \ {w} : pc'[v] = pc[v] /\ todo'[v] = todo[v]
    BY <1>8, <1>t DEF Fails
  <2> QED BY <2>1
<1>9. CASE Tick
  BY <1>9 DEF Tick, locals
<1>10. CASE UNCHANGED vars
  BY <1>10 DEF vars, locals
<1> QED
  BY <1>1, <1>2, <1>3, <1>4, <1>5, <1>6, <1>7, <1>8, <1>9, <1>10 DEF Next

LEMMA BaseInit == Init => Base
<1> SUFFICES ASSUME Init PROVE Base
  OBVIOUS
<1>1. TypeInv
  BY TypeInit
<1>2. FounderInv
  BY DEF Init, FounderInv, FounderStays
<1>3. Holders /\ Agenda
  BY DEF Init, Holders, Agenda
<1> QED BY <1>1, <1>2, <1>3 DEF Base

LEMMA BaseStep == Base /\ [Next]_vars => Base'
  BY TypeStep, FounderStep, HoldersStep, AgendaStep DEF Base

-----------------------------------------------------------------------------
(* Time *)

\* No unit passes without a materialization; a window is granted by one and has
\* not ended by the last one.
Clock ==
  /\ settled \in {now - 1, now}
  /\ \A k \in Keys : over[k] <= now
  /\ row.window # Never => settled < row.window /\ row.window <= settled + WindowLength

\* The window to be saved has not ended, and one that runs is not prolonged.
Saving ==
  lock # NoOne /\ result[lock].row.window # Never =>
    /\ now < result[lock].row.window /\ result[lock].row.window <= now + WindowLength
    /\ row.window # Never => result[lock].row.window = row.window

\* The history agrees with the row and the resources.
Excess == \A k \in Keys : over[k] # Never <=> Usage(enabled, suspended, k) > Allowed(Limits, k)

LEMMA TimeType ==
  ASSUME TypeInv
  PROVE  /\ now \in Nat /\ 1 <= now /\ settled \in Nat /\ row.window \in Nat
         /\ WindowLength \in Nat /\ 1 <= WindowLength /\ Never \in Nat
         /\ \A k \in Keys : over[k] \in Nat
         /\ \A w \in Workers : result[w].row.window \in Nat
<1>1. WindowLength \in Nat /\ 1 <= WindowLength /\ MaxTime \in Nat
  BY CapacityAssumption
<1>2. Times \subseteq Nat /\ now \in Nat /\ 1 <= now
  BY <1>1 DEF Times, TypeInv, TypeOK
<1>3. settled \in Nat /\ row.window \in Nat /\ \A k \in Keys : over[k] \in Nat
  BY <1>2 DEF TypeInv, TypeOK, Row
<1>4. \A w \in Workers : result[w].row.window \in Nat
  BY <1>2 DEF TypeInv, TypeOK, Row
<1> QED BY <1>1, <1>2, <1>3, <1>4 DEF Never

\* What the history may become; without additions it agrees with the rest.
LEMMA Observed ==
  ASSUME TypeInv, TypeInv', NEW grown, Observe(grown), NEW k \in Keys
  PROVE  /\ over'[k] \in {Never, now} \/ (over'[k] = over[k] /\ k \notin grown)
         /\ over'[k] # Never /\ over[k] = Never => over'[k] = now
         /\ over'[k] # Never <=> Usage(enabled', suspended', k) > Allowed(LimitOf[row'.plan], k)
<1> DEFINE fits == Usage(enabled', suspended', k) <= Allowed(LimitOf[row'.plan], k)
<1>1. over'[k] = IF fits THEN Never ELSE IF over[k] = Never \/ k \in grown THEN now ELSE over[k]
  BY DEF Observe
<1>2. Usage(enabled', suspended', k) \in Nat
  <2>1. enabled' \in SUBSET Resources
    BY DEF TypeInv, TypeOK
  <2> QED BY <2>1, UsageShrinks
<1>3. Allowed(LimitOf[row'.plan], k) \in Nat
  <2>1. row'.plan \in Plans /\ LimitOf \in [Plans -> [Keys -> Nat]]
    BY CapacityAssumption DEF TypeInv, TypeOK, Row
  <2> QED BY <2>1, AllowedType
<1>4. ~fits <=> Usage(enabled', suspended', k) > Allowed(LimitOf[row'.plan], k)
  BY <1>2, <1>3
<1>5. now # Never
  BY LockType
<1> HIDE DEF fits
<1> QED BY <1>1, <1>4, <1>5

\* Whoever saves holds the lock and works with the present instant.
LEMMA SaverHolds ==
  ASSUME Base, NEW w \in Workers, pc[w] = "save"
  PROVE  w = lock /\ lock # NoOne /\ result[w].at = now /\ now # Never
<1>1. TypeInv /\ Holders
  BY DEF Base
<1>2. w = lock
  BY <1>1 DEF Holders
<1> QED BY <1>1, <1>2, LockType DEF Holders

\* A window that a materialization finds or grants has not ended.
LEMMA WindowRuns ==
  ASSUME TypeInv, Clock, NEW p, Window(p, now) # Never
  PROVE  /\ now < Window(p, now) /\ Window(p, now) <= now + WindowLength
         /\ row.window # Never => Window(p, now) = row.window
<1>1. ~SuspendNow(p, now) /\ OverLimit(p) \cap WindowedKeys # {}
  BY DEF Window
<1>2. Window(p, now) = IF row.window # Never THEN row.window ELSE now + WindowLength
  BY <1>1 DEF Window
<1>3. row.window \notin 1..now
  BY <1>1 DEF SuspendNow
<1>4. row.window # Never => row.window <= settled + WindowLength
  BY DEF Clock
<1>5. settled <= now
  BY TimeType DEF Clock
<1>6. row.window # Never => now < row.window
  BY <1>3, TimeType DEF Never
<1> QED BY <1>2, <1>4, <1>5, <1>6, TimeType

LEMMA ClockStep == Base /\ Clock /\ Saving /\ [Next]_vars => Clock'
<1> SUFFICES ASSUME Base, Clock, Saving, [Next]_vars PROVE Clock'
  OBVIOUS
<1>t. TypeInv /\ TypeInv'
  BY BaseStep DEF Base
<1>a. ASSUME NEW grown, Observe(grown), UNCHANGED <<now, settled, row>> PROVE Clock'
  <2>1. \A k \in Keys : over'[k] <= now
    <3> SUFFICES ASSUME NEW k \in Keys PROVE over'[k] <= now
      OBVIOUS
    <3>1. over'[k] \in {Never, now} \/ over'[k] = over[k]
      BY <1>t, <1>a, Observed
    <3>2. over[k] <= now /\ Never <= now /\ now <= now
      BY <1>t, TimeType DEF Clock, Never
    <3> QED BY <3>1, <3>2
  <2> QED BY <1>a, <2>1 DEF Clock
<1>b. ASSUME UNCHANGED <<now, settled, row, over>> PROVE Clock'
  BY <1>b DEF Clock
<1>1. ASSUME NEW r \in Resources, Enable(r) \/ Disable(r) PROVE Clock'
  BY <1>1, <1>a DEF Enable, Disable
<1>2. ASSUME NEW w \in Workers, Choose(w) \/ Materialize(w) \/ ReadPlans(w) \/ Fails(w) PROVE Clock'
  BY <1>2, <1>b DEF Choose, Materialize, ReadPlans, Fails
<1>3. ASSUME NEW w \in Workers, RestoreOne(w) \/ SuspendAll(w) PROVE Clock'
  BY <1>3, <1>a DEF RestoreOne, SuspendAll
<1>4. ASSUME NEW w \in Workers, SaveEntitlement(w) PROVE Clock'
  <2>1. /\ pc[w] = "save" /\ row' = result[w].row /\ settled' = result[w].at
        /\ now' = now /\ Observe({})
    BY <1>4 DEF SaveEntitlement
  <2>2. w = lock /\ lock # NoOne /\ result[w].at = now
    BY <2>1, SaverHolds
  <2>3. row'.window # Never => now < row'.window /\ row'.window <= now + WindowLength
    BY <2>1, <2>2 DEF Saving
  <2>4. \A k \in Keys : over'[k] <= now
    <3> SUFFICES ASSUME NEW k \in Keys PROVE over'[k] <= now
      OBVIOUS
    <3>1. over'[k] \in {Never, now} \/ over'[k] = over[k]
      BY <1>t, <2>1, Observed
    <3>2. over[k] <= now /\ Never <= now /\ now <= now
      BY <1>t, TimeType DEF Clock, Never
    <3> QED BY <3>1, <3>2
  <2> QED BY <2>1, <2>2, <2>3, <2>4 DEF Clock
<1>5. CASE Tick
  <2>1. settled = now /\ now' = now + 1 /\ UNCHANGED <<row, settled, over>>
    BY <1>5 DEF Tick
  <2>2. \A k \in Keys : over[k] <= now + 1
    BY <1>t, TimeType DEF Clock
  <2> QED BY <1>t, TimeType, <2>1, <2>2 DEF Clock
<1>6. CASE UNCHANGED vars
  BY <1>6, <1>b DEF vars
<1> QED BY <1>1, <1>2, <1>3, <1>4, <1>5, <1>6 DEF Next

LEMMA SavingStep == Base /\ Clock /\ Saving /\ [Next]_vars => Saving'
<1> SUFFICES ASSUME Base, Clock, Saving, [Next]_vars PROVE Saving'
  OBVIOUS
<1>t. TypeInv /\ Holders /\ DOMAIN result = Workers /\ DOMAIN pc = Workers
  BY DEF Base, TypeInv, TypeOK
<1>a. ASSUME UNCHANGED <<lock, row, now>>, lock # NoOne => result'[lock] = result[lock] PROVE Saving'
  BY <1>a DEF Saving
<1>1. ASSUME NEW r \in Resources, Enable(r) \/ Disable(r) PROVE Saving'
  BY <1>1, <1>a DEF Enable, Disable, locals
<1>2. ASSUME NEW w \in Workers, Choose(w) PROVE Saving'
  <2>1. pc[w] = "idle" /\ (\A v \in Workers \ {w} : result'[v] = result[v])
    BY <1>2, <1>t DEF Choose
  <2>2. lock # NoOne => lock \in Workers \ {w}
    BY <1>t, <2>1, LockType DEF Holders
  <2> QED BY <1>2, <1>a, <2>1, <2>2 DEF Choose
<1>3. ASSUME NEW w \in Workers, Materialize(w) PROVE Saving'
  <2>1. /\ lock' = w /\ UNCHANGED <<now, row>>
        /\ \E p \in Plans : result'[w].row.window = Window(p, now)
    BY <1>3, <1>t DEF Materialize
  <2> QED BY <1>t, <2>1, WindowRuns DEF Saving
<1>4. ASSUME NEW w \in Workers, ReadPlans(w) \/ RestoreOne(w) \/ SuspendAll(w) PROVE Saving'
  BY <1>4, <1>a DEF ReadPlans, RestoreOne, SuspendAll
<1>5. ASSUME NEW w \in Workers, SaveEntitlement(w) PROVE Saving'
  BY <1>5 DEF SaveEntitlement, Saving
<1>6. ASSUME NEW w \in Workers, Fails(w) PROVE Saving'
  <2>1. /\ lock' = (IF lock = w THEN NoOne ELSE lock) /\ UNCHANGED <<row, now>>
        /\ \A v \in Workers \ {w} : result'[v] = result[v]
    BY <1>6, <1>t DEF Fails
  <2>2. CASE lock = w
    BY <2>1, <2>2 DEF Saving
  <2>3. CASE lock # w
    BY <1>a, <1>t, <2>1, <2>3, LockType
  <2> QED BY <2>2, <2>3
<1>7. CASE Tick
  <2>1. lock = NoOne /\ lock' = lock
    BY <1>7, <1>t, LockType DEF Tick, Holders
  <2> QED BY <2>1 DEF Saving
<1>8. CASE UNCHANGED vars
  BY <1>8, <1>a DEF vars, locals
<1> QED BY <1>1, <1>2, <1>3, <1>4, <1>5, <1>6, <1>7, <1>8 DEF Next

LEMMA ExcessStep == Base /\ Excess /\ [Next]_vars => Excess'
<1> SUFFICES ASSUME Base, Excess, [Next]_vars PROVE Excess'
  OBVIOUS
<1>t. TypeInv /\ TypeInv'
  BY BaseStep DEF Base
<1>a. ASSUME NEW grown, Observe(grown) PROVE Excess'
  BY <1>t, <1>a, Observed DEF Excess, Limits
<1>b. ASSUME UNCHANGED <<enabled, suspended, row, over>> PROVE Excess'
  BY <1>b DEF Excess, Limits
<1>1. ASSUME NEW r \in Resources, Enable(r) \/ Disable(r) PROVE Excess'
  BY <1>1, <1>a DEF Enable, Disable
<1>2. ASSUME NEW w \in Workers, Choose(w) \/ Materialize(w) \/ ReadPlans(w) \/ Fails(w) PROVE Excess'
  BY <1>2, <1>b DEF Choose, Materialize, ReadPlans, Fails
<1>3. ASSUME NEW w \in Workers, RestoreOne(w) \/ SuspendAll(w) \/ SaveEntitlement(w) PROVE Excess'
  BY <1>3, <1>a DEF RestoreOne, SuspendAll, SaveEntitlement
<1>4. CASE Tick
  BY <1>4, <1>b DEF Tick
<1>5. CASE UNCHANGED vars
  BY <1>5, <1>b DEF vars
<1> QED BY <1>1, <1>2, <1>3, <1>4, <1>5 DEF Next

-----------------------------------------------------------------------------
(* What is being done will fit *)

\* What will be suspended when the current allocation of w is done.
Target(w) == (suspended \ restore[w]) \cup drop[w]

\* The same of one kind; what a dependent kind will get back is not counted on,
\* as it may be more than there is room for.
TargetOf(w, k) == IF Independent(k) THEN Target(w) ELSE suspended \cup drop[w]

New(w) == LimitOf[result[w].row.plan]

WillFit(w, k) ==
  \/ Usage(enabled, TargetOf(w, k), k) <= Allowed(New(w), k)
  \/ k \in WindowedKeys /\ result[w].row.window # Never

\* An excess is due when it was there before this instant; in calm, any is.
Due(k) == (calm /\ Independent(k)) \/ (over[k] # Never /\ over[k] < now)

\* The holder of the lock ends what is due or saves a window for it.
Fitting ==
  lock # NoOne => \A k \in Keys : Due(k) =>
    /\ pc[lock] = "read" =>
         \/ todo[lock] = <<All>>
         \/ todo[lock] = <<Back>> /\ WillFit(lock, k)
         \/ \E ks \in SUBSET Keys : todo[lock] = <<Only(ks), Back>> /\ (k \in ks \/ WillFit(lock, k))
    /\ pc[lock] \in {"restore", "save"} => WillFit(lock, k)

\* An allocation of a materialization leaves a limit kept, or makes it so.
LEMMA PlanFits ==
  ASSUME NEW on \in SUBSET Resources, NEW susp, NEW limits \in [Keys -> Nat],
         NEW a \in Allocation, NEW k \in Keys, a.for = {}, susp \cap Founder = {},
         (k \in a.keys /\ ~a.restoreOnly) \/ Usage(on, susp, k) <= Allowed(limits, k)
  PROVE  Usage(on, IF Independent(k) THEN Outcome(on, susp, limits, a)
                   ELSE susp \cup ToSuspend(on, susp, limits, a), k) <= Allowed(limits, k)
<1>1. CASE k \in a.keys /\ ~a.restoreOnly
  BY <1>1, AllocatedFits
<1>2. CASE ~(k \in a.keys /\ ~a.restoreOnly)
  <2>1. Usage(on, susp \cup ToSuspend(on, susp, limits, a), k) <= Allowed(limits, k)
    BY <1>2, LeftAlone
  <2>2. ASSUME Independent(k) PROVE Usage(on, Outcome(on, susp, limits, a), k) <= Allowed(limits, k)
    <3>1. CASE k \notin a.keys
      <4>1. /\ Usage(on, susp \cup ToSuspend(on, susp, limits, a), k) = Usage(on, susp, k)
            /\ k \notin a.keys => Usage(on, Outcome(on, susp, limits, a), k) = Usage(on, susp, k)
        BY <3>1, LeftAlone
      <4>2. Usage(on, susp, k) <= Allowed(limits, k)
        BY <1>2
      <4> HIDE DEF Outcome
      <4> QED BY <3>1, <4>1, <4>2
    <3>2. CASE k \in a.keys
      BY <1>2, <2>2, <3>2, RestoredFits
    <3> QED BY <3>1, <3>2
  <2> QED BY <2>1, <2>2
<1> QED BY <1>1, <1>2

LEMMA NewType ==
  ASSUME TypeInv, NEW w \in Workers
  PROVE  New(w) \in [Keys -> Nat] /\ enabled \in SUBSET Resources
<1>1. result[w].row.plan \in Plans /\ enabled \in SUBSET Resources
  BY DEF TypeInv, TypeOK, Row
<1> QED BY <1>1, CapacityAssumption DEF New

\* Where nothing is added to what the holder leaves, what will fit still will.
LEMMA FittingStays ==
  ASSUME Base, Base', Fitting, UNCHANGED <<lock, now>>,
         lock # NoOne => /\ pc'[lock] = pc[lock] /\ todo'[lock] = todo[lock]
                         /\ result'[lock] = result[lock],
         lock # NoOne => \A k \in Keys : Due(k)' =>
           /\ Due(k)
           /\ Candidates(enabled', k) \ TargetOf(lock, k)' \subseteq Candidates(enabled, k) \ TargetOf(lock, k)
  PROVE  Fitting'
<1>1. SUFFICES ASSUME lock # NoOne, NEW k \in Keys, Due(k)'
      PROVE  /\ pc[lock] = "read" =>
                  \/ todo[lock] = <<All>>
                  \/ todo[lock] = <<Back>> /\ WillFit(lock, k)'
                  \/ \E ks \in SUBSET Keys : todo[lock] = <<Only(ks), Back>> /\ (k \in ks \/ WillFit(lock, k)')
             /\ pc[lock] \in {"restore", "save"} => WillFit(lock, k)'
  BY DEF Fitting, All, Back, Only
<1>2. lock \in Workers /\ TypeInv /\ Due(k)
  BY <1>1, LockType DEF Base
<1>3. WillFit(lock, k) => WillFit(lock, k)'
  <2> DEFINE target == TargetOf(lock, k)
  <2>1. Usage(enabled', target', k) <= Usage(enabled, target, k)
        /\ Usage(enabled', target', k) \in Nat /\ Usage(enabled, target, k) \in Nat
    BY <1>1, <1>2, NewType, UsageShrinks
  <2>2. New(lock)' = New(lock) /\ Allowed(New(lock), k) \in Nat
    BY <1>1, <1>2, NewType, AllowedType DEF New
  <2> HIDE DEF target
  <2>3. Usage(enabled, target, k) <= Allowed(New(lock), k)
          => Usage(enabled', target', k) <= Allowed(New(lock)', k)
    BY <2>1, <2>2
  <2> QED BY <1>1, <2>3 DEF WillFit, target
<1> QED BY <1>1, <1>2, <1>3 DEF Fitting

\* What a change of the resources does to what is due.
LEMMA DueBefore ==
  ASSUME TypeInv, TypeInv', NEW grown, Observe(grown), calm' => calm, now' = now,
         NEW k \in Keys, Due(k)'
  PROVE  Due(k) /\ (k \in grown => calm' /\ Independent(k))
<1>1. Due(k)' <=> (calm' /\ Independent(k)) \/ (over'[k] # Never /\ over'[k] < now)
  BY DEF Due
<1>2. CASE calm' /\ Independent(k)
  BY <1>2 DEF Due
<1>3. CASE over'[k] # Never /\ over'[k] < now
  <2>1. over'[k] # now
    BY <1>3, TimeType
  <2>2. over'[k] = over[k] /\ k \notin grown
    BY <1>3, <2>1, Observed
  <2> QED BY <1>3, <2>2 DEF Due
<1> QED BY <1>1, <1>2, <1>3

\* Switching on: only where there is room, so never into an excess.
LEMMA FittingEnable ==
  ASSUME Base, Excess, Fitting, [Next]_vars, NEW r \in Resources, Enable(r)
  PROVE  Fitting'
<1>t. TypeInv /\ TypeInv' /\ Base'
  BY BaseStep DEF Base
<1>1. /\ UNCHANGED <<suspended, row, lock, now, pc, todo, restore, drop, result>>
      /\ calm' = FALSE /\ Observe({}) /\ enabled' = enabled \cup {r}
      /\ Usage(enabled, suspended, KeyOf[r]) < Limits[KeyOf[r]]
  BY DEF Enable, locals
<1>2. ASSUME lock # NoOne, NEW k \in Keys, Due(k)'
      PROVE  /\ Due(k)
             /\ Candidates(enabled', k) \ TargetOf(lock, k)' \subseteq Candidates(enabled, k) \ TargetOf(lock, k)
  <2>1. Due(k)
    BY <1>1, <1>2, <1>t, DueBefore
  <2>2. over'[k] # Never /\ over'[k] # now
    BY <1>1, <1>2, <1>t, TimeType DEF Due
  <2>3. over[k] # Never
    BY <1>1, <1>t, <2>2, Observed
  <2>4. Usage(enabled, suspended, k) > Allowed(Limits, k)
    BY <2>3 DEF Excess
  <2>5. k # KeyOf[r]
    <3>1. Limits \in [Keys -> Nat]
      BY <1>t, CapacityAssumption DEF Limits, TypeInv, TypeOK, Row
    <3>2. Limits[k] <= Allowed(Limits, k) /\ Allowed(Limits, k) \in Nat /\ Limits[k] \in Nat
      BY <3>1, AllowedType
    <3>3. Usage(enabled, suspended, k) \in Nat
      BY <1>t, UsageShrinks DEF TypeInv, TypeOK
    <3> QED BY <1>1, <2>4, <3>2, <3>3
  <2>6. Candidates(enabled', k) = Candidates(enabled, k)
    BY <1>1, <2>5 DEF Candidates, OfKey
  <2>7. TargetOf(lock, k)' = TargetOf(lock, k)
    BY <1>1 DEF TargetOf, Target
  <2> QED BY <2>1, <2>6, <2>7
<1> QED BY <1>1, <1>2, <1>t, FittingStays

\* Switching off.
LEMMA FittingDisable ==
  ASSUME Base, Fitting, [Next]_vars, NEW r \in Resources, Disable(r)
  PROVE  Fitting'
<1>t. TypeInv /\ TypeInv' /\ Base'
  BY BaseStep DEF Base
<1>1. /\ UNCHANGED <<suspended, row, lock, now, pc, todo, restore, drop, result>>
      /\ calm' = FALSE /\ Observe({}) /\ enabled' = enabled \ {r}
  BY DEF Disable, locals
<1>2. ASSUME lock # NoOne, NEW k \in Keys, Due(k)'
      PROVE  /\ Due(k)
             /\ Candidates(enabled', k) \ TargetOf(lock, k)' \subseteq Candidates(enabled, k) \ TargetOf(lock, k)
  <2>1. Due(k)
    BY <1>1, <1>2, <1>t, DueBefore
  <2>2. Candidates(enabled', k) \subseteq Candidates(enabled, k)
    BY <1>1 DEF Candidates
  <2>3. TargetOf(lock, k)' = TargetOf(lock, k)
    BY <1>1 DEF TargetOf, Target
  <2> QED BY <2>1, <2>2, <2>3
<1> QED BY <1>1, <1>2, <1>t, FittingStays

\* While it allocates, the holder of the lock has at most the restoring
\* allocation left to do; whoever else allocates does so for an owner.
LEMMA AtRestore ==
  ASSUME Base, NEW w \in Workers, pc[w] = "restore"
  PROVE  /\ restore[w] \in SUBSET Resources /\ drop[w] \in SUBSET Resources
         /\ w # lock => result[w].at = Never
         /\ w = lock => /\ lock # NoOne /\ result[w].at # Never
                        /\ todo[w] = <<>> \/ todo[w] = <<Back>>
<1>1. TypeInv /\ Holders /\ Agenda
  BY DEF Base
<1>2. restore[w] \in SUBSET Resources /\ drop[w] \in SUBSET Resources
  BY <1>1 DEF TypeInv, TypeOK
<1>3. w # lock => result[w].at = Never
  BY <1>1 DEF Holders
<1>4. w = lock => lock # NoOne /\ result[w].at # Never
  BY <1>1, LockType DEF Holders
<1>5. w = lock => todo[w] = <<>> \/ todo[w] = <<Back>>
  BY <1>1, <1>4 DEF Agenda
<1> QED BY <1>2, <1>3, <1>4, <1>5

\* Restoring one resource: the holder's target stays, and what an owner or a
\* dependent kind gets back starts an excess anew.
LEMMA FittingRestoreOne ==
  ASSUME Base, Fitting, [Next]_vars, NEW w \in Workers, RestoreOne(w)
  PROVE  Fitting'
<1>t. TypeInv /\ TypeInv' /\ Base' /\ DOMAIN restore = Workers
  BY BaseStep DEF Base, TypeInv, TypeOK
<1>1. /\ pc[w] = "restore" /\ UNCHANGED <<enabled, row, lock, now, pc, todo, drop, result>>
      /\ IF result[w].at = Never THEN calm' = FALSE ELSE calm' = calm
  BY DEF RestoreOne, Disturbs
<1>2. PICK r \in restore[w] :
        /\ suspended' = suspended \ {r} /\ restore' = [restore EXCEPT ![w] = @ \ {r}]
        /\ Observe(IF result[w].at = Never \/ ~Independent(KeyOf[r]) THEN {KeyOf[r]} ELSE {})
  BY DEF RestoreOne
<1>3. /\ restore'[w] = restore[w] \ {r} /\ \A v \in Workers \ {w} : restore'[v] = restore[v]
      /\ calm' => calm
  BY <1>1, <1>2, <1>t
<1>4. /\ r \in Resources /\ (w # lock => result[w].at = Never)
      /\ (w = lock => result[w].at # Never)
  BY <1>1, AtRestore
<1>5. ASSUME lock # NoOne, NEW k \in Keys, Due(k)'
      PROVE  /\ Due(k)
             /\ Candidates(enabled', k) \ TargetOf(lock, k)' \subseteq Candidates(enabled, k) \ TargetOf(lock, k)
  <2> DEFINE grown == IF result[w].at = Never \/ ~Independent(KeyOf[r]) THEN {KeyOf[r]} ELSE {}
  <2>1. Due(k) /\ (k \in grown => calm' /\ Independent(k))
    <3> HIDE DEF grown
    <3>1. Observe(grown)
      BY <1>2 DEF grown
    <3> QED BY <1>1, <1>3, <1>5, <1>t, <3>1, DueBefore
  <2>2. Candidates(enabled', k) = Candidates(enabled, k)
    BY <1>1
  <2>3. CASE k # KeyOf[r]
    <3>1. r \notin Candidates(enabled, k)
      BY <2>3 DEF Candidates, OfKey
    <3>2. \A x : x # r /\ x \in TargetOf(lock, k) => x \in TargetOf(lock, k)'
      <4>1. lock' = lock /\ drop' = drop /\ restore'[lock] \subseteq restore[lock]
        BY <1>1, <1>3, <1>t, <1>5, LockType
      <4> QED BY <1>2, <4>1 DEF TargetOf, Target
    <3> QED BY <2>1, <2>2, <3>1, <3>2
  <2>4. CASE k = KeyOf[r]
    <3>1. result[w].at # Never /\ Independent(k)
      BY <1>1, <2>1, <2>4
    <3>2. w = lock
      BY <1>4, <3>1
    <3>3. restore'[lock] = restore[lock] \ {r} /\ r \in restore[lock] /\ lock' = lock /\ drop' = drop
      BY <1>1, <1>2, <1>3, <3>2
    <3>4. Target(lock)' = Target(lock)
      BY <1>2, <3>3 DEF Target
    <3>5. TargetOf(lock, k)' = TargetOf(lock, k)
      BY <1>1, <3>1, <3>4 DEF TargetOf
    <3> QED BY <2>1, <2>2, <3>5
  <2> QED BY <2>3, <2>4
<1> QED BY <1>1, <1>5, <1>t, FittingStays

\* Suspending: the holder's target is reached.
LEMMA FittingSuspendAll ==
  ASSUME Base, Fitting, [Next]_vars, NEW w \in Workers, SuspendAll(w)
  PROVE  Fitting'
<1>t. /\ TypeInv /\ TypeInv' /\ Base' /\ Agenda
      /\ DOMAIN drop = Workers /\ DOMAIN pc = Workers
  BY BaseStep DEF Base, TypeInv, TypeOK
<1>1. /\ pc[w] = "restore" /\ restore[w] = {} /\ suspended' = suspended \cup drop[w]
      /\ drop' = [drop EXCEPT ![w] = {}]
      /\ pc' = [pc EXCEPT ![w] = IF todo[w] # <<>> THEN "read"
                                 ELSE IF result[w].at = Never THEN "lock" ELSE "save"]
      /\ IF result[w].at = Never THEN calm' = FALSE ELSE calm' = calm
      /\ UNCHANGED <<enabled, row, lock, now, todo, restore, result>> /\ Observe({})
  BY DEF SuspendAll, Disturbs
<1>2. /\ drop'[w] = {} /\ \A v \in Workers \ {w} : drop'[v] = drop[v] /\ pc'[v] = pc[v]
      /\ calm' => calm
  BY <1>1, <1>t
<1>3. \A k \in Keys : Due(k)' => Due(k)
  BY <1>1, <1>2, <1>t, DueBefore
<1>4. CASE w # lock
  <2>1. lock # NoOne => lock \in Workers \ {w}
    BY <1>4, <1>t, LockType
  <2>2. ASSUME lock # NoOne, NEW k \in Keys
        PROVE  Candidates(enabled', k) \ TargetOf(lock, k)' \subseteq Candidates(enabled, k) \ TargetOf(lock, k)
    <3>1. drop'[lock] = drop[lock] /\ restore'[lock] = restore[lock] /\ lock' = lock /\ enabled' = enabled
      BY <1>1, <1>2, <2>1, <2>2
    <3>2. TargetOf(lock, k) \subseteq TargetOf(lock, k)'
      BY <1>1, <3>1 DEF TargetOf, Target
    <3> QED BY <3>1, <3>2
  <2> QED BY <1>1, <1>2, <1>3, <1>t, <2>1, <2>2, FittingStays
<1>5. CASE w = lock
  <2>1. /\ lock # NoOne /\ lock' = lock /\ result[w].at # Never
        /\ todo[w] = <<>> \/ todo[w] = <<Back>>
    BY <1>1, <1>5, AtRestore
  <2>2. /\ pc'[lock] \in {"read", "save"} /\ (pc'[lock] = "read" => todo[lock] = <<Back>>)
    BY <1>1, <1>5, <1>t, <2>1
  <2>3. ASSUME NEW k \in Keys, Due(k)' PROVE WillFit(lock, k)'
    <3>1. WillFit(lock, k)
      BY <1>1, <1>3, <1>5, <2>1, <2>3 DEF Fitting
    <3>2. drop'[lock] = {} /\ restore'[lock] = {} /\ restore[lock] = {}
      BY <1>1, <1>2, <1>5
    <3>3. TargetOf(lock, k)' = TargetOf(lock, k)
      BY <1>1, <1>5, <2>1, <3>2 DEF TargetOf, Target
    <3>4. New(lock)' = New(lock) /\ enabled' = enabled /\ result' = result
      BY <1>1, <2>1 DEF New
    <3> QED BY <2>1, <3>1, <3>3, <3>4 DEF WillFit
  <2>4. todo' = todo
    BY <1>1
  <2> HIDE DEF Fitting
  <2>5. SUFFICES ASSUME NEW k \in Keys, Due(k)'
        PROVE  /\ pc'[lock] = "read" => todo[lock] = <<Back>> /\ WillFit(lock, k)'
               /\ WillFit(lock, k)'
    BY <2>1, <2>4 DEF Fitting, Back, All, Only
  <2> QED BY <2>2, <2>3, <2>5
<1> QED BY <1>4, <1>5

\* A materialization plans for every excess that gets no window.
LEMMA FittingMaterialize ==
  ASSUME Base, [Next]_vars, NEW w \in Workers, Materialize(w)
  PROVE  Fitting'
<1>t. /\ TypeInv /\ Holders /\ DOMAIN pc = Workers /\ DOMAIN todo = Workers /\ DOMAIN result = Workers
  BY DEF Base, TypeInv, TypeOK
<1>1. /\ pc[w] # "restore" /\ lock' = w /\ pc'[w] = "read"
      /\ UNCHANGED <<enabled, suspended, restore, drop>>
  BY <1>t DEF Materialize
<1>2. PICK p \in Plans : /\ todo'[w] = Allocations(p, now)
                         /\ result'[w].row.plan = p /\ result'[w].row.window = Window(p, now)
  BY <1>t DEF Materialize
<1>3. ASSUME NEW k \in Keys PROVE TargetOf(w, k)' = suspended
  <2>1. restore'[w] = {} /\ drop'[w] = {} /\ suspended' = suspended
    BY <1>1, <1>t DEF Holders
  <2> QED BY <2>1 DEF TargetOf, Target
<1>4. ASSUME NEW k \in Keys, k \notin OverLimit(p) PROVE WillFit(w, k)'
  <2>1. New(w)' = LimitOf[p] /\ LimitOf[p] \in [Keys -> Nat]
    BY <1>2, CapacityAssumption DEF New
  <2>2. LimitOf[p][k] <= Allowed(LimitOf[p], k) /\ Allowed(LimitOf[p], k) \in Nat /\ LimitOf[p][k] \in Nat
    BY <2>1, AllowedType
  <2>3. Usage(enabled, suspended, k) \in Nat
    BY <1>t, UsageShrinks DEF TypeInv, TypeOK
  <2>4. ~(Usage(enabled, suspended, k) > LimitOf[p][k])
    BY <1>4 DEF OverLimit
  <2>5. Usage(enabled, suspended, k) <= Allowed(LimitOf[p], k)
    BY <2>2, <2>3, <2>4
  <2>6. enabled' = enabled
    BY <1>1
  <2> QED BY <1>3, <2>1, <2>5, <2>6 DEF WillFit
<1>5. ASSUME NEW k \in OverLimit(p) \cap WindowedKeys, ~SuspendNow(p, now) PROVE WillFit(w, k)'
  <2>1. Window(p, now) # Never
    <3>1. row.window \in Nat /\ now \in Nat /\ 1 <= now /\ 1 <= WindowLength /\ WindowLength \in Nat
      BY <1>t, TimeType
    <3>2. Window(p, now) = IF row.window # Never THEN row.window ELSE now + WindowLength
      BY <1>5 DEF Window
    <3> QED BY <3>1, <3>2 DEF Never
  <2> QED BY <1>2, <2>1 DEF WillFit
<1>6. ASSUME NEW k \in Keys
      PROVE  \/ todo'[w] = <<All>>
             \/ todo'[w] = <<Back>> /\ WillFit(w, k)'
             \/ \E ks \in SUBSET Keys : todo'[w] = <<Only(ks), Back>> /\ (k \in ks \/ WillFit(w, k)')
  <2>1. CASE SuspendNow(p, now) /\ Allocations(p, now) = <<All>>
    BY <1>2, <2>1
  <2>2. CASE ~SuspendNow(p, now) /\ OverLimit(p) \subseteq WindowedKeys /\ Allocations(p, now) = <<Back>>
    <3>1. WillFit(w, k)'
      BY <1>4, <1>5, <2>2
    <3> QED BY <1>2, <2>2, <3>1
  <2>3. ASSUME ~SuspendNow(p, now), NEW ks \in SUBSET Keys, ks = OverLimit(p) \ WindowedKeys,
               Allocations(p, now) = <<Only(ks), Back>>
        PROVE  todo'[w] = <<Only(ks), Back>> /\ (k \in ks \/ WillFit(w, k)')
    BY <1>2, <1>4, <1>5, <2>3
  <2> HIDE DEF All, Back, Only
  <2> QED BY <2>1, <2>2, <2>3, AllocationsAre
<1> QED BY <1>1, <1>6 DEF Fitting, All, Back, Only

\* The allocation that is read ends what it is for and leaves the rest kept.
LEMMA FittingReadPlans ==
  ASSUME Base, Fitting, [Next]_vars, NEW w \in Workers, ReadPlans(w)
  PROVE  Fitting'
<1>t. /\ TypeInv /\ TypeInv' /\ Base' /\ Holders /\ Agenda /\ FounderInv
      /\ DOMAIN restore = Workers /\ DOMAIN drop = Workers /\ DOMAIN pc = Workers /\ DOMAIN todo = Workers
  BY BaseStep DEF Base, TypeInv, TypeOK
<1> DEFINE a == Head(todo[w])
<1>1. /\ pc[w] = "read" /\ pc'[w] = "restore"
      /\ restore'[w] = ToRestore(enabled, suspended, New(w), a)
      /\ drop'[w] = ToSuspend(enabled, suspended, New(w), a)
      /\ \A v \in Workers \ {w} : /\ restore'[v] = restore[v] /\ drop'[v] = drop[v]
                                 /\ pc'[v] = pc[v] /\ todo'[v] = todo[v]
      /\ UNCHANGED <<enabled, suspended, lock, now, result, over, calm>>
  BY <1>t DEF ReadPlans, New
<1>2. \A k \in Keys : Due(k)' => Due(k)
  BY <1>1 DEF Due
<1> HIDE DEF a
<1>3. CASE w # lock
  <2>1. lock # NoOne => lock \in Workers \ {w}
    BY <1>3, <1>t, LockType
  <2>2. ASSUME lock # NoOne, NEW k \in Keys
        PROVE  Candidates(enabled', k) \ TargetOf(lock, k)' \subseteq Candidates(enabled, k) \ TargetOf(lock, k)
    <3>1. /\ drop'[lock] = drop[lock] /\ restore'[lock] = restore[lock]
          /\ UNCHANGED <<lock, enabled, suspended>>
      BY <1>1, <2>1, <2>2
    <3>2. TargetOf(lock, k)' = TargetOf(lock, k)
      BY <3>1 DEF TargetOf, Target
    <3> QED BY <3>1, <3>2
  <2> QED BY <1>1, <1>2, <1>t, <2>1, <2>2, FittingStays
<1>4. CASE w = lock
  <2>1. lock # NoOne /\ restore[w] = {} /\ drop[w] = {}
    BY <1>1, <1>4, <1>t, LockType DEF Holders
  <2>2. ASSUME NEW k \in Keys, Due(k) PROVE WillFit(w, k)'
    <3>1. TargetOf(w, k) = suspended
      BY <2>1 DEF TargetOf, Target
    <3>2. TargetOf(w, k)' = IF Independent(k) THEN Outcome(enabled, suspended, New(w), a)
                            ELSE suspended \cup ToSuspend(enabled, suspended, New(w), a)
      BY <1>1 DEF TargetOf, Target, Outcome
    <3>3. New(w)' = New(w) /\ result'[w] = result[w] /\ enabled' = enabled
      BY <1>1 DEF New
    <3>4. \/ todo[w] = <<All>>
          \/ todo[w] = <<Back>> /\ WillFit(w, k)
          \/ \E ks \in SUBSET Keys : todo[w] = <<Only(ks), Back>> /\ (k \in ks \/ WillFit(w, k))
      BY <1>1, <1>4, <2>1, <2>2 DEF Fitting
    <3>5. /\ a \in Allocation /\ a.for = {}
          /\ (k \in a.keys /\ ~a.restoreOnly) \/ WillFit(w, k)
      <4> HIDE DEF All, Back, Only, WillFit
      <4>1. CASE todo[w] = <<All>>
        BY <4>1, TheAllocations DEF a
      <4>2. CASE todo[w] = <<Back>> /\ WillFit(w, k)
        BY <4>2, TheAllocations DEF a
      <4>3. ASSUME NEW ks \in SUBSET Keys, todo[w] = <<Only(ks), Back>> /\ (k \in ks \/ WillFit(w, k))
            PROVE  a \in Allocation /\ a.for = {} /\ ((k \in a.keys /\ ~a.restoreOnly) \/ WillFit(w, k))
        BY <4>3, TheAllocations DEF a
      <4> QED BY <3>4, <4>1, <4>2, <4>3
    <3>6. CASE k \in WindowedKeys /\ result[w].row.window # Never
      BY <3>3, <3>6 DEF WillFit
    <3>7. CASE ~(k \in WindowedKeys /\ result[w].row.window # Never)
      <4>1. (k \in a.keys /\ ~a.restoreOnly) \/ Usage(enabled, suspended, k) <= Allowed(New(w), k)
        BY <3>1, <3>5, <3>7 DEF WillFit
      <4>2. suspended \cap Founder = {}
        BY <1>t DEF FounderInv, FounderStays
      <4>3. Usage(enabled, TargetOf(w, k)', k) <= Allowed(New(w), k)
        BY <1>t, <3>2, <3>5, <4>1, <4>2, NewType, PlanFits
      <4> QED BY <3>3, <4>3 DEF WillFit
    <3> QED BY <3>6, <3>7
  <2> QED BY <1>1, <1>2, <1>4, <2>2 DEF Fitting
<1> QED BY <1>3, <1>4

LEMMA FittingStep == Base /\ Excess /\ Fitting /\ [Next]_vars => Fitting'
<1> SUFFICES ASSUME Base, Excess, Fitting, [Next]_vars PROVE Fitting'
  OBVIOUS
<1>t. /\ TypeInv /\ Base' /\ Holders /\ DOMAIN restore = Workers /\ DOMAIN drop = Workers
      /\ DOMAIN pc = Workers /\ DOMAIN todo = Workers /\ DOMAIN result = Workers
  BY BaseStep DEF Base, TypeInv, TypeOK
\* Steps that leave the resources, the history and the holder alone.
<1>a. ASSUME UNCHANGED <<enabled, suspended, lock, now, over>>, calm' => calm,
             lock # NoOne => /\ pc'[lock] = pc[lock] /\ todo'[lock] = todo[lock]
                             /\ result'[lock] = result[lock]
                             /\ restore'[lock] = restore[lock] /\ drop'[lock] = drop[lock]
      PROVE  Fitting'
  <2>1. ASSUME lock # NoOne, NEW k \in Keys PROVE (Due(k)' => Due(k)) /\ TargetOf(lock, k)' = TargetOf(lock, k)
    BY <1>a, <2>1 DEF Due, TargetOf, Target
  <2>2. \A k \in Keys : Candidates(enabled', k) = Candidates(enabled, k)
    BY <1>a
  <2> QED BY <1>a, <1>t, <2>1, <2>2, FittingStays
<1>1. ASSUME NEW r \in Resources, Enable(r) \/ Disable(r) PROVE Fitting'
  BY <1>1, FittingEnable, FittingDisable
<1>2. ASSUME NEW w \in Workers, Choose(w) PROVE Fitting'
  <2>1. pc[w] = "idle" /\ calm' = FALSE /\ UNCHANGED <<enabled, suspended, lock, now, restore, drop, over>>
    BY <1>2 DEF Choose
  <2>2. lock # NoOne => lock \in Workers \ {w}
    BY <1>t, <2>1, LockType DEF Holders
  <2>3. \A v \in Workers \ {w} : pc'[v] = pc[v] /\ todo'[v] = todo[v] /\ result'[v] = result[v]
    BY <1>2, <1>t DEF Choose
  <2> QED BY <1>a, <2>1, <2>2, <2>3
<1>3. ASSUME NEW w \in Workers, Materialize(w) \/ ReadPlans(w) \/ RestoreOne(w) \/ SuspendAll(w)
      PROVE  Fitting'
  BY <1>3, FittingMaterialize, FittingReadPlans, FittingRestoreOne, FittingSuspendAll
<1>4. ASSUME NEW w \in Workers, SaveEntitlement(w) PROVE Fitting'
  BY <1>4 DEF SaveEntitlement, Fitting
<1>5. ASSUME NEW w \in Workers, Fails(w) PROVE Fitting'
  <2>1. CASE lock = w
    BY <1>5, <2>1 DEF Fails, Fitting
  <2>2. CASE lock # w
    <3>1. lock # NoOne => lock \in Workers \ {w}
      BY <1>t, <2>2, LockType
    <3>2. /\ calm' = FALSE /\ UNCHANGED <<enabled, suspended, lock, now, over>>
          /\ \A v \in Workers \ {w} : /\ pc'[v] = pc[v] /\ todo'[v] = todo[v] /\ result'[v] = result[v]
                                     /\ restore'[v] = restore[v] /\ drop'[v] = drop[v]
      BY <1>5, <1>t, <2>2 DEF Fails
    <3> QED BY <1>a, <3>1, <3>2
  <2> QED BY <2>1, <2>2
<1>6. CASE Tick
  <2>1. lock = NoOne /\ lock' = lock
    BY <1>6, <1>t, LockType DEF Tick, Holders
  <2> QED BY <2>1 DEF Fitting
<1>7. CASE UNCHANGED vars
  BY <1>7, <1>a DEF vars, locals
<1> QED BY <1>1, <1>2, <1>3, <1>4, <1>5, <1>6, <1>7 DEF Next

-----------------------------------------------------------------------------
(* How long an excess stays *)

\* An excess that has a window began at most a unit before the window was
\* granted; any other began with the last materialization or after it.
Bounded ==
  \A k \in Keys : over[k] # Never =>
    IF k \in WindowedKeys /\ row.window # Never
    THEN row.window <= over[k] + WindowLength + 1 ELSE over[k] >= settled

LEMMA BoundedStep == Base /\ Clock /\ Saving /\ Fitting /\ Bounded /\ [Next]_vars => Bounded'
<1> SUFFICES ASSUME Base, Clock, Saving, Fitting, Bounded, [Next]_vars PROVE Bounded'
  OBVIOUS
<1>t. TypeInv /\ TypeInv' /\ Holders
  BY BaseStep DEF Base
<1>a. ASSUME NEW grown, Observe(grown), UNCHANGED <<now, settled, row>> PROVE Bounded'
  <2> SUFFICES ASSUME NEW k \in Keys, over'[k] # Never
      PROVE  IF k \in WindowedKeys /\ row.window # Never
             THEN row.window <= over'[k] + WindowLength + 1 ELSE over'[k] >= settled
    BY <1>a DEF Bounded
  <2>1. over'[k] = now \/ over'[k] = over[k]
    BY <1>t, <1>a, Observed
  <2>2. CASE over'[k] = over[k]
    BY <2>2 DEF Bounded
  <2>3. CASE over'[k] = now
    BY <1>t, <2>3, TimeType DEF Clock
  <2> QED BY <2>1, <2>2, <2>3
<1>b. ASSUME UNCHANGED <<settled, row, over>> PROVE Bounded'
  BY <1>b DEF Bounded
<1>1. ASSUME NEW r \in Resources, Enable(r) \/ Disable(r) PROVE Bounded'
  BY <1>1, <1>a DEF Enable, Disable
<1>2. ASSUME NEW w \in Workers, Choose(w) \/ Materialize(w) \/ ReadPlans(w) \/ Fails(w) PROVE Bounded'
  BY <1>2, <1>b DEF Choose, Materialize, ReadPlans, Fails
<1>3. ASSUME NEW w \in Workers, RestoreOne(w) \/ SuspendAll(w) PROVE Bounded'
  BY <1>3, <1>a DEF RestoreOne, SuspendAll
\* What is older than the row that is saved was due, and has its window.
<1>4. ASSUME NEW w \in Workers, SaveEntitlement(w) PROVE Bounded'
  <2>1. /\ pc[w] = "save" /\ row' = result[w].row /\ settled' = result[w].at
        /\ UNCHANGED <<enabled, suspended, now>> /\ Observe({})
    BY <1>4 DEF SaveEntitlement
  <2>2. w = lock /\ lock # NoOne /\ result[w].at = now /\ restore[w] = {} /\ drop[w] = {}
    BY <1>t, <2>1, SaverHolds DEF Holders
  <2>3. row'.window # Never => /\ row'.window <= now + WindowLength
                               /\ row.window # Never => row'.window = row.window
    BY <2>1, <2>2 DEF Saving
  <2> SUFFICES ASSUME NEW k \in Keys, over'[k] # Never
      PROVE  IF k \in WindowedKeys /\ row'.window # Never
             THEN row'.window <= over'[k] + WindowLength + 1 ELSE over'[k] >= now
    BY <2>1, <2>2 DEF Bounded
  <2>4. /\ row'.window \in Nat /\ row.window \in Nat /\ now \in Nat /\ settled \in Nat
        /\ over[k] \in Nat /\ WindowLength \in Nat
    BY <1>t, <2>1, TimeType
  <2>5. over'[k] = now \/ over'[k] = over[k]
    BY <1>t, <2>1, Observed
  <2>6. CASE over'[k] = now
    BY <2>3, <2>4, <2>6
  <2>7. CASE over'[k] = over[k] /\ over[k] < now
    <3>1. Due(k)
      BY <2>7 DEF Due
    <3>2. WillFit(w, k)
      BY <2>1, <2>2, <3>1 DEF Fitting
    <3>3. TargetOf(w, k) = suspended /\ New(w) = LimitOf[row'.plan]
      BY <2>1, <2>2 DEF TargetOf, Target, New
    <3>4. Usage(enabled, suspended, k) > Allowed(LimitOf[row'.plan], k)
      <4>1. Usage(enabled', suspended', k) > Allowed(LimitOf[row'.plan], k)
        BY <1>t, <2>1, Observed
      <4> QED BY <2>1, <4>1
    <3>5. Usage(enabled, suspended, k) \in Nat /\ Allowed(LimitOf[row'.plan], k) \in Nat
      BY <1>t, <2>2, <3>3, LockType, NewType, UsageShrinks, AllowedType
    <3>6. k \in WindowedKeys /\ row'.window # Never
      BY <2>1, <3>2, <3>3, <3>4, <3>5 DEF WillFit
    <3>7. CASE row.window # Never
      BY <2>3, <2>7, <3>6, <3>7 DEF Bounded
    <3>8. CASE row.window = Never
      <4>1. over[k] >= settled /\ settled \in {now - 1, now}
        BY <2>7, <3>8 DEF Bounded, Clock
      <4> QED BY <2>3, <2>4, <2>7, <3>6, <4>1
    <3> QED BY <3>7, <3>8
  <2>8. over[k] <= now
    BY DEF Clock
  <2> QED BY <2>4, <2>5, <2>6, <2>7, <2>8
<1>5. CASE Tick
  BY <1>5, <1>b DEF Tick
<1>6. CASE UNCHANGED vars
  BY <1>6, <1>b DEF vars
<1> QED BY <1>1, <1>2, <1>3, <1>4, <1>5, <1>6 DEF Next

ExcessInv == Base /\ Clock /\ Saving /\ Excess /\ Fitting /\ Bounded

LEMMA ExcessInit == Init => ExcessInv
<1> SUFFICES ASSUME Init PROVE ExcessInv
  OBVIOUS
<1>1. Base
  BY BaseInit
<1>t. TypeInv
  BY <1>1 DEF Base
<1>2. now = 1 /\ settled = Never /\ row.window = Never /\ lock = NoOne /\ \A k \in Keys : over[k] = Never
  BY DEF Init
<1>3. Clock /\ Saving /\ Fitting /\ Bounded
  BY <1>2 DEF Clock, Saving, Fitting, Bounded, Never
<1>4. Excess
  <2> SUFFICES ASSUME NEW k \in Keys PROVE ~(Usage(enabled, suspended, k) > Allowed(Limits, k))
    BY <1>2 DEF Excess
  <2>1. Usage(enabled, suspended, k) <= Allowed(Limits, k)
    BY DEF Init
  <2>2. Usage(enabled, suspended, k) \in Nat
    BY <1>t, UsageShrinks DEF TypeInv, TypeOK
  <2>3. Limits \in [Keys -> Nat]
    BY <1>t, CapacityAssumption DEF Limits, TypeInv, TypeOK, Row
  <2> QED BY <2>1, <2>2, <2>3, AllowedType
<1> QED BY <1>1, <1>3, <1>4 DEF ExcessInv

LEMMA ExcessInvStep == ExcessInv /\ [Next]_vars => ExcessInv'
  BY BaseStep, ClockStep, SavingStep, ExcessStep, FittingStep, BoundedStep DEF ExcessInv

LEMMA ExcessBound == ExcessInv => ExcessEnds
<1> SUFFICES ASSUME ExcessInv, NEW k \in Keys, over[k] # Never
    PROVE  now - over[k] <= (IF k \in WindowedKeys THEN WindowLength ELSE 0)
                              + (IF settled = now THEN 0 ELSE 1)
  BY DEF ExcessEnds
<1>1. /\ now \in Nat /\ settled \in Nat /\ row.window \in Nat /\ WindowLength \in Nat
      /\ over[k] \in Nat
  BY TimeType DEF ExcessInv, Base
<1>2. settled \in {now - 1, now} /\ (row.window # Never => settled < row.window)
  BY DEF ExcessInv, Clock
<1>3. CASE k \in WindowedKeys /\ row.window # Never
  <2>1. row.window <= over[k] + WindowLength + 1
    BY <1>3 DEF ExcessInv, Bounded
  <2> QED BY <1>1, <1>2, <1>3, <2>1
<1>4. CASE ~(k \in WindowedKeys /\ row.window # Never)
  <2>1. over[k] >= settled
    BY <1>4 DEF ExcessInv, Bounded
  <2> QED BY <1>1, <1>2, <2>1
<1> QED BY <1>3, <1>4

\* An excess that nobody adds to ends with its window, or at once where there is
\* none, whatever plans, choices, switches and failures come in between.
THEOREM ExcessesEnd == Spec => []ExcessEnds
<1>1. Init => ExcessInv
  BY ExcessInit
<1>2. ExcessInv /\ [Next]_vars => ExcessInv'
  BY ExcessInvStep
<1>3. ExcessInv => ExcessEnds
  BY ExcessBound
<1> QED BY <1>1, <1>2, <1>3, PTL DEF Spec

-----------------------------------------------------------------------------
(* What a materialization that nobody disturbed leaves *)

\* Nothing of kind k is in S that there is room for.
Filled(S, limits, k) ==
  Candidates(enabled, k) \cap S # {} => Usage(enabled, S, k) >= Allowed(limits, k)

\* What the last allocation of the holder aims at uses all the room there is.
Filling ==
  lock # NoOne /\ calm /\ (pc[lock] = "save" \/ (pc[lock] = "restore" /\ todo[lock] = <<>>)) =>
    \A k \in Keys : Filled(Target(lock), New(lock), k)

AtRest == RoomIsUsed /\ IndependentFits

LEMMA FillingStep == Base /\ Filling /\ [Next]_vars => Filling'
<1> SUFFICES ASSUME Base, Filling, [Next]_vars PROVE Filling'
  OBVIOUS
<1>t. /\ TypeInv /\ Holders /\ Agenda /\ DOMAIN restore = Workers /\ DOMAIN drop = Workers
      /\ DOMAIN pc = Workers /\ DOMAIN todo = Workers
  BY DEF Base, TypeInv, TypeOK
<1>1. ASSUME NEW r \in Resources, Enable(r) \/ Disable(r) PROVE Filling'
  BY <1>1 DEF Enable, Disable, Filling
<1>2. ASSUME NEW w \in Workers, Choose(w) \/ Fails(w) PROVE Filling'
  BY <1>2 DEF Choose, Fails, Filling
<1>3. ASSUME NEW w \in Workers, Materialize(w) PROVE Filling'
  BY <1>3, <1>t DEF Materialize, Filling
\* The restoring allocation, or the one for all limits, is the last.
<1>4. ASSUME NEW w \in Workers, ReadPlans(w) PROVE Filling'
  <2> DEFINE a == Head(todo[w])
  <2>1. /\ pc[w] = "read" /\ pc'[w] = "restore" /\ todo'[w] = Tail(todo[w])
        /\ restore'[w] = ToRestore(enabled, suspended, New(w), a)
        /\ drop'[w] = ToSuspend(enabled, suspended, New(w), a)
        /\ UNCHANGED <<enabled, suspended, lock, result, calm>>
    BY <1>4, <1>t DEF ReadPlans, New
  <2> SUFFICES ASSUME lock # NoOne, calm, todo'[lock] = <<>> \/ pc'[lock] = "save", NEW k \in Keys
      PROVE  Filled(Target(lock), New(lock), k)'
    BY <2>1 DEF Filling
  <2>2. w = lock /\ todo'[w] = <<>>
    BY <1>t, <2>1 DEF Holders
  <2>3. todo[w] = <<All>> \/ todo[w] = <<Back>>
    <3>1. \A x, y : Tail(<<x, y>>) # <<>>
      OBVIOUS
    <3> HIDE DEF All, Back, Only
    <3>2. \/ todo[w] = <<All>> \/ todo[w] = <<Back>>
          \/ \E ks \in SUBSET Keys : todo[w] = <<Only(ks), Back>>
      BY <1>t, <2>1, <2>2 DEF Agenda
    <3> QED BY <2>1, <2>2, <3>1, <3>2
  <2>4. a \in Allocation /\ k \in a.keys
    BY <2>3, TheAllocations
  <2> HIDE DEF a
  <2>5. Target(lock)' = Outcome(enabled, suspended, New(w), a)
    BY <2>1, <2>2 DEF Target, Outcome
  <2>6. /\ New(lock)' = New(w) /\ enabled' = enabled /\ enabled \in SUBSET Resources
        /\ New(w) \in [Keys -> Nat]
    BY <1>t, <2>1, <2>2, NewType DEF New
  <2>7. Filled(Outcome(enabled, suspended, New(w), a), New(w), k)
    BY <2>4, <2>6, AllocatedFills DEF Filled
  <2> QED BY <2>5, <2>6, <2>7 DEF Filled
\* What is done brings the resources to the target.
<1>5. ASSUME NEW w \in Workers, RestoreOne(w) PROVE Filling'
  <2> SUFFICES ASSUME lock # NoOne, calm'
      PROVE  /\ calm /\ w = lock /\ UNCHANGED <<lock, pc, todo, enabled>>
             /\ Target(lock)' = Target(lock) /\ New(lock)' = New(lock)
    BY <1>5 DEF Filling, Filled, RestoreOne
  <2>1. /\ pc[w] = "restore" /\ result[w].at # Never /\ calm'= calm
        /\ UNCHANGED <<enabled, lock, pc, todo, drop, result>>
    BY <1>5 DEF RestoreOne, Disturbs
  <2>2. w = lock
    BY <2>1, AtRestore
  <2>3. PICK r \in restore[w] : suspended' = suspended \ {r} /\ restore'[w] = restore[w] \ {r}
    BY <1>5, <1>t DEF RestoreOne
  <2>4. Target(lock)' = Target(lock)
    BY <2>1, <2>2, <2>3 DEF Target
  <2> QED BY <2>1, <2>2, <2>4 DEF New
<1>6. ASSUME NEW w \in Workers, SuspendAll(w) PROVE Filling'
  <2> SUFFICES ASSUME lock # NoOne, calm', pc'[lock] = "save" \/ (pc'[lock] = "restore" /\ todo'[lock] = <<>>)
      PROVE  /\ calm /\ pc[lock] = "restore" /\ todo[lock] = <<>> /\ UNCHANGED <<lock, enabled>>
             /\ Target(lock)' = Target(lock) /\ New(lock)' = New(lock)
    BY <1>6 DEF Filling, Filled, SuspendAll
  <2>1. /\ pc[w] = "restore" /\ restore[w] = {} /\ result[w].at # Never /\ calm' = calm
        /\ suspended' = suspended \cup drop[w] /\ drop'[w] = {}
        /\ UNCHANGED <<enabled, lock, todo, restore, result>>
    BY <1>6, <1>t DEF SuspendAll, Disturbs
  <2>2. w = lock
    BY <2>1, AtRestore
  <2>3. pc'[w] = (IF todo[w] # <<>> THEN "read" ELSE "save")
    BY <1>6, <1>t, <2>1 DEF SuspendAll
  <2>4. todo[lock] = <<>>
    BY <2>1, <2>2, <2>3
  <2>5. Target(lock)' = Target(lock)
    BY <2>1, <2>2 DEF Target
  <2> QED BY <2>1, <2>2, <2>4, <2>5 DEF New
<1>7. ASSUME NEW w \in Workers, SaveEntitlement(w) PROVE Filling'
  BY <1>7 DEF SaveEntitlement, Filling
<1>8. CASE Tick
  BY <1>8 DEF Tick, locals, Filling, Filled, Target, New
<1>9. CASE UNCHANGED vars
  BY <1>9 DEF vars, locals, Filling, Filled, Target, New
<1> QED BY <1>1, <1>2, <1>3, <1>4, <1>5, <1>6, <1>7, <1>8, <1>9 DEF Next

LEMMA AtRestStep == Base /\ Fitting /\ Filling /\ AtRest /\ [Next]_vars => AtRest'
<1> SUFFICES ASSUME Base, Fitting, Filling, AtRest, [Next]_vars PROVE AtRest'
  OBVIOUS
<1>t. TypeInv /\ Holders
  BY DEF Base
<1>a. ASSUME ~Settled' PROVE AtRest'
  BY <1>a DEF AtRest, RoomIsUsed, IndependentFits
<1>b. ASSUME UNCHANGED <<calm, lock, enabled, suspended, row>> PROVE AtRest'
  BY <1>b DEF AtRest, RoomIsUsed, IndependentFits, Settled, Fits, Limits
<1>1. ASSUME NEW r \in Resources, Enable(r) \/ Disable(r) PROVE AtRest'
  BY <1>1, <1>a DEF Enable, Disable, Settled
<1>2. ASSUME NEW w \in Workers, Choose(w) \/ Fails(w) PROVE AtRest'
  BY <1>2, <1>a DEF Choose, Fails, Settled
<1>3. ASSUME NEW w \in Workers, Materialize(w) PROVE AtRest'
  <2>1. lock' # NoOne
    BY <1>3, <1>t, LockType DEF Materialize
  <2> QED BY <1>a, <2>1 DEF Settled
\* Whoever allocates holds the lock, or disturbs.
<1>4. ASSUME NEW w \in Workers, ReadPlans(w) \/ RestoreOne(w) \/ SuspendAll(w) PROVE AtRest'
  <2>1. pc[w] \in {"read", "restore"} /\ lock' = lock /\ (calm' => calm)
    BY <1>4 DEF ReadPlans, RestoreOne, SuspendAll, Disturbs
  <2>2. ~(calm /\ lock = NoOne)
    BY <1>t, <2>1, LockType DEF Holders
  <2> QED BY <1>a, <2>1, <2>2 DEF Settled
<1>5. ASSUME NEW w \in Workers, SaveEntitlement(w) PROVE AtRest'
  <2>1. /\ pc[w] = "save" /\ row' = result[w].row /\ lock' = NoOne
        /\ UNCHANGED <<enabled, suspended, calm>>
    BY <1>5 DEF SaveEntitlement
  <2>2. w = lock /\ lock # NoOne /\ restore[w] = {} /\ drop[w] = {}
    BY <1>t, <2>1, SaverHolds DEF Holders
  <2> SUFFICES ASSUME calm, NEW k \in Keys
      PROVE  /\ Filled(suspended, LimitOf[row'.plan], k)
             /\ Independent(k) => \/ Usage(enabled, suspended, k) <= Allowed(LimitOf[row'.plan], k)
                                  \/ k \in WindowedKeys /\ row'.window # Never
    BY <2>1 DEF AtRest, RoomIsUsed, IndependentFits, Settled, Fits, Limits, Filled
  <2>3. TargetOf(w, k) = suspended /\ Target(w) = suspended /\ New(w) = LimitOf[row'.plan]
    BY <2>1, <2>2 DEF TargetOf, Target, New
  <2>4. Filled(Target(w), New(w), k)
    BY <2>1, <2>2 DEF Filling
  <2>5. Independent(k) => WillFit(w, k)
    BY <2>1, <2>2 DEF Fitting, Due
  <2>6. Independent(k) => \/ Usage(enabled, suspended, k) <= Allowed(LimitOf[row'.plan], k)
                          \/ k \in WindowedKeys /\ row'.window # Never
    BY <2>1, <2>3, <2>5 DEF WillFit
  <2> QED BY <2>3, <2>4, <2>6
<1>6. CASE Tick
  BY <1>6, <1>b DEF Tick
<1>7. CASE UNCHANGED vars
  BY <1>7, <1>b DEF vars
<1> QED BY <1>1, <1>2, <1>3, <1>4, <1>5, <1>6, <1>7 DEF Next

RestInv == ExcessInv /\ Filling /\ AtRest

LEMMA RestInvariant == Spec => []RestInv
<1>1. Init => RestInv
  <2>1. Init => ExcessInv
    BY ExcessInit
  <2>2. Init => lock = NoOne /\ ~calm
    BY DEF Init
  <2> QED BY <2>1, <2>2 DEF RestInv, Filling, AtRest, RoomIsUsed, IndependentFits, Settled
<1>2. RestInv /\ [Next]_vars => RestInv'
  <2> SUFFICES ASSUME RestInv, [Next]_vars PROVE RestInv'
    OBVIOUS
  <2>1. ExcessInv /\ Filling /\ AtRest /\ Base /\ Fitting
    BY DEF RestInv, ExcessInv
  <2>2. ExcessInv'
    BY <2>1, ExcessInvStep
  <2>3. Filling' /\ AtRest'
    BY <2>1, FillingStep, AtRestStep
  <2> QED BY <2>2, <2>3 DEF RestInv
<1> QED BY <1>1, <1>2, PTL DEF Spec

\* A materialization that nobody disturbed suspends nothing that there is room
\* for, whatever was suspended before it and why.
THEOREM RoomIsFilled == Spec => []RoomIsUsed
<1>1. RestInv => RoomIsUsed
  BY DEF RestInv, AtRest
<1> QED BY <1>1, RestInvariant, PTL

\* It also leaves every limit kept or with its window, where the choice of what
\* is kept depends on no other limit.
THEOREM IndependentKindsFit == Spec => []IndependentFits
<1>1. RestInv => IndependentFits
  BY DEF RestInv, AtRest
<1> QED BY <1>1, RestInvariant, PTL

\* What such a materialization leaves is stable: evaluated again for the same
\* plan, no allocation restores anything of a limit that depends on no other, or
\* suspends any of it before the window it was given is over.
THEOREM SetIsStable == Spec => []StableSet
<1>1. RestInv => StableSet
  <2> SUFFICES ASSUME RestInv, Settled,
                      NEW i \in DOMAIN Allocations(row.plan, now), NEW k \in Keys, Independent(k)
               PROVE  LET a == Allocations(row.plan, now)[i]
                      IN /\ ToRestore(enabled, suspended, Limits, a) \cap OfKey[k] = {}
                         /\ ToSuspend(enabled, suspended, Limits, a) \cap OfKey[k] # {} =>
                              k \in WindowedKeys /\ row.window \in 1..now
    BY DEF StableSet
  <2> DEFINE a == Allocations(row.plan, now)[i]
             C == Candidates(enabled, k)
             R == ToRestore(enabled, suspended, Limits, a)
             D == ToSuspend(enabled, suspended, Limits, a)
             K == Keep(enabled, suspended, k, Limits, a)
  <2>1. TypeInv /\ FounderInv /\ RoomIsUsed /\ IndependentFits
    BY DEF RestInv, ExcessInv, Base, AtRest
  <2>2. /\ enabled \in SUBSET Resources /\ row.plan \in Plans /\ Limits \in [Keys -> Nat]
        /\ suspended \cap Founder = {} /\ OfKey[k] \subseteq Resources
    BY <2>1, CapacityAssumption DEF TypeInv, TypeOK, Row, Limits, FounderInv, FounderStays, OfKey
  <2>3. \/ SuspendNow(row.plan, now) /\ a = All
        \/ a = Only(OverLimit(row.plan) \ WindowedKeys) \/ a = Back
    <3> DEFINE s == Allocations(row.plan, now)
               ks == OverLimit(row.plan) \ WindowedKeys
    <3>1. \/ SuspendNow(row.plan, now) /\ s = <<All>>
          \/ s = <<Only(ks), Back>> \/ s = <<Back>>
      <4> HIDE DEF All, Only, Back
      <4> QED BY <2>2, AllocationsAre
    <3>2. a = s[i] /\ i \in DOMAIN s
      BY DEF a
    <3>3. \A x, y : /\ \A j \in DOMAIN <<x>> : <<x>>[j] = x
                   /\ \A j \in DOMAIN <<x, y>> : <<x, y>>[j] \in {x, y}
      OBVIOUS
    <3> HIDE DEF a, s, ks, All, Only, Back
    <3>4. \/ SuspendNow(row.plan, now) /\ a = All
          \/ a = Only(ks) \/ a = Back
      BY <3>1, <3>2, <3>3
    <3> QED BY <3>4 DEF ks
  <2>4. a \in Allocation /\ a.for = {} /\ (a.restoreOnly <=> a = Back)
    <3>1. OverLimit(row.plan) \ WindowedKeys \in SUBSET Keys
      BY DEF OverLimit
    <3> HIDE DEF a
    <3> QED BY <2>3, <3>1, TheAllocations
  <2> HIDE DEF a
  <2>5. R \cap OfKey[k] = C \cap R /\ D \cap OfKey[k] = C \cap D
    <3>1. R \subseteq enabled
      BY KeepType DEF ToRestore
    <3>2. D \subseteq enabled
      BY KeepType DEF ToSuspend
    <3> HIDE DEF R, D
    <3> QED BY <3>1, <3>2 DEF Candidates
  <2>6. /\ C \cap R = IF k \in a.keys THEN K \cap suspended ELSE {}
        /\ C \cap D = IF k \in a.keys /\ ~a.restoreOnly THEN C \ (K \cup suspended) ELSE {}
    BY <2>2, <2>4, PerKind
  <2>7. K \cap suspended = {}
    <3>1. C \cap suspended # {} => Usage(enabled, suspended, k) >= Allowed(Limits, k)
      BY <2>1 DEF RoomIsUsed
    <3>2. K \subseteq C
      BY KeepType
    <3>3. CASE C \cap suspended = {}
      BY <3>2, <3>3
    <3>4. CASE C \cap suspended # {}
      BY <2>2, <2>4, <3>1, <3>4, NothingKept
    <3> QED BY <3>3, <3>4
  <2>8. ASSUME C \cap D # {} PROVE k \in WindowedKeys /\ row.window \in 1..now
    <3>1. k \in a.keys /\ ~(C \ suspended \subseteq K)
      BY <2>6, <2>8
    <3>2. ~(Usage(enabled, suspended, k) <= Allowed(Limits, k))
      BY <2>2, <2>4, <3>1, ActiveKept
    <3>3. k \in WindowedKeys /\ row.window # Never
      BY <2>1, <3>2 DEF IndependentFits, Fits
    <3>4. a # Only(OverLimit(row.plan) \ WindowedKeys) /\ a # Back
      <4>1. OverLimit(row.plan) \ WindowedKeys \in SUBSET Keys
        BY DEF OverLimit
      <4>2. k \notin OverLimit(row.plan) \ WindowedKeys
        BY <3>3
      <4>3. a # Back
        BY <2>4, <2>6, <2>8
      <4> QED BY <3>1, <4>1, <4>2, <4>3, TheAllocations
    <3>5. SuspendNow(row.plan, now)
      BY <2>3, <3>4
    <3> QED BY <3>3, <3>5 DEF SuspendNow
  <2> HIDE DEF C, R, D, K
  <2> QED BY <2>5, <2>6, <2>7, <2>8 DEF a, R, D
<1> QED BY <1>1, RestInvariant, PTL
=============================================================================
