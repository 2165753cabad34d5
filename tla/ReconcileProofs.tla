--------------------------- MODULE ReconcileProofs ---------------------------
(***************************************************************************)
(* Proofs about the two algorithms inside internal/reconcile that Apply    *)
(* takes for granted: topoSort, for every finite set of names and every    *)
(* graph, and the pool of PullImages, for any number of images and of      *)
(* workers.  Each implements what Apply assumes of it.                     *)
(***************************************************************************)
EXTENDS TopoSort, PullPool, FiniteSetTheorems, TLAPS

\* What appending to a sequence and taking its head off do to its elements.
LEMMA ElementsAppend ==
    ASSUME NEW S, NEW q \in Seq(S), NEW e \in S
    PROVE  Elements(Append(q, e)) = Elements(q) \cup {e}
<1>1. Len(Append(q, e)) = Len(q) + 1 /\ Append(q, e)[Len(q) + 1] = e
      /\ \A i \in 1..Len(q) : Append(q, e)[i] = q[i]
  OBVIOUS
<1>2. Len(q) \in Nat
  OBVIOUS
<1>3. ASSUME NEW x \in Elements(Append(q, e)) PROVE x \in Elements(q) \cup {e}
  <2>1. PICK i \in 1..(Len(q) + 1) : x = Append(q, e)[i]
    BY <1>1, <1>3 DEF Elements
  <2>2. CASE i \in 1..Len(q)
    BY <1>1, <2>1, <2>2 DEF Elements
  <2>3. CASE i = Len(q) + 1
    BY <1>1, <2>1, <2>3
  <2>4. QED
    BY <1>2, <2>2, <2>3
<1>4. ASSUME NEW x \in Elements(q) \cup {e} PROVE x \in Elements(Append(q, e))
  <2>1. CASE x = e
    <3>1. Len(q) + 1 \in 1..Len(Append(q, e))
      BY <1>1, <1>2
    <3>2. QED
      BY <1>1, <2>1, <3>1 DEF Elements
  <2>2. CASE x \in Elements(q)
    <3>1. PICK i \in 1..Len(q) : x = q[i]
      BY <2>2 DEF Elements
    <3>2. i \in 1..Len(Append(q, e))
      BY <1>1, <1>2
    <3>3. QED
      BY <1>1, <3>1, <3>2 DEF Elements
  <2>3. QED
    BY <1>4, <2>1, <2>2
<1>5. QED
  BY <1>3, <1>4

LEMMA DistinctAppend ==
    ASSUME NEW S, NEW q \in Seq(S), NEW e \in S, Distinct(q), e \notin Elements(q)
    PROVE  Distinct(Append(q, e))
<1>1. Len(Append(q, e)) = Len(q) + 1 /\ Append(q, e)[Len(q) + 1] = e
      /\ \A i \in 1..Len(q) : Append(q, e)[i] = q[i]
  OBVIOUS
<1>2. Len(q) \in Nat /\ \A i \in 1..Len(q) : q[i] # e
  BY DEF Elements
<1>3. QED
  BY <1>1, <1>2 DEF Distinct

LEMMA TakeHead ==
    ASSUME NEW S, NEW q \in Seq(S), q # <<>>, Distinct(q)
    PROVE  /\ Head(q) \in Elements(q)
           /\ Elements(Tail(q)) = Elements(q) \ {Head(q)}
           /\ Distinct(Tail(q))
<1>1. /\ Len(q) \in Nat /\ Len(q) >= 1 /\ Head(q) = q[1]
      /\ Len(Tail(q)) = Len(q) - 1
      /\ \A i \in 1..(Len(q) - 1) : Tail(q)[i] = q[i + 1]
  OBVIOUS
<1>2. Head(q) \in Elements(q)
  BY <1>1 DEF Elements
<1>3. ASSUME NEW x \in Elements(Tail(q)) PROVE x \in Elements(q) \ {Head(q)}
  <2>1. PICK i \in 1..(Len(q) - 1) : x = Tail(q)[i]
    BY <1>1, <1>3 DEF Elements
  <2>2. x = q[i + 1] /\ i + 1 \in 1..Len(q) /\ i + 1 # 1 /\ 1 \in 1..Len(q)
    BY <1>1, <2>1
  <2>3. QED
    BY <1>1, <2>2 DEF Elements, Distinct
<1>4. ASSUME NEW x \in Elements(q) \ {Head(q)} PROVE x \in Elements(Tail(q))
  <2>1. PICK i \in 1..Len(q) : x = q[i]
    BY <1>4 DEF Elements
  <2>2. i # 1
    BY <1>1, <1>4, <2>1
  <2>3. i - 1 \in 1..(Len(q) - 1) /\ Tail(q)[i - 1] = q[(i - 1) + 1]
    BY <1>1, <2>2
  <2>4. (i - 1) + 1 = i
    BY <1>1
  <2>5. QED
    BY <1>1, <2>1, <2>3, <2>4 DEF Elements
<1>5. Distinct(Tail(q))
  BY <1>1 DEF Distinct
<1>6. QED
  BY <1>2, <1>3, <1>4, <1>5

-----------------------------------------------------------------------------
LEMMA GraphFinite ==
    ASSUME deps \in Graphs
    PROVE  /\ IsFiniteSet(Planned) /\ Planned \subseteq Name
           /\ \A n \in Planned : deps[n] \subseteq Planned
           /\ \A T \in SUBSET Planned : IsFiniteSet(T) /\ Cardinality(T) \in Nat
<1>1. Planned \subseteq Name /\ deps \in [Planned -> SUBSET Planned]
  BY TopoAssumption DEF Planned
<1>2. IsFiniteSet(Planned)
  BY <1>1, TopoAssumption, FS_Subset
<1>3. ASSUME NEW T \in SUBSET Planned
      PROVE  IsFiniteSet(T) /\ Cardinality(T) \in Nat
  BY <1>2, FS_Subset, FS_CardinalityType
<1>4. QED
  BY <1>1, <1>2, <1>3

\* A counter at zero means that every dependency is placed and visited.
LEMMA CountZero ==
    ASSUME TypeOK, Counted, NEW n \in Planned
    PROVE  inDegree[n] = 0 <=> Pending(n) = {}
<1>1. Pending(n) \subseteq Planned
  BY GraphFinite DEF Pending, TypeOK
<1>2. IsFiniteSet(Pending(n))
  BY <1>1, GraphFinite DEF TypeOK
<1>3. QED
  BY <1>2, FS_EmptySet DEF Counted

LEMMA InitSort == Init => TypeOK /\ SortInv
<1> SUFFICES ASSUME Init PROVE TypeOK /\ SortInv
  OBVIOUS
<1>1. \A n \in Planned : deps[n] \subseteq Planned /\ Cardinality(deps[n]) \in Nat
  BY GraphFinite DEF Init
<1>2. TypeOK
  BY <1>1 DEF Init, TypeOK
<1>3. Placed = {} /\ Elements(queue) = {}
  BY DEF Init, Placed, Elements
<1>4. Counted
  <2>1. \A n \in Planned : Pending(n) = deps[n]
    BY <1>3 DEF Init, Pending
  <2>2. QED
    BY <2>1 DEF Init, Counted
<1>5. Listed
  <2>1. Distinct(<<>>) /\ Len(sorted) = 0
    BY DEF Distinct, Init
  <2>2. QED
    BY <1>3, <2>1, FS_EmptySet DEF Init, Listed
<1>6. NeverQueued /\ Phases
  BY <1>3 DEF NeverQueued, Phases, Init
<1>7. QED
  BY <1>2, <1>4, <1>5, <1>6 DEF SortInv

\* Putting a container in the queue: it was not listed, and all it depends on is
\* placed, so it is in no set of containers that wait for each other.
LEMMA Enqueue ==
    ASSUME TypeOK, SortInv, NEW m \in Planned, m \notin Elements(queue) \cup Placed,
           deps[m] \subseteq Placed, queue' = Append(queue, m),
           UNCHANGED <<deps, sorted>>
    PROVE  /\ queue' \in Seq(Planned)
           /\ Elements(queue)' = Elements(queue) \cup {m}
           /\ Distinct(queue)' /\ Placed' = Placed
           /\ Elements(queue)' \cap Placed' = {}
           /\ NeverQueued'
<1>1. queue \in Seq(Planned) /\ Distinct(queue) /\ Elements(queue) \cap Placed = {}
  BY DEF TypeOK, SortInv, Listed
<1>2. Elements(queue)' = Elements(queue) \cup {m} /\ Distinct(queue)'
  BY <1>1, ElementsAppend, DistinctAppend
<1>3. Placed' = Placed /\ Planned' = Planned
  BY DEF Placed, Elements, Planned
<1>4. NeverQueued'
  <2>1. ASSUME NEW S \in SUBSET Planned, Deadlocked(S)
        PROVE  m \notin S /\ S \cap (Elements(queue) \cup Placed) = {}
    BY <2>1 DEF SortInv, NeverQueued, Deadlocked
  <2>2. \A S : Deadlocked(S)' <=> Deadlocked(S)
    BY DEF Deadlocked
  <2>3. QED
    BY <1>2, <1>3, <2>1, <2>2 DEF NeverQueued
<1>5. QED
  BY <1>1, <1>2, <1>3, <1>4

LEMMA SeedSort ==
    ASSUME TypeOK, SortInv, NEW n \in Name, Seed(n)
    PROVE  TypeOK' /\ SortInv'
<1>1. /\ pc = "seed" /\ n \in left /\ n \in Planned /\ left' = left \ {n}
      /\ sorted = <<>> /\ UNCHANGED <<deps, inDegree, sorted, cur, pc>>
  BY DEF Seed, TypeOK, SortInv, Phases
<1>2. Placed = {} /\ Placed' = {} /\ Planned' = Planned
  BY <1>1 DEF Placed, Elements, Planned
<1>3. n \notin Elements(queue) \cup Placed
  BY <1>1 DEF SortInv, Listed
<1>4. Counted'
  BY <1>1, <1>2 DEF SortInv, Counted, Pending
<1>5. Phases'
  BY <1>1 DEF Phases
<1>6. CASE inDegree[n] = 0
  <2>1. deps[n] \subseteq Placed
    BY <1>1, <1>6, CountZero DEF SortInv, Pending
  <2>2. queue' = Append(queue, n)
    BY <1>6 DEF Seed
  <2>3. /\ queue' \in Seq(Planned) /\ Elements(queue)' = Elements(queue) \cup {n}
        /\ Distinct(queue)' /\ Elements(queue)' \cap Placed' = {} /\ NeverQueued'
    BY <1>1, <1>3, <2>1, <2>2, Enqueue
  <2>4. TypeOK'
    BY <1>1, <1>2, <2>3 DEF TypeOK
  <2>5. Listed'
    BY <1>1, <1>2, <1>6, <2>3 DEF SortInv, Listed
  <2>6. QED
    BY <1>4, <1>5, <2>3, <2>4, <2>5 DEF SortInv
<1>7. CASE inDegree[n] # 0
  <2>1. queue' = queue /\ Elements(queue)' = Elements(queue)
    BY <1>7 DEF Seed, Elements
  <2>2. TypeOK'
    BY <1>1, <1>2, <2>1 DEF TypeOK
  <2>3. Listed' /\ NeverQueued'
    BY <1>1, <1>2, <1>7, <2>1
       DEF SortInv, Listed, NeverQueued, Deadlocked, Distinct
  <2>4. QED
    BY <1>4, <1>5, <2>2, <2>3 DEF SortInv
<1>8. QED
  BY <1>6, <1>7

LEMMA TakeSort ==
    ASSUME TypeOK, SortInv, Take
    PROVE  TypeOK' /\ SortInv' /\ deps[Head(queue)] \subseteq Placed
           /\ Head(queue) \in Planned \ Placed /\ Placed' = Placed \cup {Head(queue)}
<1> DEFINE h == Head(queue)
<1>1. /\ pc = "take" /\ queue # <<>> /\ cur' = h /\ pc' = "visit"
      /\ queue' = Tail(queue) /\ sorted' = Append(sorted, h)
      /\ left' = {m \in Planned : h \in deps[m]}
      /\ UNCHANGED <<deps, inDegree>>
  BY DEF Take, Successors
<1>2. queue \in Seq(Planned) /\ sorted \in Seq(Planned) /\ Planned' = Planned
  BY <1>1 DEF TypeOK, Planned
<1>3. /\ h \in Elements(queue) /\ Elements(queue)' = Elements(queue) \ {h}
      /\ Distinct(queue)' /\ queue' \in Seq(Planned)
  BY <1>1, <1>2, TakeHead DEF SortInv, Listed
<1>4. h \in Planned
  BY <1>1, <1>2
<1>5. Placed' = Placed \cup {h} /\ h \notin Placed /\ sorted' \in Seq(Planned)
  BY <1>1, <1>2, <1>3, <1>4, ElementsAppend DEF Placed, SortInv, Listed
<1>6. deps[h] \subseteq Placed
  BY <1>1, <1>3, <1>4, CountZero DEF SortInv, Listed, Pending
<1>7. TypeOK'
  BY <1>1, <1>2, <1>3, <1>4, <1>5 DEF TypeOK
<1>8. Counted'
  <2>1. \A n \in Planned : Pending(n)' = Pending(n)
    BY <1>1, <1>2, <1>5 DEF Pending
  <2>2. QED
    BY <1>1, <1>2, <2>1 DEF SortInv, Counted
<1>9. Listed'
  <2>1. Len(sorted') = Len(sorted) + 1
    BY <1>1, <1>2
  <2>2. Placed \subseteq Planned
    BY <1>2 DEF Placed, Elements
  <2>3. Cardinality(Placed') = Cardinality(Placed) + 1
    BY <1>5, <2>2, GraphFinite, FS_AddElement DEF TypeOK
  <2>4. QED
    BY <1>1, <1>2, <1>3, <1>5, <2>1, <2>3 DEF SortInv, Listed
<1>10. NeverQueued' /\ Phases'
  BY <1>1, <1>2, <1>3, <1>5
     DEF SortInv, NeverQueued, Deadlocked, Phases, Successors
<1>11. QED
  BY <1>4, <1>5, <1>6, <1>7, <1>8, <1>9, <1>10 DEF SortInv

LEMMA VisitSort ==
    ASSUME TypeOK, SortInv, NEW m \in Name, Visit(m)
    PROVE  TypeOK' /\ SortInv' /\ Placed' = Placed
<1>1. /\ pc = "visit" /\ m \in left /\ m \in Planned /\ cur \in deps[m]
      /\ left' = left \ {m} /\ cur \in Placed
      /\ inDegree' = [inDegree EXCEPT ![m] = inDegree[m] - 1]
      /\ UNCHANGED <<deps, sorted, cur, pc>>
  BY DEF Visit, TypeOK, SortInv, Phases, Successors
<1>2. Placed' = Placed /\ Planned' = Planned
  BY <1>1 DEF Placed, Elements, Planned
<1>3. inDegree \in [Planned -> Nat]
  BY DEF TypeOK
<1>4. Pending(m)' = Pending(m) \ {cur} /\ cur \in Pending(m)
      /\ \A n \in Planned \ {m} : Pending(n)' = Pending(n)
  BY <1>1, <1>2 DEF Pending
<1>5. IsFiniteSet(Pending(m)) /\ Cardinality(Pending(m)) \in Nat
      /\ Cardinality(Pending(m)) # 0
      /\ Cardinality(Pending(m) \ {cur}) = Cardinality(Pending(m)) - 1
  <2>1. Pending(m) \subseteq Planned
    BY <1>1, GraphFinite DEF TypeOK, Pending
  <2>2. IsFiniteSet(Pending(m)) /\ Cardinality(Pending(m)) \in Nat
    BY <2>1, GraphFinite DEF TypeOK
  <2>3. QED
    BY <1>4, <2>2, FS_EmptySet, FS_RemoveElement
<1>6. inDegree[m] # 0 /\ inDegree' \in [Planned -> Nat]
      /\ inDegree'[m] = inDegree[m] - 1
      /\ \A n \in Planned \ {m} : inDegree'[n] = inDegree[n]
  BY <1>1, <1>3, <1>5 DEF SortInv, Counted
<1>7. Counted'
  BY <1>1, <1>2, <1>4, <1>5, <1>6 DEF SortInv, Counted
<1>8. m \notin Elements(queue) \cup Placed
  BY <1>1, <1>6 DEF SortInv, Listed
<1>9. Phases'
  BY <1>1, <1>2 DEF SortInv, Phases, Successors
<1>10. CASE inDegree'[m] = 0
  <2>1. queue' = Append(queue, m)
    BY <1>10 DEF Visit
  <2>2. Pending(m)' = {}
    <3>1. Pending(m) \ {cur} \subseteq Planned
      BY <1>1, GraphFinite DEF TypeOK, Pending
    <3>2. IsFiniteSet(Pending(m) \ {cur})
      BY <3>1, GraphFinite DEF TypeOK
    <3>3. Cardinality(Pending(m) \ {cur}) = 0
      BY <1>1, <1>5, <1>6, <1>10 DEF SortInv, Counted
    <3>4. QED
      BY <1>4, <3>2, <3>3, FS_EmptySet
  <2>3. deps[m] \subseteq Placed
    BY <1>1, <1>2, <2>2 DEF Pending
  <2>4. /\ queue' \in Seq(Planned) /\ Elements(queue)' = Elements(queue) \cup {m}
        /\ Distinct(queue)' /\ Elements(queue)' \cap Placed' = {} /\ NeverQueued'
    BY <1>1, <1>8, <2>1, <2>3, Enqueue
  <2>5. TypeOK'
    BY <1>1, <1>2, <1>6, <2>4 DEF TypeOK
  <2>6. Listed'
    BY <1>1, <1>2, <1>6, <1>10, <2>4 DEF SortInv, Listed
  <2>7. QED
    BY <1>2, <1>7, <1>9, <2>4, <2>5, <2>6 DEF SortInv
<1>11. CASE inDegree'[m] # 0
  <2>1. queue' = queue /\ Elements(queue)' = Elements(queue)
    BY <1>11 DEF Visit, Elements
  <2>2. TypeOK'
    BY <1>1, <1>2, <1>6, <2>1 DEF TypeOK
  <2>3. NeverQueued' /\ Distinct(queue)'
    BY <1>1, <1>2, <2>1
       DEF SortInv, Listed, NeverQueued, Deadlocked, Distinct
  <2>4. Listed'
    BY <1>1, <1>2, <1>6, <1>8, <1>11, <2>1, <2>3 DEF SortInv, Listed
  <2>5. QED
    BY <1>2, <1>7, <1>9, <2>2, <2>3, <2>4 DEF SortInv
<1>12. QED
  BY <1>10, <1>11

LEMMA PhaseSort ==
    ASSUME TypeOK, SortInv, Seeded \/ Visited \/ Returns \/ UNCHANGED vars
    PROVE  TypeOK' /\ SortInv' /\ Placed' = Placed /\ Planned' = Planned
<1>1. UNCHANGED <<deps, inDegree, queue, sorted, cur, left>>
  BY DEF Seeded, Visited, Returns, vars
<1>2. Placed' = Placed /\ Planned' = Planned /\ Elements(queue)' = Elements(queue)
  BY <1>1 DEF Placed, Elements, Planned
<1>3. TypeOK'
  BY <1>1, <1>2 DEF TypeOK, Seeded, Visited, Returns, vars
<1>4. \A n \in Planned : Pending(n)' = Pending(n)
  BY <1>1, <1>2 DEF Pending, Seeded, Visited, Returns, vars
<1>5. Counted' /\ NeverQueued' /\ Phases'
  BY <1>1, <1>2, <1>4 DEF SortInv, Counted, NeverQueued, Deadlocked, Phases,
                          Seeded, Visited, Returns, vars, Successors
<1>6. Listed'
  BY <1>1, <1>2 DEF SortInv, Listed, Distinct, Seeded, Visited, Returns, vars
<1>7. QED
  BY <1>2, <1>3, <1>5, <1>6 DEF SortInv

LEMMA NextSort == TypeOK /\ SortInv /\ [Next]_vars => TypeOK' /\ SortInv'
BY SeedSort, TakeSort, VisitSort, PhaseSort DEF Next

\* The counters, the queue and the placed containers agree at every step.
THEOREM SortInvariant == Spec => [](TypeOK /\ SortInv)
<1>1. QED
  BY InitSort, NextSort, PTL DEF Spec

\* No counter goes below zero and nothing unplanned is ever queued.
THEOREM SortTyped == Spec => []TypeOK
<1>1. QED
  BY SortInvariant, PTL

-----------------------------------------------------------------------------
\* When the queue has run dry, what is not placed waits for something that is
\* not placed either.
LEMMA DryQueue ==
    ASSUME TypeOK, SortInv, queue = <<>>, pc # "seed", pc # "visit"
    PROVE  /\ Placed \subseteq Planned
           /\ \A n \in Planned \ Placed : deps[n] \cap (Planned \ Placed) # {}
           /\ Len(sorted) = Cardinality(Planned) <=> Planned \ Placed = {}
<1>1. Placed \subseteq Planned /\ Elements(queue) = {}
  BY DEF TypeOK, Placed, Elements
<1>2. ASSUME NEW n \in Planned \ Placed
      PROVE  deps[n] \cap (Planned \ Placed) # {}
  <2>1. Pending(n) # {}
    BY <1>1, <1>2, CountZero DEF SortInv, Listed
  <2>2. deps[n] \subseteq Planned
    BY GraphFinite DEF TypeOK
  <2>3. QED
    BY <2>1, <2>2 DEF Pending
<1>3. Len(sorted) = Cardinality(Planned) <=> Planned \ Placed = {}
  <2>1. IsFiniteSet(Planned) /\ Len(sorted) = Cardinality(Placed)
    BY GraphFinite DEF TypeOK, SortInv, Listed
  <2>2. Cardinality(Placed) = Cardinality(Planned) <=> Placed = Planned
    BY <1>1, <2>1, FS_Subset
  <2>3. QED
    BY <1>1, <2>1, <2>2
<1>4. QED
  BY <1>1, <1>2, <1>3

\* topoSort refuses a plan exactly when planned containers wait for each other,
\* which is what BuildFails of module Planner says.
THEOREM CycleTestExact == Spec => []CycleDetected
<1>1. TypeOK /\ SortInv => CycleDetected
  <2> SUFFICES ASSUME TypeOK, SortInv, pc = "done"
               PROVE  Len(sorted) # Cardinality(Planned) <=> CyclicGraph
    BY DEF CycleDetected
  <2>1. queue = <<>>
    BY DEF SortInv, Phases
  <2>2. ASSUME Planned \ Placed # {} PROVE CyclicGraph
    BY <2>1, <2>2, DryQueue DEF CyclicGraph
  <2>3. ASSUME CyclicGraph PROVE Planned \ Placed # {}
    <3>1. PICK S \in SUBSET Planned : S # {} /\ Deadlocked(S)
      BY <2>3 DEF CyclicGraph, Deadlocked
    <3>2. S \cap Placed = {}
      BY <3>1 DEF SortInv, NeverQueued
    <3>3. QED
      BY <3>1, <3>2
  <2>4. QED
    BY <2>1, <2>2, <2>3, DryQueue
<1>2. QED
  BY <1>1, SortInvariant, PTL

\* The sort hands Apply an order of the promised kind: every step of it places a
\* free container, gives its verdict, or changes nothing the promise is about.
THEOREM SortImplements == Spec => Implements
<1>1. Init => Order!Init
  BY DEF Init, Order!Init, Elements, Planned
<1>2. TypeOK /\ SortInv /\ [Next]_vars => [Order!Next]_(Order!vars)
  <2> SUFFICES ASSUME TypeOK, SortInv, [Next]_vars
               PROVE  [Order!Next]_(Order!vars)
    OBVIOUS
  <2> USE DEF Order!vars
  <2>1. CASE Take
    <3> DEFINE h == Head(queue)
    <3>1. /\ h \in Planned \ Placed /\ deps[h] \subseteq Placed
          /\ Placed' = Placed \cup {h} /\ deps' = deps /\ Planned' = Planned
          /\ pc = "take" /\ pc' = "visit"
      BY <2>1, TakeSort DEF Take, Planned
    <3>2. Order!Place(h)
      BY <3>1 DEF Order!Place, Placed
    <3>3. QED
      BY <3>1, <3>2 DEF Order!Next, Placed
  <2>2. CASE Returns
    <3>1. /\ Planned' = Planned /\ Placed' = Placed /\ deps' = deps
          /\ pc = "take" /\ pc' = "done" /\ queue = <<>> /\ sorted' = sorted
      BY <2>2, PhaseSort DEF Returns
    <3>2. CASE Planned \ Placed = {}
      <4>1. Len(sorted) = Cardinality(Planned)
        BY <3>1, <3>2, DryQueue
      <4>2. Order!Sorted
        BY <3>1, <3>2, <4>1 DEF Order!Sorted, Placed
      <4>3. QED
        BY <4>2 DEF Order!Next
    <3>3. CASE Planned \ Placed # {}
      <4>1. /\ Len(sorted) # Cardinality(Planned)
            /\ \A n \in Planned \ Placed : deps[n] \cap (Planned \ Placed) # {}
        BY <3>1, <3>3, DryQueue
      <4>2. Order!Cycle
        BY <3>1, <3>3, <4>1 DEF Order!Cycle, Placed
      <4>3. QED
        BY <4>2 DEF Order!Next
    <3>4. QED
      BY <3>2, <3>3
  <2>3. ASSUME NEW n \in Name, Seed(n) \/ Visit(n)
        PROVE  UNCHANGED Order!vars
    BY <2>3 DEF Seed, Visit, Planned
  <2>4. CASE Seeded \/ Visited \/ UNCHANGED vars
    BY <2>4 DEF Seeded, Visited, vars, Planned
  <2>5. QED
    BY <2>1, <2>2, <2>3, <2>4 DEF Next
<1>3. QED
  BY <1>1, <1>2, SortInvariant, PTL DEF Spec, Implements, Order!Spec

-----------------------------------------------------------------------------
LEMMA Sizes ==
    ASSUME NEW S \in SUBSET Image
    PROVE  /\ IsFiniteSet(S) /\ Cardinality(S) \in Nat
           /\ \A T \in SUBSET S : /\ Cardinality(T) <= Cardinality(S)
                                  /\ Cardinality(T) = Cardinality(S) => T = S
           /\ \A i \in S : Cardinality(S \ {i}) = Cardinality(S) - 1
           /\ \A i \in Image \ S : Cardinality(S \cup {i}) = Cardinality(S) + 1
<1>1. IsFiniteSet(S) /\ Cardinality(S) \in Nat
  BY PoolAssumption, FS_Subset, FS_CardinalityType
<1>2. ASSUME NEW T \in SUBSET S
      PROVE  /\ Cardinality(T) <= Cardinality(S)
             /\ Cardinality(T) = Cardinality(S) => T = S
  BY <1>1, FS_Subset
<1>3. ASSUME NEW i \in S PROVE Cardinality(S \ {i}) = Cardinality(S) - 1
  BY <1>1, FS_RemoveElement
<1>4. ASSUME NEW i \in Image \ S PROVE Cardinality(S \cup {i}) = Cardinality(S) + 1
  BY <1>1, FS_AddElement
<1>5. QED
  BY <1>1, <1>2, <1>3, <1>4

LEMMA InitPool == PoolInit => PoolTypeOK /\ PoolInv
<1> SUFFICES ASSUME PoolInit PROVE PoolTypeOK /\ PoolInv
  OBVIOUS
<1>1. Busy = {} /\ Got = {} /\ Reported = {} /\ Failed = {}
  BY DEF PoolInit, Busy, Got, Reported, Failed
<1>2. Cardinality({}) = 0 /\ Cardinality(jobs) \in Nat
  BY FS_EmptySet, Sizes DEF PoolInit
<1>3. PoolTypeOK
  BY <1>2, PoolAssumption DEF PoolInit, PoolTypeOK, Stages
<1>4. PoolInv
  BY <1>1, <1>2 DEF PoolInit, PoolInv
<1>5. QED
  BY <1>3, <1>4

LEMMA SpawnPool ==
    ASSUME PoolTypeOK, PoolInv, NEW i \in jobs, Spawn(i)
    PROVE  PoolTypeOK' /\ PoolInv'
<1>1. /\ i \in Image /\ worker[i] = "none" /\ worker'[i] = "pulling"
      /\ \A j \in Image \ {i} : worker'[j] = worker[j]
      /\ worker' \in [Image -> Stages]
  BY DEF Spawn, Moves, PoolTypeOK, Stages
<1>2. Busy' = Busy \cup {i} /\ i \notin Busy /\ Got' = Got /\ Failed' = Failed
      /\ Reported' = Reported
  <2>1. UNCHANGED <<jobs, ch, errs>>
    BY DEF Spawn
  <2>2. Busy' = Busy \cup {i} /\ i \notin Busy
    BY <1>1 DEF Busy
  <2>3. Reported' = Reported
    BY <2>1 DEF Reported
  <2>4. \A j \in jobs : worker'[j] \in {"sent", "exited"} <=> worker[j] \in {"sent", "exited"}
    BY <1>1 DEF PoolTypeOK
  <2>5. Got' = Got
    BY <2>1, <2>3, <2>4 DEF Got
  <2>6. \A j \in Image : worker'[j] = "failed" <=> worker[j] = "failed"
    BY <1>1
  <2>7. Failed' = Failed
    BY <2>1, <2>6 DEF Failed
  <2>8. QED
    BY <2>2, <2>3, <2>5, <2>7
<1>3. Cardinality(Busy') = Cardinality(Busy) + 1 /\ sem' = sem + 1 /\ sem < Workers
  BY <1>1, <1>2, Sizes DEF Busy, Spawn
<1>4. PoolTypeOK'
  BY <1>1, <1>3, PoolAssumption DEF PoolTypeOK, Spawn
<1>5. PoolInv'
  BY <1>1, <1>2, <1>3 DEF PoolInv, Spawn, PoolTypeOK
<1>6. QED
  BY <1>4, <1>5

LEMMA PulledPool ==
    ASSUME PoolTypeOK, PoolInv, NEW i \in Image, Pulled(i)
    PROVE  PoolTypeOK' /\ PoolInv'
<1>1. /\ worker[i] = "pulling" /\ worker'[i] \in {"pulled", "failed"}
      /\ \A j \in Image \ {i} : worker'[j] = worker[j]
      /\ worker' \in [Image -> Stages]
  BY DEF Pulled, Moves, PoolTypeOK, Stages
<1>2. Busy' = Busy /\ Got' = Got /\ Reported' = Reported
  <2>1. UNCHANGED <<jobs, ch>>
    BY DEF Pulled
  <2>2. Busy' = Busy
    BY <1>1 DEF Busy
  <2>3. Reported' = Reported
    BY <2>1 DEF Reported
  <2>4. \A j \in jobs : worker'[j] \in {"sent", "exited"} <=> worker[j] \in {"sent", "exited"}
    BY <1>1 DEF PoolTypeOK
  <2>5. Got' = Got
    BY <2>1, <2>3, <2>4 DEF Got
  <2>6. QED
    BY <2>2, <2>3, <2>5
<1>3. Failed' = refused' /\ refused' \subseteq jobs
  <2>1. i \in jobs
    BY <1>1 DEF PoolInv
  <2>2. CASE worker'[i] = "pulled"
    BY <1>1, <2>2 DEF Pulled, Failed, Moves, PoolTypeOK, PoolInv
  <2>3. CASE worker'[i] = "failed"
    BY <1>1, <2>1, <2>3 DEF Pulled, Failed, Moves, PoolTypeOK, PoolInv
  <2>4. QED
    BY <1>1, <2>2, <2>3
<1>4. PoolTypeOK'
  BY <1>1, <1>3 DEF PoolTypeOK, Pulled
<1>5. PoolInv'
  BY <1>1, <1>2, <1>3 DEF PoolInv, Pulled, PoolTypeOK
<1>6. QED
  BY <1>4, <1>5

LEMMA SendPool ==
    ASSUME PoolTypeOK, PoolInv, NEW i \in Image, Send(i)
    PROVE  PoolTypeOK' /\ PoolInv' /\ Failed' = Failed
<1> DEFINE r == [image |-> i, ok |-> worker[i] = "pulled"]
<1>1. /\ worker[i] \in {"pulled", "failed"} /\ worker'[i] = "sent"
      /\ \A j \in Image \ {i} : worker'[j] = worker[j]
      /\ worker' \in [Image -> Stages]
      /\ ch' = ch \cup {r}
      /\ UNCHANGED <<jobs, unsent, sem, received, errs, images, refused, phase>>
  BY DEF Send, Moves, PoolTypeOK, Stages
<1>2. i \in jobs /\ i \notin Reported
  BY <1>1 DEF PoolInv, Reported
<1>3. r \in [image : jobs, ok : BOOLEAN] /\ r.image = i
      /\ (r.ok <=> worker[i] = "pulled")
  BY <1>2
<1>4. Reported' = Reported \cup {i}
  BY <1>1, <1>3 DEF Reported
<1>5. Busy' = Busy /\ Got' = Got
  <2>1. Busy' = Busy
    BY <1>1 DEF Busy
  <2>2. \A j \in jobs : /\ worker'[j] \in {"sent", "exited"} /\ j \notin Reported'
                       <=> worker[j] \in {"sent", "exited"} /\ j \notin Reported
    BY <1>1, <1>4 DEF PoolTypeOK
  <2>3. Got' = Got
    BY <1>1, <2>2 DEF Got
  <2>4. QED
    BY <2>1, <2>3
<1>6. Failed' = Failed
  <2>1. CASE worker[i] = "pulled"
    BY <1>1, <1>3, <2>1 DEF Failed
  <2>2. CASE worker[i] = "failed"
    BY <1>1, <1>3, <2>2 DEF Failed
  <2>3. QED
    BY <1>1, <2>1, <2>2
<1>7. PoolTypeOK'
  BY <1>1, <1>3 DEF PoolTypeOK
<1>8. PoolInv'
  <2>1. \A x \in ch' : worker'[x.image] \in {"sent", "exited"}
    BY <1>1, <1>3 DEF PoolInv, PoolTypeOK
  <2>2. \A x, y \in ch' : x.image = y.image => x = y
    BY <1>1, <1>2, <1>3 DEF PoolInv, Reported
  <2>3. \A j \in Image : worker'[j] = "none" <=> j \notin jobs \/ j \in unsent
    BY <1>1, <1>2 DEF PoolInv
  <2>4. QED
    BY <1>1, <1>5, <1>6, <2>1, <2>2, <2>3 DEF PoolInv
<1>9. QED
  BY <1>6, <1>7, <1>8

LEMMA ReleasePool ==
    ASSUME PoolTypeOK, PoolInv, NEW i \in Image, Release(i)
    PROVE  PoolTypeOK' /\ PoolInv'
<1>1. /\ worker[i] = "sent" /\ worker'[i] = "exited"
      /\ \A j \in Image \ {i} : worker'[j] = worker[j]
      /\ worker' \in [Image -> Stages]
  BY DEF Release, Moves, PoolTypeOK, Stages
<1>2. Busy' = Busy \ {i} /\ i \in Busy /\ Got' = Got /\ Failed' = Failed
      /\ Reported' = Reported
  <2>1. UNCHANGED <<jobs, ch, errs>>
    BY DEF Release
  <2>2. Busy' = Busy \ {i} /\ i \in Busy
    BY <1>1 DEF Busy
  <2>3. Reported' = Reported
    BY <2>1 DEF Reported
  <2>4. \A j \in jobs : worker'[j] \in {"sent", "exited"} <=> worker[j] \in {"sent", "exited"}
    BY <1>1 DEF PoolTypeOK
  <2>5. Got' = Got
    BY <2>1, <2>3, <2>4 DEF Got
  <2>6. \A j \in Image : worker'[j] = "failed" <=> worker[j] = "failed"
    BY <1>1
  <2>7. Failed' = Failed
    BY <2>1, <2>6 DEF Failed
  <2>8. QED
    BY <2>2, <2>3, <2>5, <2>7
<1>3. Cardinality(Busy') = Cardinality(Busy) - 1 /\ sem' = sem - 1
      /\ Cardinality(Busy) \in Nat /\ Cardinality(Busy') \in Nat
  BY <1>2, Sizes DEF Busy, Release
<1>4. PoolTypeOK'
  BY <1>1, <1>3, PoolAssumption DEF PoolTypeOK, Release, PoolInv
<1>5. PoolInv'
  BY <1>1, <1>2, <1>3 DEF PoolInv, Release, PoolTypeOK
<1>6. QED
  BY <1>4, <1>5

LEMMA CollectPool ==
    ASSUME PoolTypeOK, PoolInv, NEW r \in ch, Collect(r)
    PROVE  PoolTypeOK' /\ PoolInv' /\ Failed' = Failed
<1>1. /\ ch' = ch \ {r} /\ received' = received + 1
      /\ received < Cardinality(jobs)
      /\ errs' = IF r.ok THEN errs ELSE errs \cup {r.image}
      /\ UNCHANGED <<jobs, unsent, worker, sem, images, refused, phase>>
  BY DEF Collect
<1>2. r.image \in jobs /\ r.image \in Image /\ worker[r.image] \in {"sent", "exited"}
  BY DEF PoolTypeOK, PoolInv
<1>3. Reported' = Reported \ {r.image}
  BY <1>1 DEF PoolInv, Reported
<1>4. Got' = Got \cup {r.image} /\ r.image \notin Got /\ Busy' = Busy
  BY <1>1, <1>2, <1>3 DEF Got, Busy, Reported
<1>5. Cardinality(Got') = Cardinality(Got) + 1
  BY <1>2, <1>4, Sizes DEF Got, PoolTypeOK
<1>6. Failed' = Failed
  BY <1>1 DEF Failed
<1>7. PoolTypeOK'
  BY <1>1, <1>2, Sizes DEF PoolTypeOK
<1>8. PoolInv'
  <2>1. sem' = Cardinality(Busy') /\ received' = Cardinality(Got')
    BY <1>1, <1>4, <1>5 DEF PoolInv
  <2>2. errs' \subseteq Got'
    BY <1>1, <1>4 DEF PoolInv
  <2>3. /\ \A x \in ch' : worker'[x.image] \in {"sent", "exited"}
        /\ \A x, y \in ch' : x.image = y.image => x = y
    BY <1>1 DEF PoolInv
  <2>4. phase' # "returned"
    BY DEF Collect
  <2>5. QED
    BY <1>1, <1>6, <2>1, <2>2, <2>3, <2>4 DEF PoolInv
<1>9. QED
  BY <1>6, <1>7, <1>8

LEMMA CallerPool ==
    ASSUME PoolTypeOK, PoolInv, Spawned \/ CallerReturns \/ UNCHANGED poolVars
    PROVE  PoolTypeOK' /\ PoolInv'
<1>1. UNCHANGED <<jobs, unsent, worker, sem, ch, received, errs, images, refused>>
  BY DEF Spawned, CallerReturns, poolVars
<1>2. Busy' = Busy /\ Got' = Got /\ Failed' = Failed
  BY <1>1 DEF Busy, Got, Failed, Reported
<1>3. QED
  BY <1>1, <1>2 DEF PoolTypeOK, PoolInv, Spawned, CallerReturns, poolVars

LEMMA NextPool == PoolTypeOK /\ PoolInv /\ [PoolNext]_poolVars => PoolTypeOK' /\ PoolInv'
BY SpawnPool, PulledPool, SendPool, ReleasePool, CollectPool, CallerPool
   DEF PoolNext, Caller, Worker

\* The counters are the sizes of what they count, at every step.
THEOREM PoolInvariant == PoolSpec => [](PoolTypeOK /\ PoolInv)
<1>1. QED
  BY InitPool, NextPool, PTL DEF PoolSpec

-----------------------------------------------------------------------------
\* At most Workers pulls are under way at any time.
THEOREM PoolBounded == PoolSpec => []Bounded
<1>1. PoolTypeOK /\ PoolInv => Bounded
  <2> SUFFICES ASSUME PoolTypeOK, PoolInv PROVE Bounded
    OBVIOUS
  <2> DEFINE P == {i \in Image : worker[i] = "pulling"}
  <2>1. P \in SUBSET Busy /\ Busy \in SUBSET Image
    BY DEF Busy
  <2>2. Cardinality(P) <= Cardinality(Busy) /\ Cardinality(P) \in Nat
        /\ Cardinality(Busy) \in Nat
    BY <2>1, Sizes
  <2>3. QED
    BY <2>2, PoolAssumption DEF PoolTypeOK, PoolInv, Bounded
<1>2. QED
  BY <1>1, PoolInvariant, PTL

\* When all results are in, every worker has reported and none is left unread.
LEMMA AllIn ==
    ASSUME PoolTypeOK, PoolInv, received = Cardinality(jobs)
    PROVE  /\ Got = jobs
           /\ \A i \in jobs : worker[i] \in {"sent", "exited"}
           /\ ch = {}
           /\ Failed = errs
<1>1. Got = jobs
  BY Sizes DEF PoolTypeOK, PoolInv, Got
<1>2. \A i \in jobs : worker[i] \in {"sent", "exited"} /\ i \notin Reported
  BY <1>1 DEF Got
<1>3. ch = {}
  BY <1>2 DEF Reported, PoolTypeOK
<1>4. \A i \in Image : worker[i] # "failed"
  BY <1>2 DEF PoolInv, PoolTypeOK
<1>5. QED
  BY <1>1, <1>2, <1>3, <1>4 DEF Failed

\* PullImages returns only when every pull is over, and then the errors it
\* returns are those of the pulls that returned one.
THEOREM PoolReports == PoolSpec => []AllReported
<1>1. PoolTypeOK /\ PoolInv => AllReported
  BY AllIn DEF AllReported, PoolInv
<1>2. QED
  BY <1>1, PoolInvariant, PTL

\* The pool implements what Apply takes it for: each image once, in any order.
THEOREM PoolRefines == PoolSpec => PoolImplements
<1> DEFINE Todo == {i \in jobs : worker[i] \in {"none", "pulling"}}
<1>1. PoolInit => Promise!Init
  <2> SUFFICES ASSUME PoolInit PROVE Promise!Init
    OBVIOUS
  <2>1. Todo \in SUBSET Image /\ Failed = {} /\ phase # "returned" /\ images \in SUBSET Image
    BY DEF PoolInit, Failed
  <2>2. QED
    BY <2>1 DEF Promise!Init
<1>2. PoolTypeOK /\ PoolInv /\ [PoolNext]_poolVars => [Promise!Next]_(Promise!vars)
  <2> SUFFICES ASSUME PoolTypeOK, PoolInv, [PoolNext]_poolVars
               PROVE  [Promise!Next]_(Promise!vars)
    OBVIOUS
  <2> USE DEF Promise!vars
  <2>1. ASSUME NEW i \in Image, Pulled(i) PROVE Promise!Next
    <3>1. /\ worker[i] = "pulling" /\ worker'[i] \in {"pulled", "failed"}
          /\ \A j \in Image \ {i} : worker'[j] = worker[j]
          /\ UNCHANGED <<jobs, ch, errs, phase>>
      BY <2>1 DEF Pulled, Moves, PoolTypeOK
    <3>2. i \in Todo /\ Todo' = Todo \ {i}
      <4>1. i \in jobs
        BY <3>1 DEF PoolInv
      <4>2. worker'[i] \notin {"none", "pulling"} /\ jobs \subseteq Image
        BY <3>1 DEF PoolTypeOK
      <4>3. ASSUME NEW j \in jobs
            PROVE  worker'[j] \in {"none", "pulling"}
                     <=> worker[j] \in {"none", "pulling"} /\ j # i
        <5>1. CASE j = i
          BY <5>1, <4>2
        <5>2. CASE j # i
          <6>1. worker'[j] = worker[j]
            BY <5>2, <4>2, <3>1
          <6>2. QED
            BY <5>2, <6>1
        <5>3. QED
          BY <5>1, <5>2
      <4>4. Todo' = Todo \ {i}
        BY <3>1, <4>3
      <4>5. i \in Todo
        BY <3>1, <4>1
      <4>6. QED
        BY <4>4, <4>5
    <3>3. \/ Failed' = Failed /\ images' \in {images, images \cup {i}}
          \/ Failed' = Failed \cup {i} /\ images' = images
      BY <2>1, <3>1 DEF Pulled, Moves, Failed, PoolTypeOK
    <3>4. Promise!Pull(i)
      BY <3>1, <3>2, <3>3 DEF Promise!Pull
    <3>5. QED
      BY <3>4 DEF Promise!Next
  <2>2. CASE CallerReturns
    <3>1. Todo = {}
      BY <2>2, AllIn DEF CallerReturns
    <3>2. Promise!Return
      BY <2>2, <3>1 DEF CallerReturns, Promise!Return, Failed
    <3>3. QED
      BY <3>2 DEF Promise!Next
  <2>3. ASSUME NEW i \in jobs, Spawn(i) PROVE UNCHANGED Promise!vars
    <3>1. Todo' = Todo /\ Failed' = Failed
      BY <2>3 DEF Spawn, Moves, PoolTypeOK, Failed
    <3>2. QED
      BY <2>3, <3>1 DEF Spawn
  <2>4. ASSUME NEW i \in Image, Send(i) \/ Release(i)
        PROVE  UNCHANGED Promise!vars
    <3>1. Todo' = Todo
      BY <2>4 DEF Send, Release, Moves, PoolTypeOK
    <3>2. Failed' = Failed
      BY <2>4, SendPool DEF Release, Moves, PoolTypeOK, Failed
    <3>3. QED
      BY <2>4, <3>1, <3>2 DEF Send, Release
  <2>5. ASSUME NEW r \in ch, Collect(r) PROVE UNCHANGED Promise!vars
    BY <2>5, CollectPool DEF Collect
  <2>6. CASE Spawned \/ UNCHANGED poolVars
    BY <2>6 DEF Spawned, poolVars, Failed
  <2>7. QED
    BY <2>1, <2>2, <2>3, <2>4, <2>5, <2>6 DEF PoolNext, Caller, Worker
<1>3. QED
  BY <1>1, <1>2, PoolInvariant, PTL DEF PoolSpec, PoolImplements, Promise!Spec

-----------------------------------------------------------------------------
\* The goroutine of an image has not finished a stage.
Before(stages) == {i \in jobs : worker[i] \in stages}

\* The steps that PullImages and its goroutines have left.
StepsLeft ==
      Cardinality(unsent)
    + Cardinality(Before({"none", "pulling"}))
    + Cardinality(Before({"none", "pulling", "pulled", "failed"}))
    + Cardinality(Before({"none", "pulling", "pulled", "failed", "sent"}))
    + (Cardinality(jobs) - received)
    + (CASE phase = "spawn" -> 2 [] phase = "collect" -> 1 [] OTHER -> 0)

LEMMA BeforeMoves ==
    ASSUME PoolTypeOK, NEW i \in jobs, NEW to \in Stages, Moves(i, worker[i], to),
           jobs' = jobs, NEW stages
    PROVE  /\ IsFiniteSet(Before(stages)) /\ Cardinality(Before(stages)) \in Nat
           /\ Cardinality(Before(stages))' \in Nat
           /\ worker[i] \in stages /\ to \notin stages =>
                 Cardinality(Before(stages))' = Cardinality(Before(stages)) - 1
           /\ (worker[i] \in stages <=> to \in stages) =>
                 Cardinality(Before(stages))' = Cardinality(Before(stages))
<1>1. /\ i \in Image /\ worker'[i] = to
      /\ \A j \in Image \ {i} : worker'[j] = worker[j]
  BY DEF Moves, PoolTypeOK
<1>2. Before(stages) \in SUBSET Image /\ Before(stages)' \in SUBSET Image
  BY DEF Before, PoolTypeOK
<1>3. ASSUME worker[i] \in stages, to \notin stages
      PROVE  Before(stages)' = Before(stages) \ {i} /\ i \in Before(stages)
  BY <1>1, <1>3 DEF Before, PoolTypeOK
<1>4. ASSUME worker[i] \in stages <=> to \in stages
      PROVE  Before(stages)' = Before(stages)
  BY <1>1, <1>4 DEF Before, PoolTypeOK
<1>5. QED
  BY <1>2, <1>3, <1>4, Sizes

LEMMA BeforeStays ==
    ASSUME PoolTypeOK, UNCHANGED <<jobs, worker>>, NEW stages
    PROVE  /\ Cardinality(Before(stages)) \in Nat
           /\ Cardinality(Before(stages))' = Cardinality(Before(stages))
<1>1. Before(stages) \in SUBSET Image /\ Before(stages)' = Before(stages)
  BY DEF Before, PoolTypeOK
<1>2. QED
  BY <1>1, Sizes

\* A step of PullImages, of which StepsLeft says how many there are.
UsesOneStep == StepsLeft \in Nat \ {0} /\ StepsLeft' = StepsLeft - 1

(***************************************************************************)
(* PullImages cannot go on for ever: each step of its loops and goroutines *)
(* leaves one step fewer, and at first there are five for each image and   *)
(* two more.                                                               *)
(***************************************************************************)
THEOREM PoolRunsOut ==
    /\ PoolInit => StepsLeft = 5 * Cardinality(jobs) + 2
    /\ PoolSpec => [][UsesOneStep]_poolVars
<1>1. PoolInit => StepsLeft = 5 * Cardinality(jobs) + 2
  <2> SUFFICES ASSUME PoolInit PROVE StepsLeft = 5 * Cardinality(jobs) + 2
    OBVIOUS
  <2>1. /\ Before({"none", "pulling"}) = jobs
        /\ Before({"none", "pulling", "pulled", "failed"}) = jobs
        /\ Before({"none", "pulling", "pulled", "failed", "sent"}) = jobs
    BY DEF PoolInit, Before
  <2>2. Cardinality(jobs) \in Nat
    BY Sizes DEF PoolInit
  <2>3. QED
    BY <2>1, <2>2 DEF PoolInit, StepsLeft
<1>2. ASSUME PoolTypeOK, PoolInv, PoolNext
      PROVE  UsesOneStep
  <2>1. /\ Cardinality(jobs) \in Nat /\ received \in 0..Cardinality(jobs)
        /\ Cardinality(unsent) \in Nat
    BY <1>2, Sizes DEF PoolTypeOK
  <2> DEFINE B1 == Before({"none", "pulling"})
             B2 == Before({"none", "pulling", "pulled", "failed"})
             B3 == Before({"none", "pulling", "pulled", "failed", "sent"})
  <2> USE DEF UsesOneStep
  <2>2. ASSUME NEW i \in jobs, Spawn(i) PROVE UsesOneStep
    <3>1. /\ Moves(i, worker[i], "pulling") /\ worker[i] = "none" /\ "pulling" \in Stages
          /\ phase = "spawn" /\ UNCHANGED <<jobs, received, phase>>
      BY <2>2 DEF Spawn, Moves, Stages
    <3>2. /\ Cardinality(B1) \in Nat /\ Cardinality(B1)' = Cardinality(B1)
          /\ Cardinality(B2) \in Nat /\ Cardinality(B2)' = Cardinality(B2)
          /\ Cardinality(B3) \in Nat /\ Cardinality(B3)' = Cardinality(B3)
      BY <1>2, <3>1, BeforeMoves
    <3>3. /\ Cardinality(unsent') = Cardinality(unsent) - 1 /\ Cardinality(unsent') \in Nat
      BY <1>2, <2>2, Sizes DEF Spawn, PoolTypeOK
    <3> HIDE DEF B1, B2, B3
    <3>4. QED
      BY <2>1, <3>1, <3>2, <3>3 DEF StepsLeft, B1, B2, B3
  <2>3. ASSUME NEW i \in Image, Worker(i) PROVE UsesOneStep
    <3>1. /\ i \in jobs /\ UNCHANGED <<jobs, unsent, received, phase>>
          /\ \E to \in Stages : Moves(i, worker[i], to)
      BY <1>2, <2>3 DEF Worker, Pulled, Send, Release, Moves, Stages, PoolInv
    <3>2. PICK to \in Stages : Moves(i, worker[i], to)
      BY <3>1
    <3>3. /\ Cardinality(B1) \in Nat /\ Cardinality(B1)' \in Nat
          /\ Cardinality(B2) \in Nat /\ Cardinality(B2)' \in Nat
          /\ Cardinality(B3) \in Nat /\ Cardinality(B3)' \in Nat
      BY <1>2, <3>1, <3>2, BeforeMoves
    <3>4. CASE Pulled(i)
      <4>1. worker[i] = "pulling" /\ to \in {"pulled", "failed"}
        BY <1>2, <3>2, <3>4 DEF Pulled, Moves, PoolTypeOK
      <4>2. /\ Cardinality(B1)' = Cardinality(B1) - 1
            /\ Cardinality(B2)' = Cardinality(B2) /\ Cardinality(B3)' = Cardinality(B3)
        BY <1>2, <3>1, <3>2, <4>1, BeforeMoves
      <4> HIDE DEF B1, B2, B3
      <4>3. QED
        BY <2>1, <3>1, <3>3, <4>2 DEF StepsLeft, B1, B2, B3
    <3>5. CASE Send(i)
      <4>1. worker[i] \in {"pulled", "failed"} /\ to = "sent"
        BY <1>2, <3>2, <3>5 DEF Send, Moves, PoolTypeOK
      <4>2. /\ Cardinality(B2)' = Cardinality(B2) - 1
            /\ Cardinality(B1)' = Cardinality(B1) /\ Cardinality(B3)' = Cardinality(B3)
        BY <1>2, <3>1, <3>2, <4>1, BeforeMoves
      <4> HIDE DEF B1, B2, B3
      <4>3. QED
        BY <2>1, <3>1, <3>3, <4>2 DEF StepsLeft, B1, B2, B3
    <3>6. CASE Release(i)
      <4>1. worker[i] = "sent" /\ to = "exited"
        BY <1>2, <3>2, <3>6 DEF Release, Moves, PoolTypeOK
      <4>2. /\ Cardinality(B3)' = Cardinality(B3) - 1
            /\ Cardinality(B1)' = Cardinality(B1) /\ Cardinality(B2)' = Cardinality(B2)
        BY <1>2, <3>1, <3>2, <4>1, BeforeMoves
      <4> HIDE DEF B1, B2, B3
      <4>3. QED
        BY <2>1, <3>1, <3>3, <4>2 DEF StepsLeft, B1, B2, B3
    <3>7. QED
      BY <2>3, <3>4, <3>5, <3>6 DEF Worker
  <2>4. ASSUME Spawned \/ CallerReturns \/ \E r \in ch : Collect(r) PROVE UsesOneStep
    <3>1. UNCHANGED <<jobs, worker, unsent>>
      BY <2>4 DEF Spawned, CallerReturns, Collect
    <3>2. /\ Cardinality(B1) \in Nat /\ Cardinality(B1)' = Cardinality(B1)
          /\ Cardinality(B2) \in Nat /\ Cardinality(B2)' = Cardinality(B2)
          /\ Cardinality(B3) \in Nat /\ Cardinality(B3)' = Cardinality(B3)
      BY <1>2, <3>1, BeforeStays
    <3> HIDE DEF B1, B2, B3
    <3>3. QED
      BY <2>1, <2>4, <3>1, <3>2 DEF StepsLeft, Spawned, CallerReturns, Collect, B1, B2, B3
  <2>5. QED
    BY <1>2, <2>2, <2>3, <2>4 DEF PoolNext, Caller
<1>3. QED
  BY <1>1, <1>2, PoolInvariant, PTL DEF PoolSpec

\* A result under way for every image it is about; none of them for i.
LEMMA RoomInChannel ==
    ASSUME PoolTypeOK, PoolInv, NEW i \in jobs, worker[i] \in {"pulled", "failed"}
    PROVE  Cardinality(ch) < Cardinality(jobs)
<1> DEFINE about == [r \in ch |-> r.image]
<1>1. about \in Injection(ch, jobs)
  BY DEF PoolTypeOK, PoolInv, Injection, IsInjective
<1>2. about \notin Surjection(ch, jobs)
  BY DEF PoolInv, Surjection
<1>3. IsFiniteSet(jobs) /\ Cardinality(jobs) \in Nat
  BY Sizes DEF PoolTypeOK
<1>4. /\ IsFiniteSet(ch) /\ Cardinality(ch) <= Cardinality(jobs)
      /\ Cardinality(ch) # Cardinality(jobs)
  BY <1>1, <1>2, <1>3, FS_Injection
<1>5. Cardinality(ch) \in Nat
  BY <1>4, FS_CardinalityType
<1>6. QED
  BY <1>3, <1>4, <1>5

(***************************************************************************)
(* Nobody waits in a circle: the channel has room for whoever has a result *)
(* to send, so a goroutine never waits; the first loop waits for a slot    *)
(* only while a goroutine that holds one runs; the second waits for a      *)
(* result only while a goroutine that will send one runs.                  *)
(***************************************************************************)
NobodyWaitsInCircles ==
    /\ \A i \in jobs : worker[i] \in {"pulled", "failed"} => Cardinality(ch) < Cardinality(jobs)
    /\ phase = "spawn" /\ sem = Workers =>
          \E i \in jobs : worker[i] \in {"pulling", "pulled", "failed", "sent"}
    /\ phase = "collect" /\ received < Cardinality(jobs) /\ ch = {} =>
          \E i \in jobs : worker[i] \in {"pulling", "pulled", "failed"}

\* The semaphore, the channel and the two loops of PullImages cannot deadlock.
THEOREM PoolCannotDeadlock == PoolSpec => []NobodyWaitsInCircles
<1>1. ASSUME PoolTypeOK, PoolInv PROVE NobodyWaitsInCircles
  <2>1. ASSUME sem = Workers
        PROVE  \E i \in jobs : worker[i] \in {"pulling", "pulled", "failed", "sent"}
    <3>1. Busy # {}
      BY <1>1, <2>1, PoolAssumption, FS_EmptySet DEF PoolInv
    <3>2. QED
      BY <1>1, <3>1 DEF Busy, PoolInv
  <2>2. ASSUME phase = "collect", received < Cardinality(jobs), ch = {}
        PROVE  \E i \in jobs : worker[i] \in {"pulling", "pulled", "failed"}
    <3>1. Got # jobs
      BY <1>1, <2>2, Sizes DEF PoolInv, PoolTypeOK
    <3>2. PICK i \in jobs : worker[i] \notin {"sent", "exited"}
      BY <2>2, <3>1 DEF Got, Reported
    <3>3. worker[i] # "none"
      BY <1>1, <2>2, <3>2 DEF PoolInv, PoolTypeOK
    <3>4. QED
      BY <1>1, <3>2, <3>3 DEF PoolTypeOK, Stages
  <2>3. QED
    BY <1>1, <2>1, <2>2, RoomInChannel DEF NobodyWaitsInCircles
<1>2. QED
  BY <1>1, PoolInvariant, PTL

=============================================================================
