------------------------------ MODULE TopoSort ------------------------------
(***************************************************************************)
(* topoSort of internal/reconcile/plan.go: Kahn's algorithm over the       *)
(* planned containers, with the counters, the queue and the two loops over *)
(* a Go map (whose order is any order) that the code has.                  *)
(***************************************************************************)
EXTENDS Naturals, FiniteSets, Sequences

CONSTANTS Name,      \* logical container names
          Graphs     \* the depends_on graphs that may be planned

ASSUME TopoAssumption ==
    /\ IsFiniteSet(Name)
    /\ \A g \in Graphs : /\ DOMAIN g \subseteq Name
                         /\ g \in [DOMAIN g -> SUBSET DOMAIN g]

VARIABLES deps,      \* depends_on of each planned container, planned ones only
          inDegree,  \* how many of them have not been placed
          queue,     \* placed next, in this order
          sorted,    \* the plan's containers in their new order
          cur,       \* the container taken from the queue last
          left,      \* what the current loop still has to visit
          pc         \* "seed" the queue, "take" from it, "visit" successors, "done"

vars == <<deps, inDegree, queue, sorted, cur, left, pc>>

Planned == DOMAIN deps
Elements(seq) == {seq[i] : i \in 1..Len(seq)}
Successors(n) == {m \in Planned : n \in deps[m]}

TypeOK ==
    /\ deps \in Graphs
    /\ inDegree \in [Planned -> Nat]
    /\ queue \in Seq(Planned) /\ sorted \in Seq(Planned)
    /\ left \in SUBSET Planned
    /\ pc \in {"seed", "take", "visit", "done"}
    /\ pc = "visit" => cur \in Planned

Init ==
    /\ deps \in Graphs
    /\ inDegree = [n \in Planned |-> Cardinality(deps[n])]
    /\ queue = <<>> /\ sorted = <<>>
    /\ cur = CHOOSE n \in Name : TRUE
    /\ left = Planned
    /\ pc = "seed"

\* One iteration of the loop that collects the containers without dependencies.
Seed(n) ==
    /\ pc = "seed" /\ n \in left
    /\ queue' = IF inDegree[n] = 0 THEN Append(queue, n) ELSE queue
    /\ left' = left \ {n}
    /\ UNCHANGED <<deps, inDegree, sorted, cur, pc>>

Seeded ==
    /\ pc = "seed" /\ left = {}
    /\ pc' = "take"
    /\ UNCHANGED <<deps, inDegree, queue, sorted, cur, left>>

\* The head of the queue gets its place.
Take ==
    /\ pc = "take" /\ queue # <<>>
    /\ cur' = Head(queue)
    /\ queue' = Tail(queue)
    /\ sorted' = Append(sorted, cur')
    /\ left' = Successors(cur')
    /\ pc' = "visit"
    /\ UNCHANGED <<deps, inDegree>>

\* Mutant: containers wait for one dependency, not for all.
VisitFirst(m) ==
    /\ pc = "visit" /\ m \in left
    /\ inDegree' = [inDegree EXCEPT ![m] = @ - 1]
    /\ queue' = IF m \in Elements(queue) \cup Elements(sorted) THEN queue
                ELSE Append(queue, m)
    /\ left' = left \ {m}
    /\ UNCHANGED <<deps, sorted, cur, pc>>

\* One iteration of the loop over the containers that depend on cur.
Visit(m) ==
    /\ pc = "visit" /\ m \in left
    /\ inDegree' = [inDegree EXCEPT ![m] = @ - 1]
    /\ queue' = IF inDegree'[m] = 0 THEN Append(queue, m) ELSE queue
    /\ left' = left \ {m}
    /\ UNCHANGED <<deps, sorted, cur, pc>>

Visited ==
    /\ pc = "visit" /\ left = {}
    /\ pc' = "take"
    /\ UNCHANGED <<deps, inDegree, queue, sorted, cur, left>>

Returns ==
    /\ pc = "take" /\ queue = <<>>
    /\ pc' = "done"
    /\ UNCHANGED <<deps, inDegree, queue, sorted, cur, left>>

Next ==
    \/ \E n \in Name : Seed(n) \/ Visit(n)
    \/ Seeded \/ Take \/ Visited \/ Returns

Spec == Init /\ [][Next]_vars

-----------------------------------------------------------------------------
(***************************************************************************)
(* The order is the promised one: seen through the set of containers not   *)
(* yet placed, every step of the algorithm places a container whose        *)
(* planned dependencies are all placed, and "cycle detected in depends_on" *)
(* (topoSort compares the lengths) comes only when no container is free.   *)
(***************************************************************************)
Order == INSTANCE LinearExtension
    WITH todo <- Planned \ Elements(sorted),
         verdict <- IF pc # "done" THEN "open"
                    ELSE IF Len(sorted) = Cardinality(Planned) THEN "sorted"
                    ELSE "cycle"

Implements == Order!Spec

\* The cycle test by lengths is exact: topoSort refuses the plan if and only if
\* some planned containers wait for each other (Cyclic of module Planner).
CyclicGraph == \E S \in SUBSET Planned : S # {} /\ \A n \in S : deps[n] \cap S # {}
CycleDetected ==
    pc = "done" => (Len(sorted) # Cardinality(Planned) <=> CyclicGraph)

-----------------------------------------------------------------------------
(***************************************************************************)
(* The inductive invariant: the counter of a container is the number of    *)
(* its dependencies that are not placed, or placed and not yet visited;    *)
(* at zero, and only then, the container is in the queue or placed.        *)
(***************************************************************************)
Placed == Elements(sorted)
Pending(n) == {d \in deps[n] :
                  d \notin Placed \/ (pc = "visit" /\ d = cur /\ n \in left)}

Counted == \A n \in Planned : inDegree[n] = Cardinality(Pending(n))

Distinct(seq) == \A i, j \in 1..Len(seq) : seq[i] = seq[j] => i = j

Listed ==
    /\ Distinct(queue) /\ Len(sorted) = Cardinality(Placed)
    /\ Elements(queue) \cap Placed = {}
    /\ \A n \in Planned :
          n \in Elements(queue) \cup Placed
             <=> inDegree[n] = 0 /\ ~(pc = "seed" /\ n \in left)

\* Containers that wait for each other are never queued.
Deadlocked(S) == \A n \in S : deps[n] \cap S # {}
NeverQueued ==
    \A S \in SUBSET Planned :
        Deadlocked(S) => S \cap (Elements(queue) \cup Placed) = {}

Phases ==
    /\ pc = "seed" => sorted = <<>>
    /\ pc = "visit" => cur \in Placed /\ left \subseteq Successors(cur)
    /\ pc = "done" => queue = <<>>

SortInv == Counted /\ Listed /\ NeverQueued /\ Phases

=============================================================================
