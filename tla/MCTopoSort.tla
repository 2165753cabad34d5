----------------------------- MODULE MCTopoSort -----------------------------
(***************************************************************************)
(* Instances of TopoSort for TLC: every graph of up to three containers,   *)
(* and those of four containers with at most four edges, a diamond and a   *)
(* cycle through all of them included.                                     *)
(***************************************************************************)
EXTENDS TopoSort

Edges(g) == {e \in Name \X Name : e[1] \in DOMAIN g /\ e[2] \in g[e[1]]}
On(S) == [S -> SUBSET S]
SmallGraphs == UNION {On(S) : S \in SUBSET {"a", "b", "c"}}
Sparse == {g \in On(Name) : Cardinality(Edges(g)) \in 3..4}
AllGraphs == SmallGraphs \cup Sparse
=============================================================================
