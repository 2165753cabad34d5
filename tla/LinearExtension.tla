--------------------------- MODULE LinearExtension ---------------------------
(***************************************************************************)
(* What the planner promises Apply about the order of a plan: its          *)
(* containers leave one at a time, each after the planned ones it depends  *)
(* on, and the sort gives up only when that cannot go on.  Apply!Ready     *)
(* takes containers in exactly this order.                                 *)
(***************************************************************************)
EXTENDS Naturals, FiniteSets

CONSTANT Graphs      \* the depends_on graphs: functions from names to sets of names

VARIABLES deps,      \* the graph of this plan
          todo,      \* the containers not yet placed
          verdict    \* "open", then "sorted" or "cycle"

vars == <<deps, todo, verdict>>

Init ==
    /\ deps \in Graphs
    /\ todo = DOMAIN deps
    /\ verdict = "open"

Place(n) ==
    /\ verdict = "open"
    /\ n \in todo /\ deps[n] \cap todo = {}
    /\ todo' = todo \ {n}
    /\ UNCHANGED <<deps, verdict>>

Sorted ==
    /\ verdict = "open" /\ todo = {}
    /\ verdict' = "sorted"
    /\ UNCHANGED <<deps, todo>>

Cycle ==
    /\ verdict = "open" /\ todo # {}
    /\ \A n \in todo : deps[n] \cap todo # {}
    /\ verdict' = "cycle"
    /\ UNCHANGED <<deps, todo>>

Next == (\E n \in todo : Place(n)) \/ Sorted \/ Cycle

Spec == Init /\ [][Next]_vars
=============================================================================
