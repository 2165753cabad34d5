-------------------------------- MODULE Pulls --------------------------------
(***************************************************************************)
(* What PullImages promises runApply, and what Apply!PullImage takes for   *)
(* one step: every image of the plan is pulled once, in any order, the     *)
(* errors that pulls return are kept, and the caller goes on when none is  *)
(* left.  A pull may also fail without an error: Pull discards the stream  *)
(* in which the engine reports what goes wrong after the first byte.       *)
(***************************************************************************)
EXTENDS Naturals

CONSTANT Image

VARIABLES todo,      \* images not yet pulled
          present,   \* images the engine holds
          failed,    \* images whose pull returned an error
          returned   \* the caller has gone on

vars == <<todo, present, failed, returned>>

Init ==
    /\ todo \in SUBSET Image
    /\ present \in SUBSET Image
    /\ failed = {}
    /\ returned = FALSE

Pull(i) ==
    /\ i \in todo
    /\ todo' = todo \ {i}
    /\ \/ present' \in {present, present \cup {i}} /\ UNCHANGED failed
       \/ failed' = failed \cup {i} /\ UNCHANGED present
    /\ UNCHANGED returned

Return ==
    /\ todo = {} /\ ~returned
    /\ returned' = TRUE
    /\ UNCHANGED <<todo, present, failed>>

Next == (\E i \in Image : Pull(i)) \/ Return

Spec == Init /\ [][Next]_vars
=============================================================================
