------------------------------- MODULE Planner -------------------------------
(***************************************************************************)
(* The planner of internal/reconcile/plan.go as a function from a stack,   *)
(* a selection of names, the persistently disabled names and a snapshot of *)
(* the host to a plan.  It has no state of its own: Apply, and every       *)
(* command that reconciles, evaluates it on what it read from the host.    *)
(***************************************************************************)
EXTENDS Naturals, FiniteSets

CONSTANTS Name,    \* logical container names
          Net,     \* logical network names
          Image,   \* image references
          Id,      \* container ids the engine hands out
          NoId     \* the empty id

ASSUME PlannerAssumption == NoId \notin Id /\ Image # {}

(***************************************************************************)
(* A container of stack.yaml: the fields the planner and the engine tell   *)
(* apart.  `image` stands for every hashed field that is neither a network *)
(* nor a dependency; `off` is `disabled: true`, which is not hashed.       *)
(***************************************************************************)
Container == [image : Image, nets : SUBSET Net, deps : SUBSET Name, off : BOOLEAN]

Stack == [names : SUBSET Name, spec : [Name -> Container], nets : SUBSET Net]

\* config.validate: at least one container (validate.go:13), depends_on names
\* declared ones (validate.go:86).
ValidStack(s) ==
    /\ s.names # {}
    /\ \A n \in s.names : s.spec[n].deps \subseteq s.names

\* The digest is as good as the normalised fields it is computed from.
Hashes == [image : Image, nets : SUBSET Net, deps : SUBSET Name]
Hash(c) == [image |-> c.image, nets |-> c.nets, deps |-> c.deps]

(***************************************************************************)
(* What the engine says about the container that holds the full name of a  *)
(* logical name: whose it is by its labels (this project's, another        *)
(* project's, nobody's), whether it runs, and the hash in its labels.      *)
(***************************************************************************)
Owner == {"none", "ours", "other", "unmanaged"}
Ctr == [id : Id \cup {NoId}, owner : Owner, running : BOOLEAN, hash : Hashes]

NoHash == [image |-> CHOOSE i \in Image : TRUE, nets |-> {}, deps |-> {}]
Absent == [id |-> NoId, owner |-> "none", running |-> FALSE, hash |-> NoHash]

-----------------------------------------------------------------------------
\* No names given means the whole stack; orphans are cleaned up only then.
Full(sel) == sel = {}
Selected(s, sel) == IF Full(sel) THEN s.names ELSE s.names \cap sel

\* Build refuses to plan over an unmanaged container that holds a selected name.
Conflict(s, sel, ctrs) ==
    \E n \in Selected(s, sel) : ctrs[n].owner = "unmanaged"

CtrActions ==
    {"none", "create", "recreate", "skip", "remove", "disabled", "declared-off"}

\* Mutant: whether the container exists is tested before the state file.
CtrActionExistsFirst(s, sel, disabled, ctrs, n) ==
    LET exists == ctrs[n].owner = "ours"
    IN  IF n \in Selected(s, sel)
        THEN IF s.spec[n].off THEN IF exists THEN "remove" ELSE "declared-off"
             ELSE IF ~exists THEN "create"
             ELSE IF n \in disabled THEN "disabled"
             ELSE IF ctrs[n].hash = Hash(s.spec[n]) THEN "skip" ELSE "recreate"
        ELSE IF Full(sel) /\ exists THEN "remove" ELSE "none"

\* The tests of Build in their order: YAML, then the state file, then the hash.
CtrAction(s, sel, disabled, ctrs, n) ==
    LET exists == ctrs[n].owner = "ours"
    IN  IF n \in Selected(s, sel)
        THEN IF s.spec[n].off THEN IF exists THEN "remove" ELSE "declared-off"
             ELSE IF n \in disabled THEN "disabled"
             ELSE IF ~exists THEN "create"
             ELSE IF ctrs[n].hash = Hash(s.spec[n]) THEN "skip" ELSE "recreate"
        ELSE IF Full(sel) /\ exists THEN "remove" ELSE "none"

NetActions == {"none", "skip", "create", "remove"}

\* Mutant: orphaned networks are removed by a partial apply too.
NetActionAlways(s, sel, nets, x) ==
    IF x \in s.nets THEN IF x \in nets THEN "skip" ELSE "create"
    ELSE IF x \in nets THEN "remove" ELSE "none"

NetAction(s, sel, nets, x) ==
    IF x \in s.nets THEN IF x \in nets THEN "skip" ELSE "create"
    ELSE IF Full(sel) /\ x \in nets THEN "remove" ELSE "none"

(***************************************************************************)
(* The edges the topological sort follows: the dependencies of a declared  *)
(* container that are in the plan themselves.                              *)
(***************************************************************************)
Planned(s, sel, disabled, ctrs) ==
    {n \in Name : CtrAction(s, sel, disabled, ctrs, n) # "none"}

DepsWithin(s, planned, n) ==
    IF n \in s.names THEN s.spec[n].deps \cap planned ELSE {}

Cyclic(s, planned) ==
    \E S \in (SUBSET planned) \ {{}} : \A n \in S : DepsWithin(s, S, n) # {}

(***************************************************************************)
(* A plan: the stack and the disabled names it was computed from, the      *)
(* action of every container and network, the id of the container each     *)
(* action is about, and for each container the planned ones it comes after.*)
(***************************************************************************)
Plan == [stack : Stack, disabled : SUBSET Name,
         ctr : [Name -> CtrActions], net : [Net -> NetActions],
         id : [Name -> Id \cup {NoId}], after : [Name -> SUBSET Name]]

Build(s, sel, disabled, ctrs, nets) ==
    LET planned == Planned(s, sel, disabled, ctrs)
    IN  [stack |-> s,
         disabled |-> disabled,
         ctr   |-> [n \in Name |-> CtrAction(s, sel, disabled, ctrs, n)],
         net   |-> [x \in Net |-> NetAction(s, sel, nets, x)],
         id    |-> [n \in Name |->
                        IF ctrs[n].owner = "ours" THEN ctrs[n].id ELSE NoId],
         after |-> [n \in Name |-> DepsWithin(s, planned, n)]]

BuildFails(s, sel, disabled, ctrs) ==
    \/ Conflict(s, sel, ctrs)
    \/ Cyclic(s, Planned(s, sel, disabled, ctrs))

HasChanges(p) ==
    \/ \E x \in Net : p.net[x] \in {"create", "remove"}
    \/ \E n \in Name : p.ctr[n] \in {"create", "recreate", "remove"}

=============================================================================
