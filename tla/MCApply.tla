------------------------------- MODULE MCApply -------------------------------
(***************************************************************************)
(* Instances of Apply for TLC.  The stacks are the edits a user makes:     *)
(* bump an image, disable a service, drop one, drop a network.             *)
(***************************************************************************)
EXTENDS Apply

C(image, ns, deps, off) == [image |-> image, nets |-> ns, deps |-> deps, off |-> off]

None == C("v1", {}, {}, FALSE)
Of(specs, ns) ==
    [names |-> DOMAIN specs,
     spec  |-> [n \in Name |-> IF n \in DOMAIN specs THEN specs[n] ELSE None],
     nets  |-> ns]

\* db and web, web depends on db, both on network n.
Base == Of([db |-> C("v1", {"n"}, {}, FALSE), web |-> C("v1", {"n"}, {"db"}, FALSE)], {"n"})
\* The image of db moves.
Bump == Of([db |-> C("v2", {"n"}, {}, FALSE), web |-> C("v1", {"n"}, {"db"}, FALSE)], {"n"})
\* db is given up in YAML, web gets a second network.
Off  == Of([db |-> C("v1", {"n"}, {}, TRUE), web |-> C("v2", {"n", "m"}, {"db"}, FALSE)], {"n", "m"})
\* db is given up in YAML, nothing else changes.
Quiet == Of([db |-> C("v1", {"n"}, {}, TRUE), web |-> C("v1", {"n"}, {"db"}, FALSE)], {"n"})
\* web is no longer declared.
Drop == Of([db |-> C("v2", {"n"}, {}, FALSE)], {"n"})
\* The network is dropped together with its use.
NoNet == Of([db |-> C("v1", {}, {}, FALSE), web |-> C("v1", {}, {"db"}, FALSE)], {})
\* db and web wait for each other.
Cycle == Of([db |-> C("v1", {}, {"web"}, FALSE), web |-> C("v1", {}, {"db"}, FALSE)], {})

Names  == {"db", "web"}
Ids    == 1..5
Edits  == {Base, Bump, Off, Drop, NoNet, Cycle}
SameNet == {Base, Bump, Quiet, Drop}
Selects == {{}, {"db"}, {"web"}}
=============================================================================
