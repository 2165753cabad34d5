----------------------------- MODULE MCCommands -----------------------------
(***************************************************************************)
(* Instances of Commands for TLC: two declared containers and a name that  *)
(* is not declared; hosts as earlier applies and other parties leave them. *)
(***************************************************************************)
EXTENDS Commands

C(image) == [image |-> image, nets |-> {}, deps |-> {}, off |-> FALSE]
Names == {"db", "web", "old"}
TwoNames == {"db", "web"}
Ids == 1..8

Stack1 == [names |-> {"db", "web"}, spec |-> [n \in Name |-> C("v2")], nets |-> {}]

On(id, owner, running, image) ==
    [id |-> id, owner |-> owner, running |-> running, hash |-> Hash(C(image))]
Host(db, web, rest) ==
    [n \in Name |-> CASE n = "db" -> db [] n = "web" -> web [] OTHER -> rest]

Up(id)      == On(id, "ours", TRUE, "v2")
Drifted(id) == On(id, "ours", TRUE, "v1")
Down(id)    == On(id, "ours", FALSE, "v2")
Foreign(id) == On(id, "unmanaged", FALSE, "v1")

SomeHosts == {Host(Up(1), Drifted(2), Absent), Host(Foreign(1), On(2, "other", TRUE, "v1"), Down(3))}
OneHost == {Host(Up(1), Drifted(2), Absent)}
ForeignHost == {Host(Up(1), Foreign(2), Absent)}

AllCmds == Commands
UpCmds == {"start", "restart", "repull"}
SomeArgs == {{}, {"web"}, {"db", "web"}, {"web", "old"}}
OneArg == {{"db"}}
EachArg == {{"db"}, {"web"}}
=============================================================================
