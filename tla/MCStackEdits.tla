----------------------------- MODULE MCStackEdits -----------------------------
(***************************************************************************)
(* Two pages of the editor and an update of two containers, one pinned to a *)
(* version and one at a floating tag.                                        *)
(***************************************************************************)
EXTENDS StackEdits

T(ver, suffix) == [ver |-> ver, suffix |-> suffix]
Latest == T(<<>>, "latest")
Names == {"db", "web"}
First == [n \in Name |-> IF n = "db" THEN T(<<1, 2>>, "") ELSE Latest]
Listed == [n \in Name |->
             IF n = "db"
             THEN {T(<<1, 2>>, ""), T(<<1, 2, 1>>, ""), T(<<1, 10>>, ""), T(<<1, 9, 3>>, ""),
                   T(<<1, 11>>, "-alpine"), T(<<2, 0>>, ""), Latest}
             ELSE {Latest, T(<<7>>, "")}]
Some == {[n \in Name |-> [owner |-> IF n = "db" THEN "ours" ELSE "unmanaged",
                          image |-> First[n], running |-> TRUE]]}
Nobody == {}

Pages == {"p", "q"}
Edits == [c \in Pages |-> IF c = "p" THEN 2 ELSE 1]
=============================================================================
