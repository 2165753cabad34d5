------------------------------ MODULE MCUpgrade ------------------------------
(* Numbers of one and two digits, a number that leads and one that follows. *)
EXTENDS Upgrade, TLC

Alike == Permutations(Proc)

MCOrder == <<<<1, 2>>, <<1, 10>>, <<2, 0>>>>
MCPublished == {[semver |-> <<1, 2>>, suffix |-> FALSE], [semver |-> <<1, 10>>, suffix |-> TRUE],
          [semver |-> <<2, 0>>, suffix |-> FALSE]}
MCLocal == {[track |-> "release", semver |-> <<1, 10>>, extra |-> TRUE, sha |-> None],
            [track |-> "unknown", semver |-> <<>>, extra |-> FALSE, sha |-> None],
            [track |-> "devel", semver |-> <<>>, extra |-> FALSE, sha |-> None]}
=============================================================================
