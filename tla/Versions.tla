------------------------------- MODULE Versions -------------------------------
(***************************************************************************)
(* Versions as internal/registry/tags.go and internal/upgrade/version.go   *)
(* compare them: sequences of numbers, the longer of two that agree being   *)
(* the greater.                                                             *)
(***************************************************************************)
EXTENDS Naturals, Sequences

Version == Seq(Nat)

\* The first number in which they differ decides, if there is one.
DifferAt(a, b, i) ==
    /\ i \in 1..Len(a) /\ i \in 1..Len(b) /\ a[i] # b[i]
    /\ \A j \in 1..(i - 1) : a[j] = b[j]

Greater(a, b) ==
    \/ \E i \in 1..Len(a) : DifferAt(a, b, i) /\ a[i] > b[i]
    \/ Len(a) > Len(b) /\ \A i \in 1..Len(b) : a[i] = b[i]

\* A tag: its numbers, none if it is not a version, and what follows them.
Tag == [ver : Version, suffix : STRING]

IsVersion(t) == t.ver # <<>>
SameKind(t, u) == IsVersion(t) /\ IsVersion(u) /\ t.suffix = u.suffix

\* CheckTagUpdates: the newer tags of the same major version.
SameMajor(cur, tags) ==
    {t \in tags : SameKind(t, cur) /\ t.ver[1] = cur.ver[1] /\ Greater(t.ver, cur.ver)}

\* The last of them once sorted; tags that compare equal stand in any order.
Newest(tags) == {t \in tags : \A u \in tags : ~Greater(u.ver, t.ver)}
=============================================================================
