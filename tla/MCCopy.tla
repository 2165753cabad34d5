-------------------------------- MODULE MCCopy --------------------------------
(***************************************************************************)
(* Two processes that copy: every direction, into the same container, and  *)
(* across two containers in both directions at once.                       *)
(***************************************************************************)
EXTENDS Copy

Cp(src, dst, link, rename) ==
    [src |-> src, dst |-> dst, link |-> link, rename |-> rename,
     refused |-> FALSE, stdio |-> FALSE]

SomeRequests ==
    {Cp("a", "a", TRUE, TRUE), Cp("a", "b", FALSE, FALSE), Cp("b", "a", TRUE, TRUE),
     Cp("a", "host", TRUE, FALSE), Cp("host", "b", TRUE, TRUE), Cp("b", "host", FALSE, FALSE),
     [Cp("a", "host", FALSE, FALSE) EXCEPT !.stdio = TRUE],
     [Cp("host", "a", FALSE, FALSE) EXCEPT !.stdio = TRUE],
     [Cp("a", "b", FALSE, FALSE) EXCEPT !.refused = TRUE]}

Renaming == {Cp("a", "host", FALSE, TRUE)}
=============================================================================
