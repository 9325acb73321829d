--------------------------- MODULE MCSessionScan ---------------------------
(* SessionScan for TLC: tags and compatible sessions are interchangeable.   *)
EXTENDS SessionScan, TLC

CONSTANTS x1, x2, x3

MCSessions == {x1, x2, x3}

\* x3 has the operation of another reader's role.
MCCompatible == {x1, x2}

Symmetry ==
    Permutations(Scans) \cup Permutations(Tags) \cup Permutations(MCCompatible)

=============================================================================
