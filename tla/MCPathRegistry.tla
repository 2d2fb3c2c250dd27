--------------------------- MODULE MCPathRegistry ---------------------------
(***************************************************************************)
(* PathRegistry for TLC.                                                   *)
(***************************************************************************)
EXTENDS PathRegistry, TLC

CONSTANTS p1, p2, p3, r1, l1, n1, n2

ThreePublishers == {p1, p2, p3}
TwoPublishers == {p1, p2}
OneReader == {r1}
OneLister == {l1}
OneName == {n1}
TwoNames == {n1, n2}

Symmetric == Permutations(ThreePublishers) \union Permutations(TwoNames)
=============================================================================
