----------------------------- MODULE MCPathFeed -----------------------------
(***************************************************************************)
(* PathFeed for TLC.  Four units overrun a channel of two twice, the       *)
(* second time while a reader looks for a keyframe, and outgrow a cache of *)
(* two or three bytes with and without pictures.                           *)
(***************************************************************************)
EXTENDS PathFeed, TLC

CONSTANTS r1, r2

MCReaders == {r1, r2}
OneReader == {r1}

Symmetric == Permutations(MCReaders)
=============================================================================
