---------------------------- MODULE MCRtmpSession ----------------------------
(***************************************************************************)
(* RtmpSession for TLC: two keys, so that publish can name another path,   *)
(* two parameters, so that a header can contradict one, two messages in a  *)
(* read and every third read acknowledged.                                 *)
(***************************************************************************)
EXTENDS RtmpSession, TLC

CONSTANTS app1, k1, k2, x, y

MCApps == {app1}
MCKeys == {k1, k2}
MCParams == {x, y}

Symmetric == Permutations(MCKeys) \union Permutations(MCParams)
=============================================================================
