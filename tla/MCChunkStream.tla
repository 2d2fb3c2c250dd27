---------------------------- MODULE MCChunkStream ----------------------------
(***************************************************************************)
(* ChunkStream for TLC: two chunk streams of media to interleave, messages *)
(* of none and of two units in chunks of one or two, two message streams,  *)
(* and a clock of three milliseconds, the last of which needs an extended  *)
(* timestamp.                                                              *)
(***************************************************************************)
EXTENDS ChunkStream, TLC

CONSTANTS c1, c2

MCCsids == {c1, c2}
MCShapes == {[length |-> 0, stream |-> 1], [length |-> 2, stream |-> 1], [length |-> 2, stream |-> 2]}

Symmetric == Permutations(MCCsids)
=============================================================================
