-------------------------- MODULE MCRtspConnection --------------------------
(***************************************************************************)
(* RtspConnection for TLC: two paths, so that requests can name another;   *)
(* a stream with pictures and sound and one with sound alone, so that what *)
(* a publisher leaves and its successor brings differ; two channels.       *)
(***************************************************************************)
EXTENDS RtspConnection, TLC

CONSTANTS p1, p2, video, sound, c1, c2

MCPaths == {p1, p2}
MCCodecs == {video, sound}
MCDescriptions == {<<video, sound>>, <<sound>>}
MCChannels == {c1, c2}

Symmetric == Permutations(MCPaths) \union Permutations(MCChannels)
=============================================================================
