--------------------------- MODULE MCRtmpTimeline ---------------------------
(***************************************************************************)
(* RtmpTimeline for TLC: a counter of eight, steps and lateness up to half *)
(* of it, pictures shown before, at and after they are decoded.            *)
(***************************************************************************)
EXTENDS RtmpTimeline

MCCompositionTimes == {-1, 0, 2}
=============================================================================
