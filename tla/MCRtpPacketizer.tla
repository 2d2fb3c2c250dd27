--------------------------- MODULE MCRtpPacketizer ---------------------------
(***************************************************************************)
(* RtpPacketizer for TLC: packets with room for 5 bytes, so that fragments *)
(* have 3 of a NAL unit and pieces 1 of a frame; NAL units that just fit,  *)
(* divide exactly and do not; frames from an empty one to one too long.    *)
(***************************************************************************)
EXTENDS RtpPacketizer

MCVideoUnits == {<<>>, <<7>>, <<5, 8>>, <<9, 1>>}
MCAudioUnits == {<<0>>, <<2>>, <<3>>}
MCClockRate == [t \in Tracks |-> IF t = "video" THEN 3 ELSE 2]
MCTimes == {0, 2, 3, 5}
MCStarts == {[sequence |-> 0, origin |-> 0], [sequence |-> 2, origin |-> 6]}
=============================================================================
