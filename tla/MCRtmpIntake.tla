----------------------------- MODULE MCRtmpIntake -----------------------------
(***************************************************************************)
(* RtmpIntake for TLC: records of one and two parameter sets, each whole   *)
(* and cut off anywhere, pictures of every few bytes and of framed units,  *)
(* one of them longer than one byte can count, and all sorts of sound.     *)
(***************************************************************************)
EXTENDS RtmpIntake, TLC

MCChunks == <<<<"chunk", 1>>, <<"chunk", 2>>>>

MCFields ==
  {<<"number", 1>>, <<"boolean", 0>>, <<"boolean", 2>>, <<"string", 1>>, <<"long string", 1>>,
   <<"long string", U16>>, <<"object", 0>>, <<"ecma", 0>>, <<"ecma", 2>>, <<"strict", 1>>, <<"strict", 2>>,
   Key(0), Key(1), End, <<"null", 0>>, <<"movie clip", 0>>}

\* Records
Sps == <<103, 66, 192, 30>>
SpsShort == <<103, 66>>
Pps == <<104, 206, 0>>

Counted(sets) == FlattenSeq([i \in DOMAIN sets |-> Bytes(Len(sets[i]), 2) \o sets[i]])
AvcRecord(sps, pps, size) ==
  <<1, 66, 192, 30, 252 + size - 1, 224 + Len(sps)>> \o Counted(sps) \o <<Len(pps)>> \o Counted(pps)

Meant == {[sps |-> <<Sps>>, pps |-> <<Pps>>, nal_length_size |-> 1],
          [sps |-> <<Sps>>, pps |-> <<Pps>>, nal_length_size |-> 2],
          [sps |-> <<SpsShort, Sps>>, pps |-> <<Pps, Sps>>, nal_length_size |-> 4],
          [sps |-> << >>, pps |-> <<Pps>>, nal_length_size |-> 4],
          [sps |-> <<Sps>>, pps |-> << >>, nal_length_size |-> 4]}
Whole(m) == AvcRecord(m.sps, m.pps, m.nal_length_size)
Usable(m) == m.sps # << >> /\ m.pps # << >>
\* What comes after the sets of a record is nothing to do with them.
Trailing(m) == Whole(m) \o <<253, 0>>

MCAvcRecords ==
  [r \in UNION {Prefixes(Whole(m)) : m \in Meant} \union {Trailing(m) : m \in Meant} |->
     IF \E m \in Meant : Usable(m) /\ r \in {Whole(m), Trailing(m)}
     THEN CHOOSE m \in Meant : Usable(m) /\ r \in {Whole(m), Trailing(m)} ELSE Error]

\* LC of 44100 Hz and two channels, the same with the rate written out, an
\* escaped object type, and three that state too little.
Sound(rate, channels) == [sample_rate |-> rate, channels |-> channels]
AacStated ==
  <<18, 16>> :> Sound(44100, 2) @@ <<18, 16, 86>> :> Sound(44100, 2)
  @@ <<23, 128, 86, 34, 16>> :> Sound(44100, 2) @@ <<248, 134, 64>> :> Sound(48000, 2)
  @@ <<18, 0>> :> Error @@ <<22, 144>> :> Error @@ <<2, 16>> :> Error
MCAacRecords ==
  [r \in UNION {Prefixes(a) : a \in DOMAIN AacStated} |-> IF r \in DOMAIN AacStated THEN AacStated[r] ELSE Error]

\* Pictures
Long == [i \in 1..256 |-> 65]
Units == {<<101>>, <<6, 1>>, <<65, 0, 0, 3, 1>>, Long}
Framed == {to_length_prefixed(us, size) : us \in BoundedSeq(Units, 2), size \in {1, 2, 4}} \ {Error}
Picture(time, data) == [is |-> "picture", keyframe |-> TRUE, composition_time |-> time, data |-> data]
MCPictures ==
  {write_video(Picture(0, data)) : data \in BoundedSeq({0, 1, 101}, 4) \union Framed}
  \union {write_video(Picture(time, <<0, 0, 0, 1, 101>>)) : time \in {-1, -(2 ^ 23), 2 ^ 23 - 1}}
  \union {SubSeq(write_video(Picture(0, <<>>)), 1, n) : n \in 0..4}
  \union {<<39, 1, 0, 0, 0, 1, 65>>, <<23, 2, 0, 0, 0>>, <<23, 3>>, <<18, 1, 0, 0, 0>>, <<151, 1>>}
ShortHeaders == {<<23, 0, 0>>}
MCSounds == {<<175, 1, 33>>, <<175, 2>>, <<47, 1>>, <<175>>, << >>}
=============================================================================
