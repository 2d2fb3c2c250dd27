----------------------------- MODULE MediaFormats -----------------------------
(***************************************************************************)
(* The forms media comes in and goes out in: FLV tags (rtmp/flv.rs), the   *)
(* framings and the record of H.264 (codec/h264.rs), the record of AAC     *)
(* (codec/aac.rs), a Description (track.rs) and its SDP (rtsp/sdp.rs).     *)
(*                                                                         *)
(* Bytes are numbers below 256, everything made of bytes a sequence of     *)
(* them, and a NAL unit its bytes.  What cannot be read is an Error, and   *)
(* what ends the task a Panic.                                             *)
(***************************************************************************)
EXTENDS Integers, Sequences, SequencesExt

CONSTANTS Error, Panic

\* What is left of data after its first n bytes.
From(data, n) == SubSeq(data, n + 1, Len(data))

\* A number as n bytes, most significant first, and back.
Bytes(value, n) == [i \in 1..n |-> (value \div 256 ^ (n - i)) % 256]
Number(bytes) == FoldLeft(LAMBDA value, byte : value * 256 + byte, 0, bytes)

(***************************************************************************)
(* FLV tags                                                                *)
(***************************************************************************)

AVC == 7
AAC == 10

\* Mutant: a composition time is never negative.
Unsigned24(bytes) == Number(bytes)

si24(bytes) == IF bytes[1] < 128 THEN Number(bytes) ELSE Number(<<bytes[1] - 128, bytes[2], bytes[3]>>) - 2 ^ 23

put_si24(value) == Bytes(IF value < 0 THEN value + 2 ^ 24 ELSE value, 3)

read_video(data) ==
  CASE Len(data) < 1 -> Error
    [] data[1] >= 128 -> Error            \* an enhanced tag
    [] data[1] % 16 # AVC -> Error
    [] Len(data) < 2 -> Error
    [] data[2] = 0 -> IF Len(data) < 5 THEN Panic ELSE [is |-> "header", record |-> From(data, 5)]
    [] data[2] = 1 ->
         IF Len(data) < 5 THEN Error
         ELSE [is |-> "picture", keyframe |-> data[1] \div 16 \in {1, 4},
               composition_time |-> si24(SubSeq(data, 3, 5)), data |-> From(data, 5)]
    [] data[2] = 2 -> [is |-> "end"]
    [] OTHER -> Error

read_audio(data) ==
  CASE Len(data) < 1 -> Error
    [] data[1] \div 16 # AAC -> Error
    [] Len(data) < 2 -> Error
    [] data[2] = 0 -> [is |-> "header", record |-> From(data, 2)]
    [] data[2] = 1 -> [is |-> "frame", data |-> From(data, 2)]
    [] OTHER -> Error

\* The first byte of a tag is a keyframe or not and AVC; AAC and three constants.
write_video(tag) ==
  CASE tag.is = "header" -> <<23, 0>> \o put_si24(0) \o tag.record
    [] tag.is = "picture" ->
         IF tag.composition_time \notin -(2 ^ 23)..(2 ^ 23 - 1) THEN Error
         ELSE <<IF tag.keyframe THEN 23 ELSE 39, 1>> \o put_si24(tag.composition_time) \o tag.data
    [] tag.is = "end" -> <<23, 2>> \o put_si24(0)

write_audio(tag) ==
  IF tag.is = "header" THEN <<175, 0>> \o tag.record ELSE <<175, 1>> \o tag.data

(***************************************************************************)
(* NAL units                                                               *)
(***************************************************************************)

\* The width of the start code at offset i (from 0), if there is one.
CodeAt(data, i) ==
  IF IsPrefix(<<0, 0, 0, 1>>, From(data, i)) THEN 4
  ELSE IF IsPrefix(<<0, 0, 1>>, From(data, i)) THEN 3 ELSE 0

starts_with_start_code(data) == CodeAt(data, 0) # 0

\* Where start codes begin: from the left, and not within another.
RECURSIVE CodesFrom(_, _)
CodesFrom(data, i) ==
  IF i + 3 > Len(data) THEN << >>
  ELSE IF CodeAt(data, i) = 0 THEN CodesFrom(data, i + 1)
  ELSE <<i>> \o CodesFrom(data, i + CodeAt(data, i))

\* Mutant: a unit ends where a start code of three bytes would begin.
split_annex_b_short(data) ==
  LET codes == CodesFrom(data, 0)
      unit(k) == SubSeq(data, codes[k] + CodeAt(data, codes[k]) + 1,
                        IF k < Len(codes) THEN codes[k + 1] + CodeAt(data, codes[k + 1]) - 3 ELSE Len(data))
  IN SelectSeq([k \in DOMAIN codes |-> unit(k)], LAMBDA u : u # << >>)

\* Each unit goes from after its start code to where the next one begins, and
\* those of no bytes are skipped.
split_annex_b(data) ==
  LET codes == CodesFrom(data, 0)
      unit(k) == SubSeq(data, codes[k] + CodeAt(data, codes[k]) + 1,
                        IF k < Len(codes) THEN codes[k + 1] ELSE Len(data))
  IN SelectSeq([k \in DOMAIN codes |-> unit(k)], LAMBDA u : u # << >>)

to_annex_b(units) == FlattenSeq([i \in DOMAIN units |-> <<0, 0, 0, 1>> \o units[i]])

\* Every unit, or Error if any length is wrong.
RECURSIVE split_length_prefixed(_, _)
split_length_prefixed(data, size) ==
  IF data = << >> THEN << >>
  ELSE LET length == Number(SubSeq(data, 1, size))
           rest == split_length_prefixed(From(data, size + length), size)
       IN IF Len(data) < size THEN Error
          ELSE IF length = 0 \/ Len(data) < size + length THEN Error
          ELSE IF rest = Error THEN Error
          ELSE <<SubSeq(data, size + 1, size + length)>> \o rest

\* A unit may be too long for its length.
Fits(unit, size) == size >= 4 \/ Len(unit) < 256 ^ size

to_length_prefixed(units, size) ==
  IF \A i \in DOMAIN units : Fits(units[i], size)
  THEN FlattenSeq([i \in DOMAIN units |-> Bytes(Len(units[i]), size) \o units[i]])
  ELSE Error

(***************************************************************************)
(* AVCDecoderConfigurationRecord                                           *)
(***************************************************************************)

\* parameter_sets: count of them and where they end, or Error.
RECURSIVE SetsFrom(_, _)
SetsFrom(data, count) ==
  IF count = 0 THEN [sets |-> << >>, rest |-> data]
  ELSE LET length == Number(SubSeq(data, 1, 2))
           more == SetsFrom(From(data, 2 + length), count - 1)
       IN IF Len(data) < 2 THEN Error
          ELSE IF length = 0 \/ Len(data) < 2 + length THEN Error
          ELSE IF more = Error THEN Error
          ELSE [sets |-> <<SubSeq(data, 3, 2 + length)>> \o more.sets, rest |-> more.rest]

parameter_sets(data, mask) == IF data = << >> THEN Error ELSE SetsFrom(From(data, 1), data[1] % mask)

NalLengthSize(data) == (data[5] % 4) + 1

\* AvcConfig::parse
avc_parse(data) ==
  LET sps == parameter_sets(From(data, 5), 32)
      pps == parameter_sets(sps.rest, 256)
  IN IF Len(data) < 5 THEN Error
     ELSE IF data[1] # 1 \/ sps = Error THEN Error
     ELSE IF pps = Error THEN Error
     ELSE IF sps.sets = << >> \/ pps.sets = << >> THEN Error
     ELSE [sps |-> sps.sets, pps |-> pps.sets, nal_length_size |-> NalLengthSize(data)]

profile_level(config) == IF Len(config.sps[1]) < 4 THEN Error ELSE SubSeq(config.sps[1], 2, 4)

\* AvcConfig::to_bytes
avc_to_bytes(config) ==
  LET sets(of) == to_length_prefixed(of, 2)
  IN IF profile_level(config) = Error \/ sets(config.sps) = Error \/ sets(config.pps) = Error THEN Error
     ELSE <<1>> \o profile_level(config) \o <<251 + config.nal_length_size>>
            \o <<224 + (Len(config.sps) % 32)>> \o sets(config.sps)
            \o <<Len(config.pps) % 256>> \o sets(config.pps)

(***************************************************************************)
(* AudioSpecificConfig                                                     *)
(***************************************************************************)

SAMPLE_RATES == <<96000, 88200, 64000, 48000, 44100, 32000, 24000, 22050, 16000, 12000, 11025, 8000, 7350>>
CHANNELS == <<0, 1, 2, 3, 4, 5, 6, 8>>

\* Bits::read: count bits after an offset; the record has them all.
Bits(data, offset, count) ==
  FoldLeft(LAMBDA value, i : 2 * value + ((data[(i \div 8) + 1] \div 2 ^ (7 - (i % 8))) % 2), 0,
           [i \in 1..count |-> offset + i - 1])

ExplicitRate(index) == IF index = 15 THEN 24 ELSE 0

\* Parameters::parse
aac_parse(config) ==
  LET has(n) == Len(config) * 8 >= n
      escaped == Bits(config, 0, 5) = 31
      object_type == IF escaped THEN Bits(config, 5, 6) + 32 ELSE Bits(config, 0, 5)
      at == IF escaped THEN 11 ELSE 5
      index == Bits(config, at, 4)
      rate == IF index = 15 THEN Bits(config, at + 4, ExplicitRate(index)) ELSE SAMPLE_RATES[index + 1]
      end == at + 4 + ExplicitRate(index)
      layout == Bits(config, end, 4)
  IN IF ~has(5) THEN Error
     ELSE IF ~has(at + 4) \/ object_type = 0 THEN Error
     ELSE IF ~has(end + 4) \/ index \in {13, 14} THEN Error
     ELSE IF layout \notin 1..7 THEN Error
     ELSE [config |-> config, object_type |-> object_type, sample_rate |-> rate,
           channels |-> CHANNELS[layout + 1]]

(***************************************************************************)
(* Description and SDP                                                     *)
(***************************************************************************)

\* Description::new: of the tracks a session has, with what each must have.
Described(codecs) ==
  IF \/ codecs = << >>
     \/ \E i \in DOMAIN codecs :
          codecs[i].kind = "video" /\ (codecs[i].of.sps = << >> \/ codecs[i].of.pps = << >>)
  THEN Error ELSE codecs

hex(bytes) == FlattenSeq([i \in DOMAIN bytes |-> <<bytes[i] \div 16, bytes[i] % 16>>])

\* What stands for no six bits in the last group.
PAD == 64

\* Mutant: a short group is padded for a byte too many.
GroupShort(group) ==
  LET packed == Number([i \in 1..3 |-> IF i <= Len(group) THEN group[i] ELSE 0])
  IN [i \in 1..4 |-> IF i <= Len(group) THEN (packed \div 64 ^ (4 - i)) % 64 ELSE PAD]

\* Three bytes as four numbers of six bits; fewer are padded.
Group(group) ==
  LET packed == Number([i \in 1..3 |-> IF i <= Len(group) THEN group[i] ELSE 0])
  IN [i \in 1..4 |-> IF i <= Len(group) + 1 THEN (packed \div 64 ^ (4 - i)) % 64 ELSE PAD]

base64(bytes) ==
  FlattenSeq([k \in 1..((Len(bytes) + 2) \div 3) |->
                Group(SubSeq(bytes, 3 * k - 2, IF 3 * k < Len(bytes) THEN 3 * k ELSE Len(bytes)))])

\* A media section: its rtpmap, its fmtp and its control.
VideoSection(id, parameters) ==
  LET sets == parameters.sps \o parameters.pps IN
  [media |-> "video", rate |-> 90000, control |-> id,
   profile |-> IF profile_level(parameters) = Error THEN << >> ELSE hex(profile_level(parameters)),
   sets |-> [i \in DOMAIN sets |-> base64(sets[i])]]

AudioSection(id, parameters) ==
  [media |-> "audio", rate |-> parameters.sample_rate, control |-> id,
   channels |-> parameters.channels, config |-> hex(parameters.config)]

\* sdp::describe: a section for each track, numbered from 0.
sdp_describe(description) ==
  [i \in DOMAIN description |->
     IF description[i].kind = "video" THEN VideoSection(i - 1, description[i].of)
     ELSE AudioSection(i - 1, description[i].of)]
=============================================================================
