------------------------------ MODULE RtmpIntake ------------------------------
(***************************************************************************)
(* What an encoder sends, from its first byte until it is media that may   *)
(* be relayed: the Handshake of src/src/rtmp/handshake.rs with the start   *)
(* of connection() in rtmp/server.rs, the command messages that Amf0 reads *)
(* and the media messages that MediaFormats reads.                         *)
(*                                                                         *)
(* An encoder may send everything at once, the start of its chunk stream   *)
(* included, or wait for the server's half before each step.  Chunks are   *)
(* in ChunkStream and the state of a session in RtmpSession; here is what  *)
(* its messages contain.                                                   *)
(***************************************************************************)
EXTENDS Amf0, MediaFormats

CONSTANTS
  SIZE,       \* HANDSHAKE_SIZE: a time, a version, and what is random
  Chunks,     \* what follows C2
  Fields,     \* what a command message consists of
  AvcRecords, \* records, each with what it states, or Error
  AacRecords,
  Pictures,   \* the payloads of other video messages, and of other audio ones
  Sounds,
  None,
  MaxFields,  \* bound: of a command message
  MaxMedia    \* bound: media messages

VARIABLES
  \* the encoder
  waits,      \* it waits for the server before each step
  version,    \* C0
  digest,     \* it attempts the digest form
  \* between them
  sent,       \* what it has sent and has not arrived
  reply,      \* S0, S1 and S2, when it has been sent
  \* connection()
  pc,         \* Handshake::state; "serving"; refused, or ended by a panic
  buf,
  \* messages
  fields,     \* the command message under way
  publishing,
  tag,        \* the last media message: its kind and its payload
  config, sound, \* Session::pending: the parameters that were stated
  published,  \* they are settled
  units,      \* the NAL units of the last picture
  count,      \* media messages so far
  stated      \* history: the records they were read from

opening == <<waits, version, digest, sent, reply, buf>>
media == <<tag, config, sound, published, units, count, stated>>
vars == <<opening, pc, fields, publishing, media>>

VERSION == 3
C1 == [i \in 1..SIZE |-> <<"C1", IF i = 2 /\ ~digest THEN 0 ELSE i>>]
C2 == [i \in 1..SIZE |-> <<"C2", i>>]

Init ==
  /\ waits \in BOOLEAN /\ digest \in BOOLEAN /\ version \in {VERSION, VERSION + 1}
  /\ sent = <<<<"C0", version>>>> \o C1 \o (IF waits THEN << >> ELSE C2 \o Chunks)
  /\ reply = None
  /\ pc = "Hello" /\ buf = << >>
  /\ fields = << >> /\ publishing = FALSE
  /\ tag = None /\ config = None /\ sound = None /\ published = FALSE /\ units = None
  /\ count = 0 /\ stated = [video |-> None, audio |-> None]

(***************************************************************************)
(* Handshake::read                                                         *)
(***************************************************************************)

\* S2 is C1, but for the time it was read at.
Reply(hello) ==
  [version |-> VERSION, echo |-> [i \in 1..SIZE |-> IF i = 2 THEN 0 ELSE hello[i]]]

\* Mutant: they are read with the byte after them.
HelloLate ==
  /\ pc = "Hello" /\ Len(buf) > 1 + SIZE
  /\ IF buf[1][2] # VERSION
     THEN pc' = "refused" /\ UNCHANGED <<buf, reply>>
     ELSE /\ pc' = "Echo"
          /\ reply' = Reply(SubSeq(buf, 2, 1 + SIZE))
          /\ buf' = From(buf, 1 + SIZE)
  /\ UNCHANGED <<waits, version, digest, sent, fields, publishing, media>>

\* C0 and C1 together; the digest form is answered plainly.
Hello ==
  /\ pc = "Hello" /\ Len(buf) >= 1 + SIZE
  /\ IF buf[1][2] # VERSION
     THEN pc' = "refused" /\ UNCHANGED <<buf, reply>>
     ELSE /\ pc' = "Echo"
          /\ reply' = Reply(SubSeq(buf, 2, 1 + SIZE))
          /\ buf' = From(buf, 1 + SIZE)
  /\ UNCHANGED <<waits, version, digest, sent, fields, publishing, media>>

\* Mutant: what came with C2 goes with it.
EchoAll ==
  /\ pc = "Echo" /\ Len(buf) >= SIZE
  /\ pc' = "serving"
  /\ buf' = << >>
  /\ waits' = FALSE /\ digest' = FALSE
  /\ UNCHANGED <<version, sent, reply, fields, publishing, media>>

\* C2, which is not checked.  How the encoder went about it is over with.
Echo ==
  /\ pc = "Echo" /\ Len(buf) >= SIZE
  /\ pc' = "serving"
  /\ buf' = From(buf, SIZE)
  /\ waits' = FALSE /\ digest' = FALSE
  /\ UNCHANGED <<version, sent, reply, fields, publishing, media>>

NeedMore == (pc = "Hello" /\ Len(buf) < 1 + SIZE) \/ (pc = "Echo" /\ Len(buf) < SIZE)

Arrive(n) ==
  /\ NeedMore
  /\ buf' = buf \o SubSeq(sent, 1, n)
  /\ sent' = From(sent, n)
  /\ UNCHANGED <<waits, version, digest, reply, pc, fields, publishing, media>>

\* An encoder that waited has S0, S1 and S2.
Answers ==
  /\ waits /\ reply # None /\ sent = << >> /\ NeedMore
  /\ sent' = C2 \o Chunks
  /\ UNCHANGED <<waits, version, digest, reply, pc, buf, fields, publishing, media>>

(***************************************************************************)
(* Session::command                                                        *)
(***************************************************************************)

\* A command message is as long as it is: every length of it is read, but one
\* is not made longer once it cannot be read.
Continues(field) ==
  /\ pc = "serving" /\ ~publishing
  /\ Len(fields) < MaxFields
  /\ IF read_all(fields).ok THEN Len(fields) < 2 ELSE read_all(fields).at > Len(fields)
  /\ fields' = Append(fields, field)
  /\ UNCHANGED <<opening, pc, publishing, media>>

\* It is a publish, or it cannot be read.
Command ==
  /\ pc = "serving" /\ ~publishing
  /\ IF read_all(fields).ok THEN publishing' = TRUE /\ UNCHANGED pc
     ELSE pc' = "refused" /\ UNCHANGED publishing
  /\ fields' = << >>
  /\ UNCHANGED <<opening, media>>

(***************************************************************************)
(* Session::video and audio                                                *)
(***************************************************************************)

Ends(how) == pc' = how /\ units' = None /\ UNCHANGED <<config, sound, published, stated>>

\* Session::state: said again it is harmless, and changed it is refused.
States(kind, slot, parameters, record) ==
  IF parameters = Error \/ (slot # parameters /\ (published \/ slot # None)) THEN Ends("refused")
  ELSE /\ config' = IF kind = "video" THEN parameters ELSE config
       /\ sound' = IF kind = "audio" THEN parameters ELSE sound
       /\ stated' = [stated EXCEPT ![kind] = record]
       /\ units' = None
       /\ UNCHANGED <<pc, published>>

\* Session::settle
Codecs ==
  (IF config = None THEN << >> ELSE <<[kind |-> "video", of |-> config]>>)
    \o (IF sound = None THEN << >> ELSE <<[kind |-> "audio", of |-> sound]>>)

Video(payload) ==
  LET read == read_video(payload)
      nals == split_length_prefixed(read.data, config.nal_length_size)
  IN IF read = Panic THEN Ends("panicked")
     ELSE IF read = Error THEN Ends("refused")
     ELSE CASE read.is = "header" -> States("video", config, avc_parse(read.record), read.record)
            [] read.is = "picture" ->
                 IF Described(Codecs) = Error \/ config = None THEN Ends("refused")
                 ELSE IF nals = Error THEN Ends("refused")
                 ELSE /\ published' = TRUE /\ units' = nals
                      /\ UNCHANGED <<pc, config, sound, stated>>
            [] read.is = "end" -> units' = None /\ UNCHANGED <<pc, config, sound, published, stated>>

Audio(payload) ==
  LET read == read_audio(payload)
  IN IF read = Error THEN Ends("refused")
     ELSE IF read.is = "header" THEN States("audio", sound, aac_parse(read.record), read.record)
     ELSE IF Described(Codecs) = Error \/ sound = None THEN Ends("refused")
     ELSE published' = TRUE /\ units' = None /\ UNCHANGED <<pc, config, sound, stated>>

Media(kind, payload) ==
  /\ pc = "serving" /\ publishing
  /\ count < MaxMedia
  /\ count' = count + 1
  /\ tag' = [kind |-> kind, payload |-> payload]
  /\ IF kind = "video" THEN Video(payload) ELSE Audio(payload)
  /\ UNCHANGED <<opening, fields, publishing>>

(***************************************************************************)
(* Specification                                                           *)
(***************************************************************************)

Opening ==
  \/ Hello \/ Echo \/ Answers
  \/ \E n \in 1..Len(sent) : Arrive(n)

Next ==
  \/ Opening \/ Command
  \/ \E field \in Fields : Continues(field)
  \/ \E payload \in Pictures : Media("video", payload)
  \/ \E payload \in Sounds : Media("audio", payload)
  \/ \E record \in DOMAIN AvcRecords : Media("video", write_video([is |-> "header", record |-> record]))
  \/ \E record \in DOMAIN AacRecords : Media("audio", write_audio([is |-> "header", record |-> record]))

Spec == Init /\ [][Next]_vars

\* What was sent arrives, and what arrived is read.
FairSpec == Spec /\ WF_vars(Opening)

(***************************************************************************)
(* Properties                                                              *)
(***************************************************************************)

TypeOK ==
  /\ pc \in {"Hello", "Echo", "serving", "refused", "panicked"}
  /\ Len(buf) <= 1 + 2 * SIZE + Len(Chunks)
  /\ Len(fields) <= MaxFields /\ count \in 0..MaxMedia
  /\ publishing \in BOOLEAN /\ published \in BOOLEAN

\* However it is cut into pieces and whatever is sent ahead, the handshake takes
\* its own bytes and no other, and answers with the encoder's own random ones
\* (handshake.rs, read and reply; rtmp/server.rs, connection).
HandshakeKeepsInStep ==
  /\ pc \in {"serving", "panicked"} => buf \o sent = Chunks
  /\ reply # None => \A i \in 1..SIZE : i # 2 => reply.echo[i] = <<"C1", i>>
  /\ pc \in {"Echo", "serving"} => version = VERSION

\* The two never wait for each other: a handshake ends, with an encoder that
\* waits for each answer and with one that waits for none.
EveryHandshakeEnds == <>(pc \notin {"Hello", "Echo"})

\* Nothing of a command is lost in reading it: whatever can be read can be
\* written, in as many fields, and says the same when it is read again
\* (amf0.rs, read_all and write_all).
CommandsComeBack ==
  LET read == read_all(fields)
  IN read.ok =>
       /\ \A i \in DOMAIN read.value : Writable(read.value[i])
       /\ Len(WriteAll(read.value)) = Len(fields)
       /\ read_all(WriteAll(read.value)) = Got(read.value, Len(fields) + 1)

\* A media message says the same when it is written and read again, and so does
\* the record that one stated, unless its first SPS is too short to name a
\* profile (flv.rs; AvcConfig::parse and to_bytes).
MediaComesBack ==
  /\ tag # None /\ tag.kind = "video" =>
       LET read == read_video(tag.payload)
       IN read \notin {Error, Panic} =>
            write_video(read) # Error /\ read_video(write_video(read)) = read
  /\ tag # None /\ tag.kind = "audio" =>
       LET read == read_audio(tag.payload) IN read # Error => read_audio(write_audio(read)) = read
  /\ config # None =>
       profile_level(config) = Error \/ avc_parse(avc_to_bytes(config)) = config

\* No start code is in it, or begins in it.
Clean(unit) ==
  /\ \A i \in 0..(Len(unit) - 1) : CodeAt(unit, i) = 0
  /\ Last(unit) # 0

\* Every unit of a picture goes on as it came, in whichever framing, or the
\* picture is refused (codec/h264.rs).
PicturesKeepTheirUnits ==
  units # None =>
    /\ to_length_prefixed(units, config.nal_length_size) = read_video(tag.payload).data
    /\ \A size \in {1, 2, 4} :
         LET framed == to_length_prefixed(units, size)
         IN framed # Error => split_length_prefixed(framed, size) = units
    /\ (\A i \in DOMAIN units : Clean(units[i])) => split_annex_b(to_annex_b(units)) = units

\* What a receiver of SDP makes of base64 and of hex.
Decoded(text) ==
  LET group(k) == SubSeq(text, 4 * k - 3, 4 * k)
      filled(k) == SelectSeq(group(k), LAMBDA x : x # PAD)
      bytes(k) == Bytes(FoldLeft(LAMBDA v, x : v * 64 + x, 0,
                               [i \in 1..4 |-> IF i <= Len(filled(k)) THEN group(k)[i] ELSE 0]), 3)
  IN FlattenSeq([k \in 1..(Len(text) \div 4) |-> SubSeq(bytes(k), 1, Len(filled(k)) - 1)])

Unhexed(digits) == [i \in 1..(Len(digits) \div 2) |-> digits[2 * i - 1] * 16 + digits[2 * i]]

\* A player is told the parameters that the encoder stated, each track under
\* the number its units carry and the control it is set up by (sdp.rs,
\* describe; AvcConfig::parse; aac::Parameters::parse).
PlayerIsToldWhatWasStated ==
  LET sections == sdp_describe(Codecs)
  IN /\ config # None =>
          LET meant == AvcRecords[stated.video] IN
          /\ meant # Error
          /\ [i \in DOMAIN sections[1].sets |-> Decoded(sections[1].sets[i])] = meant.sps \o meant.pps
          /\ config.nal_length_size = meant.nal_length_size
     /\ sound # None =>
          LET meant == AacRecords[stated.audio] IN
          /\ meant # Error
          /\ Last(sections).rate = meant.sample_rate /\ Last(sections).channels = meant.channels
          /\ Unhexed(Last(sections).config) = stated.audio
     /\ \A i \in DOMAIN sections : sections[i].control = i - 1

\* A tag shorter than its own header is refused (flv.rs:415, a test).
ShortTagsAreRefused == pc # "panicked"

\* A length-prefixed unit cannot begin as a start code does (h264.rs,
\* starts_with_start_code).
LengthsAreNoStartCodes ==
  units # None /\ units # << >> => ~starts_with_start_code(read_video(tag.payload).data)
=============================================================================
