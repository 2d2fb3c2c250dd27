---------------------------- MODULE RtpPacketizer ----------------------------
(***************************************************************************)
(* Media as RTP, src/src/rtp/: the Stream of each track that a client      *)
(* plays, the packetizers of H.264 and AAC, and, outside of the            *)
(* repository, a receiver that puts the packets together again the way     *)
(* RFC 6184 and RFC 3640 say, which is what the module docs explain.       *)
(*                                                                         *)
(* The packets of both tracks go over one connection, which loses and      *)
(* reorders nothing.  Units are byte by byte: a byte is [unit, nal, at], so*)
(* that one that is lost, doubled or out of place is seen.                 *)
(***************************************************************************)
EXTENDS Integers, Sequences, SequencesExt

CONSTANTS
  Budget,           \* Stream::budget, what a packet has room for after its header
  SeqW, TsW,        \* what sequence numbers and timestamps wrap at
  Second,           \* in the units of time that media is stamped with
  ClockRate,        \* [track -> ticks in a second]
  MAX_ACCESS_UNIT,  \* of AAC, the largest the 13 bits of its size can state
  VideoUnits,       \* the lengths of the NAL units of an access unit
  AudioUnits,       \* the length of a frame, a sequence of one
  Starts,           \* [sequence, origin] that scrambling an SSRC may give
  None,             \* not playing, nothing heard
  Times,            \* that media is stamped with
  MaxWire, MaxUnits, MaxPlays  \* bounds: packets on their way, units, PLAYs

Tracks == {"video", "audio"}

\* A Stream of a track that is played.
Streams == [ssrc : Nat, sequence : 0..(SeqW - 1), origin : 0..(TsW - 1)]

\* Bytes in front of a fragment of a NAL unit, and of a frame or a piece of it.
FU_PREFIX == 2
PREFIX == 4

ASSUMPTION RtpAssumption ==
  /\ Budget \in Nat /\ Budget > PREFIX
  /\ SeqW \in Nat \ {0} /\ TsW \in Nat \ {0} /\ Second \in Nat \ {0}
  /\ ClockRate \in [Tracks -> Nat \ {0}]
  /\ MAX_ACCESS_UNIT \in Nat
  /\ VideoUnits \subseteq Seq(Nat \ {0}) /\ AudioUnits \subseteq [1..1 -> Nat]
  /\ Starts \subseteq [sequence : 0..(SeqW - 1), origin : 0..(TsW - 1)]
  /\ Times \subseteq Nat
  /\ MaxWire \in Nat /\ MaxUnits \in Nat /\ MaxPlays \in Nat
  /\ None \notin Nat /\ None \notin Streams

VARIABLES
  \* relaybay
  ssrcs,   \* SSRCS, the next to be given out
  stream,  \* per track that is played, its Stream
  wire,    \* packets written to the connection and not yet heard
  \* the receiver, per track
  heard,   \* [ssrc, next, timestamp, clock, nal, nals]
  \* history
  units, plays,  \* how many there were
  latest,  \* per track, the tick of the last unit of this play
  sent,    \* per track, units that were packetized and not yet heard
  right,   \* every unit came back as it was
  onTime   \* every packet was for the tick its unit has

vars == <<ssrcs, stream, wire, heard, units, plays, latest, sent, right, onTime>>

UnitsOf(t) ==
  [number : 1..MaxUnits, at : Times,
   lengths : IF t = "video" THEN VideoUnits ELSE AudioUnits]

Data(u, k) == [i \in 1..u.lengths[k] |-> <<u.number, k, i>>]

Least(a, b) == IF a <= b THEN a ELSE b

Deaf == [ssrc |-> None, next |-> 0, timestamp |-> 0, clock |-> 0, nal |-> <<>>, nals |-> <<>>]

\* What a packet carries, the packets of a track, and what was heard of it.
Bytes == Nat \X Nat \X Nat
Loads ==
  [is : {"nal"}, data : Seq(Bytes)]
    \union [is : {"fu"}, header : Bytes, start : BOOLEAN, end : BOOLEAN, data : Seq(Bytes)]
    \union [is : {"au"}, size : Nat, data : Seq(Bytes)]
Packets ==
  [channel : Tracks, ssrc : Nat, sequence : 0..(SeqW - 1), timestamp : 0..(TsW - 1),
   marker : BOOLEAN, load : Loads]
Ears ==
  [ssrc : Nat \union {None}, next : 0..(SeqW - 1), timestamp : 0..(TsW - 1), clock : Int,
   nal : Seq(Bytes), nals : Seq(Seq(Bytes))]

TypeOK ==
  /\ ssrcs \in Nat
  /\ stream \in [Tracks -> Streams \union {None}]
  /\ wire \in Seq(Packets)
  /\ heard \in [Tracks -> Ears]
  /\ units \in 0..MaxUnits /\ plays \in 0..MaxPlays
  /\ latest \in [Tracks -> Nat \union {None}]
  /\ DOMAIN sent = Tracks /\ \A t \in Tracks : sent[t] \in Seq(UnitsOf(t))
  /\ right \in BOOLEAN /\ onTime \in BOOLEAN

Init ==
  /\ ssrcs = 1
  /\ stream = [t \in Tracks |-> None]
  /\ wire = <<>>
  /\ heard = [t \in Tracks |-> Deaf]
  /\ units = 0 /\ plays = 0
  /\ latest = [t \in Tracks |-> None]
  /\ sent = [t \in Tracks |-> <<>>]
  /\ right = TRUE /\ onTime = TRUE

(***************************************************************************)
(* Packetizers                                                             *)
(***************************************************************************)

Ticks(t, at) == (at * ClockRate[t]) \div Second

\* Mutant: a timestamp stops where it should wrap.
TimestampStops(s, t, at) == Least(s.origin + Ticks(t, at), TsW - 1)

\* Stream::timestamp.
Timestamp(s, t, at) == (s.origin + Ticks(t, at)) % TsW

Advance(sequence, n) == (sequence + n) % SeqW

\* How many pieces, and the i-th of them.
Pieces(data, budget) == (Len(data) + budget - 1) \div budget
Piece(data, budget, i) == SubSeq(data, (i - 1) * budget + 1, Least(i * budget, Len(data)))

Packet(marker, load) == [marker |-> marker, load |-> load]

\* What goes in an FU-A: the indicator and its header have between them what
\* the NAL unit's first byte said.
Fragments(data, body, budget, last) ==
  LET pieces == Pieces(body, budget)
  IN [i \in 1..pieces |->
        Packet(last /\ i = pieces,
               [is |-> "fu", header |-> data[1], start |-> i = 1, end |-> i = pieces,
                data |-> Piece(body, budget, i)])]

\* Mutants: the header byte is sent again as part of the first piece, the
\* marker is forgotten.
FragmentWhole(data, last) == Fragments(data, data, Budget - FU_PREFIX, last)
FragmentUnmarked(data, last) == Fragments(data, Tail(data), Budget - FU_PREFIX, FALSE)

\* h264::Packetizer::fragment: the header byte is not sent again.
Fragment(data, last) == Fragments(data, Tail(data), Budget - FU_PREFIX, last)

\* h264::Packetizer::packetize.
Pictures(u) ==
  FlattenSeq([k \in 1..Len(u.lengths) |->
    LET last == k = Len(u.lengths)
    IN IF u.lengths[k] <= Budget
       THEN <<Packet(last, [is |-> "nal", data |-> Data(u, k)])>>
       ELSE Fragment(Data(u, k), last)])

\* aac::Packetizer::packetize.  Nothing comes of a frame that is too long; an
\* empty one is a packet all the same.  The size is written in 13 bits.
Sound(u) ==
  LET frame == Data(u, 1)
      pieces == IF frame = <<>> THEN 1 ELSE Pieces(frame, Budget - PREFIX)
  IN IF Len(frame) > MAX_ACCESS_UNIT THEN <<>>
     ELSE [i \in 1..pieces |->
             Packet(i = pieces, [is |-> "au", size |-> Len(frame) % (MAX_ACCESS_UNIT + 1),
                                 data |-> Piece(frame, Budget - PREFIX, i)])]

\* Bytes of a packet after its header.
Size(load) ==
  Len(load.data) + CASE load.is = "nal" -> 0 [] load.is = "fu" -> FU_PREFIX
                     [] load.is = "au" -> PREFIX

(***************************************************************************)
(* The player's connection                                                 *)
(***************************************************************************)

\* attach(): every track that was set up has a Stream of its own.
Play(bound) ==
  /\ plays < MaxPlays /\ plays' = plays + 1
  /\ \A t \in Tracks : stream[t] = None
  /\ \E start \in [bound -> Starts] :
       stream' = [t \in Tracks |->
         IF t \in bound
         THEN [ssrc |-> IF t = "audio" /\ "video" \in bound THEN ssrcs + 1 ELSE ssrcs,
               sequence |-> start[t].sequence, origin |-> start[t].origin]
         ELSE None]
  /\ ssrcs' = ssrcs + (IF bound = Tracks THEN 2 ELSE 1)
  /\ latest' = [t \in Tracks |-> None]
  /\ UNCHANGED <<wire, heard, units, sent, right, onTime>>

\* PAUSE: what was written stays written.
Pause ==
  /\ \E t \in Tracks : stream[t] # None
  /\ stream' = [t \in Tracks |-> None]
  /\ UNCHANGED <<ssrcs, wire, heard, units, plays, latest, sent, right, onTime>>

\* Between two units of a track there is less than half of what a timestamp
\* counts, 6 hours of video, in either direction: pictures are not sent in the
\* order they are shown in.
Near(t, at) ==
  latest[t] # None => /\ 2 * (Ticks(t, at) - latest[t]) < TsW
                      /\ 2 * (latest[t] - Ticks(t, at)) < TsW

\* Playing::write; a unit of a track that was not set up goes nowhere.
Write(t, u) ==
  LET s == stream[t]
      packets == IF t = "video" THEN Pictures(u) ELSE Sound(u)
  IN /\ s # None
     /\ u.number = units + 1 /\ units' = u.number
     /\ Near(t, u.at)
     /\ Len(wire) + Len(packets) <= MaxWire
     /\ wire' = wire \o
          [i \in 1..Len(packets) |->
             [channel |-> t, ssrc |-> s.ssrc, sequence |-> Advance(s.sequence, i - 1),
              timestamp |-> Timestamp(s, t, u.at),
              marker |-> packets[i].marker, load |-> packets[i].load]]
     /\ stream' = [stream EXCEPT ![t].sequence = Advance(@, Len(packets))]
     /\ IF packets = <<>> THEN UNCHANGED <<sent, latest>>
        ELSE /\ sent' = [sent EXCEPT ![t] = Append(@, u)]
             /\ latest' = [latest EXCEPT ![t] = Ticks(t, u.at)]
     /\ UNCHANGED <<ssrcs, heard, plays, right, onTime>>

(***************************************************************************)
(* The receiver                                                            *)
(***************************************************************************)

\* The tick nearest to the last that is written as this timestamp.
Nearest(clock, timestamp, p) ==
  LET step == (p.timestamp - timestamp) % TsW
  IN IF 2 * step < TsW THEN clock + step ELSE clock + step - TsW

Begun(h) == h.nal # <<>> \/ h.nals # <<>>

\* What the receiver may count on from one packet to the next.
Follows(h, p) ==
  /\ IF h.ssrc = p.ssrc THEN p.sequence = h.next ELSE ~Begun(h)
  /\ Begun(h) => p.timestamp = h.timestamp
  /\ p.load.is = "nal" => h.nal = <<>>
  /\ p.load.is = "fu" => (p.load.start <=> h.nal = <<>>)

\* The NAL unit or frame so far.
SoFar(h, load) ==
  IF load.is = "fu" /\ load.start THEN <<load.header>> \o load.data ELSE h.nal \o load.data

IsWhole(data, load) ==
  \/ load.is = "nal"
  \/ load.is = "fu" /\ load.end
  \/ load.is = "au" /\ Len(data) = load.size

Hear ==
  /\ wire # <<>>
  /\ wire' = Tail(wire)
  /\ LET p == Head(wire)
         t == p.channel
         h == heard[t]
         u == Head(sent[t])
         data == SoFar(h, p.load)
         whole == IsWhole(data, p.load)
         nals == IF whole THEN Append(h.nals, data) ELSE h.nals
         \* A new stream is told where it begins.
         clock == IF h.ssrc = p.ssrc THEN Nearest(h.clock, h.timestamp, p) ELSE Ticks(t, u.at)
     IN IF sent[t] = <<>> THEN right' = FALSE /\ UNCHANGED <<heard, sent, onTime>>
        ELSE /\ heard' = [heard EXCEPT ![t] =
                  [ssrc |-> p.ssrc, next |-> Advance(p.sequence, 1), timestamp |-> p.timestamp,
                   clock |-> clock, nal |-> IF whole \/ p.marker THEN <<>> ELSE data,
                   nals |-> IF p.marker THEN <<>> ELSE nals]]
             /\ sent' = [sent EXCEPT ![t] = IF p.marker THEN Tail(@) ELSE @]
             /\ right' = /\ right /\ Follows(h, p)
                         /\ p.marker => whole /\ nals = [k \in 1..Len(u.lengths) |-> Data(u, k)]
             /\ onTime' = (onTime /\ clock = Ticks(t, u.at))
  /\ UNCHANGED <<ssrcs, stream, units, plays, latest>>

Next ==
  \/ \E bound \in SUBSET Tracks \ {{}} : Play(bound)
  \/ Pause
  \/ \E t \in Tracks : \E u \in UnitsOf(t) : Write(t, u)
  \/ Hear

Spec == Init /\ [][Next]_vars

(***************************************************************************)
(* Properties                                                              *)
(***************************************************************************)

\* Every access unit comes out of its packets as it went in, whatever the
\* lengths of what it consists of, and no receiver sees a gap, two units
\* under one marker or a stream that stops in the middle of one: not after a
\* frame that could not be sent, where numbers wrap, or across a PAUSE.
UnitsComeBackWhole == right

\* A receiver that has heard everything has nothing half put together, and
\* has been told of the end of every unit without waiting for the next.
NothingIsWaitedFor ==
  wire = <<>> => \A t \in Tracks : sent[t] = <<>> /\ ~Begun(heard[t])

\* However often timestamps wrap and whichever way time goes, a receiver that
\* takes each for the nearest there is has the time of every unit.
TimesComeBack == onTime

\* No packet is larger than may cross the network in one piece.
PacketsFit == \A i \in 1..Len(wire) : Size(wire[i].load) <= Budget
=============================================================================
