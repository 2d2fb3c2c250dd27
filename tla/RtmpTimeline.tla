---------------------------- MODULE RtmpTimeline ----------------------------
(***************************************************************************)
(* The Timeline of src/src/rtmp/session.rs, which turns the counter of W   *)
(* milliseconds that RTMP stamps messages with into times from the start   *)
(* of the stream, and the frames of an encoder that feed it.               *)
(*                                                                         *)
(* The encoder's own time is [turn, stamp]: how often its counter wrapped  *)
(* since the first frame, and what it reads.  Each track's frames are in   *)
(* order; the two tracks share one connection and are interleaved, so that *)
(* a frame may come after one of the other track that is up to Skew later. *)
(***************************************************************************)
EXTENDS Integers

CONSTANTS
  W,                \* what the counter wraps at, 2^32 in the code
  Step, Skew,       \* how far one frame is after or before the last
  CompositionTimes, \* the offsets a picture may carry
  NoUnit,           \* a track that has had no frame
  MaxTurn, MaxBack  \* bounds: turns of the counter, frames behind a wrap

ASSUMPTION TimelineAssumption ==
  /\ W \in Nat /\ W > 1
  /\ Step \in 0..(W \div 2)
  /\ Skew \in 0..((W - 1) \div 2)
  /\ CompositionTimes \subseteq Int
  /\ NoUnit \notin [dts : Nat, pts : Nat] \union [turn : Int, stamp : 0..(W - 1)]
  /\ MaxTurn \in Nat /\ MaxBack \in Nat

VARIABLES
  origin, last, wraps,  \* Timeline
  units,  \* the times of each track's last unit
  clock,  \* the encoder's time of each track's last frame
  turn,   \* the turn of the last frame of either track; last is its stamp
  back    \* how many frames were of the turn before the last frame's

timeline == <<origin, last, wraps, units, clock, turn, back>>

Media == {"video", "audio"}
Stamps == 0..(W - 1)
Times == [turn : Int, stamp : Stamps]
UnitTimes == [dts : Nat, pts : Nat]

Started == \E k \in Media : units[k] # NoUnit

CountersOK == last \in Stamps /\ origin \in Stamps /\ wraps \in Nat /\ turn \in Int /\ back \in Nat

TracksOK ==
  /\ units \in [Media -> UnitTimes \union {NoUnit}]
  /\ clock \in [Media -> Times \union {NoUnit}]

TimelineOK == CountersOK /\ TracksOK

\* origin is None until the first frame, which reads it as its own stamp.
TimelineInit ==
  /\ origin = 0
  /\ last = 0
  /\ wraps = 0
  /\ units = [k \in Media |-> NoUnit]
  /\ clock = [k \in Media |-> NoUnit]
  /\ turn = 0
  /\ back = 0

(***************************************************************************)
(* Timeline::at and offset                                                 *)
(***************************************************************************)

AtLeastZero(x) == IF x < 0 THEN 0 ELSE x

\* Mutant: every step backwards is taken for the counter wrapping.
WrappedWheneverBack(stamp) == stamp < last

\* A step backwards of more than half the counter is the counter wrapping.
Wrapped(stamp) == stamp < last /\ last - stamp > (W - 1) \div 2

\* What at() makes of a stamp once it has counted the wraps.
Elapsed(turns, stamp, from) == AtLeastZero(turns * W + stamp - from)

Offset(dts, by) == AtLeastZero(dts + by)

(***************************************************************************)
(* Frames                                                                  *)
(***************************************************************************)

Earlier(a, b) == a.turn < b.turn \/ (a.turn = b.turn /\ a.stamp < b.stamp)

\* The encoder's times that are near enough to that of its last frame: after
\* it by no more than Step, or before it by no more than Skew.
Near(t) ==
  \/ t.turn = turn /\ t.stamp - last \in (-Skew)..Step
  \/ t.turn = turn + 1 /\ W - last + t.stamp <= Step
  \/ t.turn = turn - 1 /\ W - t.stamp + last <= Skew

\* A frame of k at time t.  The first frame is the origin, of turn 0.
Arrives(k, t, by, counted) ==
  LET from == IF Started THEN origin ELSE t.stamp
      dts == Elapsed(counted, t.stamp, from)
  IN /\ origin' = from
     /\ last' = t.stamp
     /\ wraps' = counted
     /\ units' = [units EXCEPT ![k] = [dts |-> dts, pts |-> Offset(dts, by)]]
     /\ clock' = [clock EXCEPT ![k] = t]
     /\ turn' = t.turn
     /\ back' = IF t.turn < turn THEN back + 1 ELSE back

FirstFrame(k, stamp, by) ==
  /\ ~Started
  /\ Arrives(k, [turn |-> 0, stamp |-> stamp], by, wraps)

NextFrame(k, stamp, by) ==
  /\ Started
  /\ \E t \in {[turn |-> turn + d, stamp |-> stamp] : d \in {-1, 0, 1}} :
       /\ Near(t)
       /\ clock[k] # NoUnit => ~Earlier(t, clock[k])
       /\ t.turn <= MaxTurn
       /\ t.turn < turn => back < MaxBack
       /\ Arrives(k, t, by, IF Wrapped(stamp) THEN wraps + 1 ELSE wraps)

TimelineNext ==
  \E k \in Media, stamp \in Stamps :
    \E by \in (IF k = "video" THEN CompositionTimes ELSE {0}) :
      \/ FirstFrame(k, stamp, by)
      \/ NextFrame(k, stamp, by)

TimelineSpec == TimelineInit /\ [][TimelineNext]_timeline

(***************************************************************************)
(* Properties                                                              *)
(***************************************************************************)

\* The wraps counted are one for every turn, and one more for every frame that
\* came from behind a wrap already counted: what the properties below rest on.
WrapsAreCounted == wraps = turn + back

\* The time of a unit is the encoder's time from its first frame on, however
\* often the counter wrapped and however the tracks are interleaved, as long
\* as no frame came from behind a wrap (session.rs:549-563).
TimeIsRight ==
  back = 0 => \A k \in Media :
    units[k] # NoUnit => units[k].dts = Elapsed(clock[k].turn, clock[k].stamp, origin)

\* Whatever the interleaving, a track whose frames are in order has units in
\* order: the times of a track never go back (session.rs:535-536).
GoesForwards ==
  [][\A k \in Media : units[k] # NoUnit => units'[k].dts >= units[k].dts]_timeline

\* "A large step backwards is the counter wrapping; a small one is a publisher
\* whose timestamps are out of order" (session.rs:552-554): a frame that comes
\* a little late is given a time that is off by no more than it is late, and
\* the frames after it are given the right one.
LateIsNotAWrap ==
  \A k \in Media : units[k] # NoUnit =>
    units[k].dts < Elapsed(clock[k].turn, clock[k].stamp, origin) + W

\* "Decode time, which is `pts` for a stream without B-frames and earlier
\* than it for one with them. Never later." (unit.rs:115-116)
DecodedBeforeShown == \A k \in Media : units[k] # NoUnit => units[k].dts <= units[k].pts
=============================================================================
