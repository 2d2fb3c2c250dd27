--------------------------- MODULE RtspConnection ---------------------------
(***************************************************************************)
(* One RTSP player's connection: the Session of src/src/rtsp/session.rs    *)
(* and the loop of src/src/rtsp/server.rs that drives it.                  *)
(*                                                                         *)
(* The loop drains the requests a read brought, writes its answers, then   *)
(* waits for more bytes or for the next unit of the stream it plays.  Its  *)
(* writes have a deadline, since the client may stop reading.  Meanwhile   *)
(* publishers come and go on the paths of the registry.  A request is what *)
(* it asks, a description the sequence of its tracks' codecs, and a Reader *)
(* is what it was attached to: PathFeed has the units it returns and       *)
(* PathRegistry the locks it goes through.                                 *)
(***************************************************************************)
EXTENDS Integers, Sequences, FiniteSets

CONSTANTS
  Paths,        \* the names a request may carry
  Codecs,       \* what a track may be, its parameters included
  Descriptions, \* the descriptions that publishers have
  Channels,     \* the channels a client may ask a track's packets on
  None,         \* no path, no stream, no track named, no workable transport
  MaxTracks,    \* bound: tracks of a description
  MaxBatch      \* bound: requests one read brings

Tracks == 1..MaxTracks
Setups == [track : Tracks, channel : Channels]
Bounds == [track : Tracks, channel : Channels, codec : Codecs]
Plays == [desc : Descriptions, bound : SUBSET Bounds, ended : BOOLEAN]
\* `fresh` until the path of an agreement is published to anew.
Agreements == [path : Paths, channel : Channels, codec : Codecs, fresh : BOOLEAN]

ASSUMPTION ConnectionAssumption ==
  /\ MaxTracks \in Nat /\ MaxBatch \in Nat
  /\ \A d \in Descriptions : d \in Seq(Codecs) /\ Len(d) \in 1..MaxTracks
  /\ None \notin Paths \union Descriptions \union Channels \union Nat
  /\ None \notin Plays \union Agreements

VARIABLES
  \* the session
  state, path, \* Session::state, Session::path
  tracks,      \* Session::tracks: [track, channel]
  \* the driver
  pc,          \* draining requests, writing, waiting in the select!, closed
  then,        \* what follows the write
  batch,       \* requests of the last read still to be handled
  act,         \* what the last request asked the driver to do
  out,         \* what is built up to write: answers and packets
  playing,     \* what is played, a Playing: [desc, bound, ended]
  on,          \* the path it was attached to
  \* around it
  source,      \* the description of what is published to each path
  reading,     \* the client takes what is written
  \* history
  agreed,      \* what the last SETUP of each track was answered for
  unanswered   \* requests whose answer is not written

session == <<state, path, tracks>>
driver == <<pc, then, batch, act, out, playing, on>>
history == <<agreed, unanswered>>
vars == <<state, path, tracks, pc, then, batch, act, out, playing, on,
          source, reading, agreed, unanswered>>

Answer == [is |-> "answer"]
Packet(b) == [is |-> "packet", from |-> b]
Writes == [is : {"answer"}] \union [is : {"packet"}, from : Bounds]

SessionOK ==
  /\ state \in {"Init", "Ready", "Playing"}
  /\ path \in Paths \union {None}
  /\ tracks \subseteq Setups

DriverOK ==
  /\ pc \in {"draining", "writing", "waiting", "closed"}
  /\ then \in {"waiting", "closed"}
  /\ act \in {"none", "play", "pause", "teardown"}
  /\ out \in Seq(Writes)
  /\ on \in Paths \union {None}

CountsOK == batch \in 0..MaxBatch /\ unanswered \in 0..MaxBatch

PlayingOK == playing \in Plays \union {None}

AroundOK ==
  /\ source \in [Paths -> Descriptions \union {None}]
  /\ agreed \in [Tracks -> Agreements \union {None}]

FlagOK == reading \in BOOLEAN

TypeOK == SessionOK /\ DriverOK /\ CountsOK /\ PlayingOK /\ AroundOK /\ FlagOK

Init ==
  /\ state = "Init" /\ path = None /\ tracks = {}
  /\ pc = "waiting" /\ then = "waiting" /\ batch = 0 /\ act = "none" /\ out = <<>>
  /\ playing = None /\ on = None
  /\ source \in [Paths -> Descriptions \union {None}]
  /\ reading = TRUE
  /\ agreed = [i \in Tracks |-> None] /\ unanswered = 0

(***************************************************************************)
(* Requests                                                                *)
(***************************************************************************)

\* The connection returns: its Reader and what it had not written go.
Close ==
  /\ pc' = "closed"
  /\ out' = <<>> /\ batch' = 0 /\ act' = "none"
  /\ playing' = None /\ on' = None
  /\ unanswered' = 0
  /\ UNCHANGED <<state, path, tracks, then, source, reading, agreed>>

\* One request is taken off the batch and answered, and wants `next` done.
Answers(next) ==
  /\ pc = "draining" /\ act = "none" /\ batch > 0
  /\ batch' = batch - 1
  /\ out' = Append(out, Answer)
  /\ unanswered' = unanswered + 1
  /\ act' = next
  /\ UNCHANGED <<pc, then, playing, on, source, reading>>

Unmoved == UNCHANGED <<state, path, tracks, agreed>>

\* Reports about what was received are read past.
Interleaved ==
  /\ pc = "draining" /\ act = "none" /\ batch > 0
  /\ batch' = batch - 1
  /\ UNCHANGED <<state, path, tracks, pc, then, act, out, playing, on, source, reading,
                 agreed, unanswered>>

\* OPTIONS, GET_PARAMETER, and the methods that are not served.
Remark == Answers("none") /\ Unmoved

Describe(p) ==
  /\ Answers("none")
  /\ path' = IF source[p] # None THEN p ELSE path
  /\ UNCHANGED <<state, tracks, agreed>>

\* A client that sets the same track up twice means the second one.
SetUp(s) == {o \in tracks : o.track # s.track} \union {s}

\* A SETUP is for a track of the one path of the session, before it plays, on
\* a transport the server can send on.
Accepts(p, i, c) ==
  /\ state # "Playing"
  /\ path \in {None, p}
  /\ source[p] # None
  /\ i # None /\ i <= Len(source[p])
  /\ c # None

\* A SETUP of track i of p, or of no track, offering the channel c or nothing
\* the server can send on.
Setup(p, i, c) ==
  \/ /\ Accepts(p, i, c)
     /\ Answers("none")
     /\ path' = p
     /\ tracks' = SetUp([track |-> i, channel |-> c])
     /\ state' = "Ready"
     /\ agreed' = [agreed EXCEPT ![i] =
                     [path |-> p, channel |-> c, codec |-> source[p][i], fresh |-> TRUE]]
  \/ ~Accepts(p, i, c) /\ Remark

MayPlay == state \in {"Ready", "Playing"} /\ path # None

Play ==
  \/ /\ MayPlay
     /\ Answers("play")
     /\ state' = "Playing"
     /\ UNCHANGED <<path, tracks, agreed>>
  \/ ~MayPlay /\ Remark

\* Mutant: a PAUSE is taken in any state that has a track.
PauseWheneverReady ==
  \/ /\ state \in {"Ready", "Playing"}
     /\ Answers("none")
     /\ state' = "Ready"
     /\ UNCHANGED <<path, tracks, agreed>>
  \/ state = "Init" /\ Remark

Pause ==
  \/ /\ state = "Playing"
     /\ Answers("pause")
     /\ state' = "Ready"
     /\ UNCHANGED <<path, tracks, agreed>>
  \/ state # "Playing" /\ Remark

Teardown == Answers("teardown") /\ Unmoved

\* Bytes that are not RTSP end the connection, with the answers built up.
NotRtsp == pc = "draining" /\ act = "none" /\ batch > 0 /\ Close

Handle ==
  \/ Interleaved \/ Remark \/ Play \/ Pause \/ Teardown \/ NotRtsp
  \/ \E p \in Paths : Describe(p)
  \/ \E p \in Paths, i \in Tracks \union {None}, c \in Channels \union {None} : Setup(p, i, c)

(***************************************************************************)
(* What the driver does                                                    *)
(***************************************************************************)

WriteThen(next) == pc' = "writing" /\ then' = next

\* Mutant: the last track of a description is left out.
BoundShort(d) ==
  {[track |-> s.track, channel |-> s.channel, codec |-> d[s.track]] :
     s \in {o \in tracks : o.track < Len(d)}}

\* What attach() makes of the tracks that were set up: those that what is
\* published now has too, each with the packetizer of the codec it has now.
Bound(d) ==
  {[track |-> s.track, channel |-> s.channel, codec |-> d[s.track]] :
     s \in {o \in tracks : o.track <= Len(d)}}

Attach ==
  /\ pc = "draining" /\ act = "play"
  /\ act' = "none"
  /\ IF source[path] = None
     THEN /\ playing' = None /\ on' = None
          /\ WriteThen("closed")
     ELSE /\ playing' = [desc |-> source[path], bound |-> Bound(source[path]), ended |-> FALSE]
          /\ on' = path
          /\ UNCHANGED <<pc, then>>
  /\ UNCHANGED <<state, path, tracks, batch, out, source, reading, agreed, unanswered>>

Detach ==
  /\ pc = "draining" /\ act = "pause"
  /\ act' = "none"
  /\ playing' = None /\ on' = None
  /\ UNCHANGED <<state, path, tracks, pc, then, batch, out, source, reading, agreed, unanswered>>

TearDown ==
  /\ pc = "draining" /\ act = "teardown"
  /\ act' = "none"
  /\ WriteThen("closed")
  /\ UNCHANGED <<state, path, tracks, batch, out, playing, on, source, reading, agreed, unanswered>>

Drained ==
  /\ pc = "draining" /\ act = "none" /\ batch = 0
  /\ WriteThen("waiting")
  /\ UNCHANGED <<state, path, tracks, batch, act, out, playing, on, source, reading, agreed, unanswered>>

Written ==
  /\ pc = "writing"
  /\ out = <<>> \/ reading
  /\ \/ then = "closed" /\ Close
     \/ /\ then = "waiting"
        /\ pc' = "waiting"
        /\ out' = <<>>
        /\ unanswered' = 0
        /\ UNCHANGED <<state, path, tracks, then, batch, act, playing, on, source, reading, agreed>>

\* Mutant: a write has no deadline.
StalledNever == FALSE /\ Close

\* WRITE_TIMEOUT passes on a client that has stopped reading.
Stalled == pc = "writing" /\ out # <<>> /\ ~reading /\ Close

\* The client hangs up, which a read or a write reports.
Hangup == pc \in {"writing", "waiting"} /\ Close

Read(n) ==
  /\ pc = "waiting"
  /\ batch' = n
  /\ pc' = "draining"
  /\ UNCHANGED <<state, path, tracks, then, act, out, playing, on, source, reading, agreed, unanswered>>

\* The next unit, of track i, goes to the packetizer bound to it if there is
\* one, and nowhere otherwise or if it is a frame that cannot be packetized.
Unit(i) ==
  /\ pc = "waiting" /\ playing # None /\ i <= Len(playing.desc)
  /\ \/ \E b \in playing.bound : b.track = i /\ out' = Append(out, Packet(b))
     \/ out' = out
  /\ WriteThen("waiting")
  /\ UNCHANGED <<state, path, tracks, batch, act, playing, on, source, reading, agreed, unanswered>>

StreamEnded == pc = "waiting" /\ playing # None /\ playing.ended /\ Close

(***************************************************************************)
(* Around the connection                                                   *)
(***************************************************************************)

\* History: what was agreed on p was of a stream that is over.
Stale(p) ==
  [i \in Tracks |-> IF agreed[i] # None /\ agreed[i].path = p
                    THEN [agreed[i] EXCEPT !.fresh = FALSE] ELSE agreed[i]]

\* A publisher takes a path over, or leaves it with d = None: either way the
\* stream that was there ends for its readers.
Republish(p, d) ==
  /\ source[p] # None \/ d # None
  /\ source' = [source EXCEPT ![p] = d]
  /\ playing' = IF playing # None /\ on = p THEN [playing EXCEPT !.ended = TRUE] ELSE playing
  /\ agreed' = Stale(p)
  /\ UNCHANGED <<state, path, tracks, pc, then, batch, act, out, on, reading, unanswered>>

StopsOrResumes ==
  /\ reading' = ~reading
  /\ UNCHANGED <<state, path, tracks, pc, then, batch, act, out, playing, on, source, agreed, unanswered>>

Drain == Handle \/ Attach \/ Detach \/ TearDown \/ Drained
Write == Written \/ Stalled

Next ==
  \/ Drain \/ Write \/ Hangup \/ StreamEnded \/ StopsOrResumes
  \/ \E n \in 0..MaxBatch : Read(n)
  \/ \E i \in Tracks : Unit(i)
  \/ \E p \in Paths, d \in Descriptions \union {None} : Republish(p, d)

Spec == Init /\ [][Next]_vars

\* The task is scheduled and the deadline passes; select! picks at random, so
\* a stream that is over is noticed among however many requests, once its
\* backlog, which is finite, has been read.
FairSpec == Spec /\ WF_vars(Drain) /\ WF_vars(Write) /\ SF_vars(StreamEnded)

(***************************************************************************)
(* Properties                                                              *)
(***************************************************************************)

\* The session says it plays exactly while the driver is attached: a client
\* that was told PLAY is not left waiting for packets nobody sends, and one
\* that was told PAUSE gets none (session.rs:274-309, server.rs:115-136).
SessionAndDriverAgree == pc = "waiting" => (state = "Playing" <=> playing # None)

\* Every packet goes to the channel that the last SETUP of its track was
\* answered for, however often tracks are set up again between plays.
PacketsGoWhereAgreed ==
  \A n \in 1..Len(out) : out[n].is = "packet" =>
    /\ agreed[out[n].from.track] # None
    /\ out[n].from.channel = agreed[out[n].from.track].channel

\* What is played is what was set up: whatever was set up, played, paused and
\* described in between, a track that was agreed on the stream still published
\* goes out on its channel, packetized as the codec it was agreed to have.
PlaysWhatWasSetUp ==
  playing # None =>
    \A s \in tracks :
      LET a == agreed[s.track]
      IN a.fresh /\ a.path = on =>
           [track |-> s.track, channel |-> a.channel, codec |-> a.codec] \in playing.bound

\* The connection never waits for the client while the client waits for an
\* answer, and an unread answer holds up no packet: what was built up is
\* written before the select! (server.rs:138).
AnsweredBeforeWaiting == pc = "waiting" => unanswered = 0 /\ out = <<>>

\* A stream that is over is let go of, by closing if the client does not ask
\* for something else: not even a client that has stopped reading, or never
\* stops asking, keeps it (server.rs:146-151, 23-30).
EndedStreamIsLetGo ==
  (playing # None /\ playing.ended) ~> (playing = None \/ ~playing.ended)

\* "Every track of a session comes from one path." (session.rs:233)
TracksOfOnePath == \A s \in tracks : agreed[s.track].path = path

\* "a reader handed units that do not match the one it was set up with would
\* decode nonsense" (path.rs:86-88): what is sent on a channel is what the
\* track was when it was set up.
PlaysWhatWasAgreed ==
  path # None /\ playing # None /\ (\A s \in tracks : agreed[s.track].path = path)
    => \A b \in playing.bound : b.codec = agreed[b.track].codec
=============================================================================
