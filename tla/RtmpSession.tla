----------------------------- MODULE RtmpSession -----------------------------
(***************************************************************************)
(* One publishing RTMP connection: the Session of src/src/rtmp/session.rs  *)
(* and the loop of src/src/rtmp/server.rs that drives it.                  *)
(*                                                                         *)
(* A read brings a batch of messages.  The driver hands them to the        *)
(* session one at a time and does what comes back one Action at a time,    *)
(* then writes its replies and waits for more bytes or for word that       *)
(* another publisher took the path.  What a message says is all a message  *)
(* is: handle() never looks back at one, so the batch is a count and the   *)
(* next message any message.  The parameters of a track are a value of     *)
(* Params, the bytes that may arrive unacknowledged a count of reads, and  *)
(* the timestamps of frames are in RtmpTimeline.                           *)
(***************************************************************************)
EXTENDS Integers, Sequences

CONSTANTS
  Apps, Keys,   \* the names connect and publish may carry
  Params,       \* what a sequence header may say
  Unset,        \* no name, no parameters, no stream
  WINDOW_SIZE,  \* reads that may go unacknowledged
  MaxBatch      \* bound: messages one read brings

ASSUMPTION SessionAssumption ==
  /\ Unset \notin Apps \union Keys \union Params \union ((Apps \union {Unset}) \X Keys)
  /\ Unset \notin [path : (Apps \union {Unset}) \X Keys,
                   tracks : [{"video", "audio"} -> Params \union {Unset}]]
  /\ WINDOW_SIZE \in Nat \ {0}
  /\ MaxBatch \in Nat

VARIABLES
  \* the session
  state,      \* Session::state
  app, path,  \* Session::app, and the path once publish named one
  pending,    \* Session::pending: what each track's sequence header said
  published,  \* Session::published, no track at all until it is settled
  owed,       \* received less acknowledged
  \* the driver
  pc,         \* draining a batch, waiting in the select!, leaving, or closed
  batch,      \* messages of the last read still to be handled
  todo,       \* what handle() returned and is not done yet
  out,        \* what is built up to write: [what, size it was chunked at]
  chunk,      \* the size the Writer chunks at
  publisher,  \* the Publisher held: [path, tracks]
  displaced,  \* its evicted() has resolved
  reading,    \* the encoder takes what is written, or its socket has room
  \* history
  peer,       \* the size the encoder reads at once it has read what was written
  finished    \* the encoder has ended the stream it was publishing

session == <<state, app, path, pending, published>>
vars == <<state, app, path, pending, published, owed,
          pc, batch, todo, out, chunk, publisher, displaced, reading, peer, finished>>

Kinds == {"video", "audio"}
NoTracks == [k \in Kinds |-> Unset]
Tracks == [Kinds -> Params \union {Unset}]
Paths == (Apps \union {Unset}) \X Keys
Streams == [path : Paths, tracks : Tracks]

(***************************************************************************)
(* Messages and actions                                                    *)
(***************************************************************************)

\* "quiet" is metadata, housekeeping and every call that is not answered;
\* "unread" whatever is refused before its meaning matters: a malformed
\* command, tag, record or access unit, or a type that is not read.
Messages ==
       [type : {"connect"}, app : Apps \union {Unset}]
  \union [type : {"publish"}, key : Keys \union {Unset}]
  \union [type : {"createStream", "done", "quiet", "unread"}]
  \union [type : {"header"}, kind : Kinds, params : Params]
  \union [type : {"frame"}, kind : Kinds]
  \union [type : {"end"}]

Replies == {"windowAckSize", "setPeerBandwidth", "setChunkSize", "result", "streamBegin",
            "onStatus", "acknowledgement"}
Sizes == {"opening", "announced"}
Writes == [what : Replies, size : Sizes]

Send(what) == [do |-> "send", what |-> what]
SetChunkSize == [do |-> "setChunkSize"]
Publish(stream) == [do |-> "publish", stream |-> stream]
Unit(k, params) == [do |-> "unit", kind |-> k, params |-> params]
Unpublish == [do |-> "unpublish"]

Actions ==
       [do : {"send"}, what : Replies]
  \union [do : {"setChunkSize", "unpublish"}]
  \union [do : {"publish"}, stream : Streams]
  \union [do : {"unit"}, kind : Kinds, params : Params]

(***************************************************************************)
(* State                                                                   *)
(***************************************************************************)

SessionOK ==
  /\ state \in {"New", "Connected", "Publishing"}
  /\ app \in Apps \union {Unset}
  /\ path \in Paths \union {Unset}
  /\ pending \in Tracks
  /\ published \in Tracks

CountsOK == owed \in 0..(WINDOW_SIZE - 1) /\ batch \in 0..MaxBatch

DriverOK ==
  /\ pc \in {"draining", "waiting", "leaving", "closed"}
  /\ todo \in Seq(Actions)
  /\ out \in Seq(Writes)
  /\ chunk \in Sizes
  /\ peer \in Sizes
  /\ publisher \in Streams \union {Unset}

FlagsOK == displaced \in BOOLEAN /\ reading \in BOOLEAN /\ finished \in BOOLEAN

TypeOK == SessionOK /\ CountsOK /\ DriverOK /\ FlagsOK

Init ==
  /\ state = "New"
  /\ app = Unset
  /\ path = Unset
  /\ pending = NoTracks
  /\ published = NoTracks
  /\ owed = 0
  /\ pc = "draining"
  /\ batch \in 0..MaxBatch
  /\ todo = <<>>
  /\ out = <<>>
  /\ chunk = "opening"
  /\ publisher = Unset
  /\ displaced = FALSE
  /\ reading = TRUE
  /\ peer = "opening"
  /\ finished = FALSE

(***************************************************************************)
(* Session::handle                                                         *)
(***************************************************************************)

Settled == published # NoTracks

\* Mutant: only what the same track said before is compared.
ContradictsItself(k, params) == pending[k] # params /\ pending[k] # Unset

\* What state() refuses: parameters unlike those a description was built on.
Contradicts(k, params) == pending[k] # params /\ (Settled \/ pending[k] # Unset)

\* What settle() makes of the headers, and the tracks it then has.
SettledAs == IF Settled THEN published ELSE pending

Refused(m) ==
  CASE m.type = "connect" -> m.app = Unset
    [] m.type = "publish" -> m.key = Unset
    [] m.type = "header"  -> state # "Publishing" \/ Contradicts(m.kind, m.params)
    [] m.type = "frame"   -> state # "Publishing" \/ SettledAs[m.kind] = Unset
    [] m.type = "end"     -> state # "Publishing"
    [] OTHER              -> m.type = "unread"

\* One message of the batch is handled, and these are the actions it asks for.
Asks(actions) ==
  /\ batch' = batch - 1
  /\ todo' = actions
  /\ UNCHANGED <<owed, pc, out, chunk, publisher, displaced, reading, peer>>

\* Mutant: the new size is used for the message that announces it.
ConnectEager(m) ==
  /\ m.type = "connect"
  /\ app' = m.app
  /\ state' = "Connected"
  /\ UNCHANGED <<path, pending, published, finished>>
  /\ Asks(<<Send("windowAckSize"), Send("setPeerBandwidth"), SetChunkSize,
            Send("setChunkSize"), Send("result")>>)

Connect(m) ==
  /\ m.type = "connect"
  /\ app' = m.app
  /\ state' = "Connected"
  /\ UNCHANGED <<path, pending, published, finished>>
  /\ Asks(<<Send("windowAckSize"), Send("setPeerBandwidth"), Send("setChunkSize"),
            SetChunkSize, Send("result")>>)

CreateStream(m) ==
  /\ m.type = "createStream"
  /\ UNCHANGED <<session, finished>>
  /\ Asks(<<Send("result")>>)

NamePath(m) ==
  /\ m.type = "publish"
  /\ path' = <<app, m.key>>
  /\ state' = "Publishing"
  /\ finished' = FALSE
  /\ UNCHANGED <<app, pending, published>>
  /\ Asks(<<Send("streamBegin"), Send("onStatus")>>)

\* deleteStream, closeStream and FCUnpublish.
Done(m) ==
  /\ m.type = "done"
  /\ state' = "Connected"
  /\ finished' = TRUE
  /\ UNCHANGED <<app, path, pending, published>>
  /\ Asks(IF state = "Publishing" THEN <<Unpublish>> ELSE <<>>)

Header(m) ==
  /\ m.type = "header"
  /\ pending' = [pending EXCEPT ![m.kind] = m.params]
  /\ UNCHANGED <<state, app, path, published, finished>>
  /\ Asks(<<>>)

\* The first frame settles the description, and every frame is a unit.
Frame(m) ==
  /\ m.type = "frame"
  /\ published' = SettledAs
  /\ UNCHANGED <<state, app, path, pending, finished>>
  /\ Asks(IF Settled THEN <<Unit(m.kind, published'[m.kind])>>
          ELSE <<Publish([path |-> path, tracks |-> published']),
                 Unit(m.kind, published'[m.kind])>>)

Quiet(m) ==
  /\ m.type \in {"quiet", "end"}
  /\ UNCHANGED <<session, finished>>
  /\ Asks(<<>>)

Answers(m) ==
  \/ Connect(m) \/ CreateStream(m) \/ NamePath(m) \/ Done(m)
  \/ Header(m) \/ Frame(m) \/ Quiet(m)

\* The connection returns: its Publisher is dropped, what was not written lost.
Closes ==
  /\ pc' = "closed"
  /\ batch' = 0
  /\ todo' = <<>>
  /\ out' = <<>>
  /\ publisher' = Unset
  /\ displaced' = FALSE
  /\ UNCHANGED <<session, owed, chunk, reading, finished>>

Handling == pc = "draining" /\ todo = <<>> /\ batch > 0

Handle == Handling /\ \E m \in Messages : ~Refused(m) /\ Answers(m)

\* handle() or the chunk reader returned an error.
Fail ==
  /\ Handling
  /\ \E m \in Messages : Refused(m)
  /\ Closes
  /\ UNCHANGED peer

(***************************************************************************)
(* The driver: apply()                                                     *)
(***************************************************************************)

Doing(what) == pc = "draining" /\ todo # <<>> /\ Head(todo).do = what

Written(what) == Append(out, [what |-> what, size |-> chunk])

\* What the encoder reads at once it has read everything built up so far.
ReadsAt == IF \E i \in 1..Len(out) : out[i].what = "setChunkSize" THEN "announced" ELSE peer

Reply ==
  /\ Doing("send")
  /\ out' = Written(Head(todo).what)
  /\ todo' = Tail(todo)
  /\ UNCHANGED <<session, owed, pc, batch, chunk, publisher, displaced, reading, peer,
                 finished>>

Resize ==
  /\ Doing("setChunkSize")
  /\ chunk' = "announced"
  /\ todo' = Tail(todo)
  /\ UNCHANGED <<session, owed, pc, batch, out, publisher, displaced, reading, peer,
                 finished>>

TakePath ==
  /\ Doing("publish")
  /\ publisher' = Head(todo).stream
  /\ displaced' = FALSE
  /\ todo' = Tail(todo)
  /\ UNCHANGED <<session, owed, pc, batch, out, chunk, reading, peer, finished>>

\* Nothing to push to, if there is no publisher; nothing to see here if there is.
PushUnit ==
  /\ Doing("unit")
  /\ todo' = Tail(todo)
  /\ UNCHANGED <<session, owed, pc, batch, out, chunk, publisher, displaced, reading, peer,
                 finished>>

\* Mutant: the Publisher is dropped and the connection goes on.
LetGoGoesOn ==
  /\ Doing("unpublish")
  /\ publisher' = Unset
  /\ displaced' = FALSE
  /\ todo' = Tail(todo)
  /\ UNCHANGED <<session, owed, pc, batch, out, chunk, reading, peer, finished>>

\* The Publisher is dropped, and the connection ends once its replies are out.
LetGo ==
  /\ Doing("unpublish")
  /\ publisher' = Unset
  /\ displaced' = FALSE
  /\ batch' = 0
  /\ todo' = <<>>
  /\ pc' = "leaving"
  /\ UNCHANGED <<session, owed, out, chunk, reading, peer, finished>>

(***************************************************************************)
(* The driver: the loop                                                    *)
(***************************************************************************)

\* write_all has no deadline: while the encoder does not read, it waits.
CanWrite == out = <<>> \/ reading

BatchDone == pc = "draining" /\ todo = <<>> /\ batch = 0

\* The batch is done and what is built up is written.
Flush ==
  /\ BatchDone
  /\ CanWrite
  /\ pc' = "waiting"
  /\ out' = <<>>
  /\ peer' = ReadsAt
  /\ UNCHANGED <<session, owed, batch, todo, chunk, publisher, displaced, reading, finished>>

\* The last replies of a connection that gave its path up.
Leave ==
  /\ pc = "leaving"
  /\ CanWrite
  /\ Closes
  /\ peer' = ReadsAt

\* Session::received: with these bytes a window has arrived unacknowledged.
AckIsOwed == owed + 1 >= WINDOW_SIZE

\* Some bytes arrived, and are acknowledged if that is owed.
Read ==
  /\ pc = "waiting"
  /\ pc' = "draining"
  /\ batch' \in 0..MaxBatch
  /\ owed' = IF AckIsOwed THEN 0 ELSE owed + 1
  /\ out' = IF AckIsOwed THEN Written("acknowledgement") ELSE out
  /\ UNCHANGED <<session, todo, chunk, publisher, displaced, reading, peer, finished>>

\* The socket closed, or failed: at a read, or at a write.
Hangup ==
  /\ pc \in {"waiting", "leaving"} \/ (BatchDone /\ out # <<>>)
  /\ Closes
  /\ UNCHANGED peer

\* Mutant: evicted() is looked at only once something was read.
EvictedOnRead ==
  /\ pc = "draining"
  /\ displaced
  /\ Closes
  /\ UNCHANGED peer

Evicted ==
  /\ pc = "waiting"
  /\ displaced
  /\ Closes
  /\ UNCHANGED peer

\* Another connection publishes to the path (PathRegistry).
Displace ==
  /\ publisher # Unset /\ ~displaced
  /\ displaced' = TRUE
  /\ UNCHANGED <<session, owed, pc, batch, todo, out, chunk, publisher, reading, peer,
                 finished>>

\* The encoder.
StopsOrResumes ==
  /\ pc # "closed"
  /\ reading' = ~reading
  /\ UNCHANGED <<session, owed, pc, batch, todo, out, chunk, publisher, displaced, peer,
                 finished>>

Apply == Reply \/ Resize \/ TakePath \/ PushUnit \/ LetGo

Write == Flush \/ Leave

Next ==
  \/ Handle \/ Fail \/ Apply \/ Write \/ Read \/ Hangup \/ Evicted
  \/ Displace \/ StopsOrResumes

Spec == Init /\ [][Next]_vars

\* The driver goes on while it has something to do, and a write, which is
\* finite, is done with an encoder that comes back to reading again and again.
\* The select! polls in random order, so bytes that keep coming do not hide
\* evicted() for ever.  The encoder owes nothing: it need neither send nor read.
Fairness == WF_vars(Handle \/ Fail \/ Apply) /\ SF_vars(Write) /\ SF_vars(Evicted)

FairSpec == Spec /\ Fairness

(***************************************************************************)
(* Properties                                                              *)
(***************************************************************************)

\* Every message is chunked at the size the encoder is reading at when it
\* gets there, whatever connect says and however often: the announcement at
\* the old size, everything after it at the new one (Action::SetChunkSize).
EncoderCanReadReplies ==
  \A i \in 1..Len(out) :
    out[i].size = IF \E j \in 1..(i - 1) : out[j].what = "setChunkSize"
                  THEN "announced" ELSE peer

\* A stream's description says what every header the session went along with
\* said, and goes on doing so: no header can be accepted that it contradicts
\* or leaves out (session.rs, state and settle).
DescriptionHolds == publisher # Unset => publisher.tracks = pending

\* Every unit comes after the stream it belongs to was published, and is of a
\* track that stream has, read with that track's parameters.
UnitsBelongToTheStream ==
  \A i \in 1..Len(todo) :
    todo[i].do = "unit" =>
      LET k == todo[i].kind
          stream == IF publisher # Unset THEN publisher ELSE todo[1].stream
      IN /\ publisher # Unset \/ (todo[1].do = "publish" /\ i > 1)
         /\ stream.tracks[k] = todo[i].params
         /\ stream.tracks[k] # Unset

\* A session that has settled has its path as long as the connection runs:
\* no order of commands leaves frames going nowhere.
SettledIsPublished ==
  Settled /\ pc \notin {"leaving", "closed"} =>
    \/ publisher # Unset
    \/ todo # <<>> /\ todo[1].do = "publish"

\* A connection publishes one stream in its life: it never takes a second
\* path, which would displace its own first one.
OneStreamPerConnection ==
  [][publisher # Unset => publisher' \in {publisher, Unset}]_vars

\* A publisher that was displaced lets its connection go, however much its
\* encoder keeps sending, as long as it does not stop reading for good: nothing
\* else may keep evicted() from being looked at (rtmp/server.rs:128-149).
DisplacedLetsGo == []<>reading => (displaced ~> pc = "closed")

\* evicted() is waited on "so that a publisher which has stopped sending ...
\* still finds out and closes rather than holding a connection nothing is
\* coming down" (path.rs:227), whether or not it goes on reading.
DisplacedAlwaysLetsGo == displaced ~> pc = "closed"

\* Session::path is "the path this is publishing to, once `publish` has named
\* one" (session.rs:203).
PathIsWherePublished ==
  publisher # Unset /\ state = "Publishing" => path = publisher.path

\* "Four ways, and all of them drop the Publisher: `deleteStream`, the socket
\* closing, another publisher taking the path, and a protocol error"
\* (rtmp/mod.rs:107).
DeleteStreamLetsGo == finished /\ todo = <<>> => publisher = Unset
=============================================================================
