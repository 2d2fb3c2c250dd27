# relaybay in TLA+

relaybay relays a live stream: an encoder publishes to a path over RTMP, any
number of players take it from there over RTSP. This directory holds TLA+
models of the parts of it in which concurrency, ordering and failure matter,
TLC configurations that check them on small instances, and proofs that the
TLA+ proof system checks for instances of every size. `PROJECT.json` lists
components, runs, hazards and theorems, and maps every definition to the lines
it models; this file says how it all fits together.

    tlc -workers 2 -config PathFeed.cfg MCPathFeed     check one configuration
    tlapm PathFeedProofs.tla                           check one module's proofs

Paths below are relative to `src/src/` of the repository.

## 1. Inventory

### Components

| Component | State it keeps | Operations | What makes it hard |
|---|---|---|---|
| `Registry` (`path.rs`) | the map of names (RwLock), a `Source` in each path (Mutex), the next token | `publish`, `describe`, `read`, `names`, drop of a `Publisher` | each operation takes several locks one after the other; takeovers, drops and reads interleave between them |
| Feed, cache, `Reader` (`path.rs`) | the keyframe cache with its byte count, a bounded broadcast channel, per reader a backlog, a cursor, `skipped` | `push`, `next`, `resync`, `evicted` | a reader attaches while units are pushed; the channel overruns slow readers; `next()` is a future that a `select!` drops |
| RTMP chunk stream (`rtmp/chunk.rs`) | per chunk stream the last header and the message so far; chunk sizes | `read`, `write` | headers are compressed against earlier ones; bytes arrive in pieces; 24- and 32-bit timestamps |
| RTMP handshake (`rtmp/handshake.rs`) | which of three steps comes next | `read` | bytes arrive in pieces, what follows C2 is already chunks |
| AMF0, FLV (`rtmp/amf0.rs`, `rtmp/flv.rs`) | none | read and write one message | counts that lie, nesting, 24-bit signed times, tags cut off |
| RTMP session (`rtmp/session.rs`) | state, app, path, what headers said, what was published | `handle` of a message | headers and frames in any order settle one description; commands may be repeated |
| RTMP timeline (`rtmp/session.rs`) | origin, last stamp, wraps | `at`, `offset` | a 32-bit counter, two tracks interleaved |
| RTMP connection (`rtmp/server.rs`) | buffers, the `Publisher` | the loop over session, socket and `evicted()` | replies change the size they are chunked at; displaced while the encoder sends on |
| RTSP messages (`rtsp/message.rs`) | none | `read` requests and interleaved frames, write answers, `Transport` | both kinds share one buffer that fills in pieces |
| RTSP session (`rtsp/session.rs`) | state, path, the tracks set up | `handle` of a request | the stream may change hands between two requests |
| RTSP connection (`rtsp/server.rs`) | buffers, what is played | the loop over session, socket and `Reader`; `attach`, `write` | answers and packets share a socket that may stall; requests come several to a read |
| SDP (`rtsp/sdp.rs`) | none | one function | what a player is told must be what the encoder stated |
| RTP (`rtp/`) | sequence number, timestamp base, SSRC | packetize H.264 and AAC | numbers of a fixed width, fragments |
| Codec records (`codec/`) | none | framings of NAL units, records | start codes and prefixes of 1, 2 or 4 bytes are told apart by looking |
| Descriptions, units (`track.rs`, `unit.rs`) | none | constructors, predicates | what counts as a keyframe differs by kind |
| Server lifecycle (`server.rs`, `main.rs`, `serve()` of both protocols) | ports, the runtime, tasks and the connections they own | `start`, `start_on`, `serve`, `shutdown`, drop | one bind of two fails, stop while connections run, a runtime that stays |

### How they interact

    encoder ==bytes==> rtmp::server --Message--> rtmp::Session
                            ^<------ Actions --------'
                            |
             publish, push, |  evicted()
                            v
                     path::Registry  ---- Source: cache + feed ----.
                            ^                                      |
              describe,read |  next()            Unit <------------'
                            |
                       rtsp::server --Request--> rtsp::Session
    player <==bytes==       ^<------ Response, Act ---'

Sessions do no I/O and are called synchronously by the task that owns their
connection. Tasks share only the registry: its map, and the `Source` of each
path. A `Publisher` and a `Reader` each belong to one connection; dropping one
is how a connection that ends says so to the registry.

### What would make each of them correct

- *Registry*: a reader gets units only of the publisher it was told of; a stream
  ends only for a reason of its own; whoever is displaced is told; no order of
  locks deadlocks; a name nobody publishes to is given up.
- *Feed*: the cache is a group that can be decoded, whole or not at all; the seam
  between cache and feed loses nothing and repeats nothing; a reader that fell
  behind resumes at a picture it can start at, and what it missed adds up; one
  that keeps up misses nothing; the end comes after the last unit and always comes.
- *RTMP session and connection*: the encoder can read every reply; the
  description published is what the headers said and never changes; every unit
  is of a track of the stream that was published; one stream to a connection;
  one that was displaced lets go, if its encoder does not stop reading for good.
- *Timeline*: the encoder's time, however its counter wraps; no track goes back.
- *Chunk stream*: what is read is what was written, in the order it was
  completed, in whatever pieces it arrives; nothing that is complete is held
  back; what both sides carry forward for the next header stays the same.
- *RTP*: every access unit comes out of its packets whole, with its time and its
  end.
- *RTSP session and connection*: session and driver agree on what plays; packets
  keep to the channels agreed; what is played is what was set up; answers are
  written before anything is waited for; a stream that is over is let go of.
- *RTSP messages*: what a client says is taken as it was said, however it is cut
  up; it reads each answer whole, in order, between packets; a control it is told
  leads back to its track; what is agreed is what it offered.
- *From handshake to media*: the handshake takes its own bytes and no more, and
  ends; commands, tags and records lose nothing; units of a picture come through
  either framing; a player is told what the encoder stated.
- *Server lifecycle*: a start that fails leaves nothing; a server that is held
  listens; stopping ends everything it started; whoever connects is let in.

`PROJECT.json` ("hazards") lists what can go wrong in each at the line where it
would, with the properties that watch it.

## 2. Modules

| Module | Models | Checked by | Proved in |
|---|---|---|---|
| `PathFeed` | one `Source` and its readers | `feed`, `feed_cancel` | `PathFeedProofs` |
| `PathPromise` | abstract: what a path promises a reader | refined in `feed` | `PathFeedProofs` |
| `PathRegistry` | the registry, at the granularity of its locks | `registry_safety`, `registry_liveness` | `PathRegistryProofs` |
| `RtmpSession` | session and driver of a publishing connection | `rtmp` | `RtmpSessionProofs` |
| `RtmpTimeline` | `Timeline` under an encoder with two tracks | `timeline` | `RtmpSessionProofs` |
| `ChunkStream` | the reader of chunks, and relaybay's `Writer` or an encoder writing to it | `chunk` | `ChunkStreamProofs` |
| `RtmpIntake` | what an encoder sends from its first byte on: handshake, commands, media | `intake` | - |
| `Amf0` | operators of `RtmpIntake`: AMF0, read and written | `intake` | - |
| `MediaFormats` | operators of `RtmpIntake`: FLV tags, framings and records of codecs, SDP | `intake` | - |
| `RtspConnection` | session and driver of a player's connection | `rtsp` | `RtspConnectionProofs` |
| `RtspMessages` | a client and the loop exchanging requests, frames, answers and packets | `rtsp_messages` | `RtspMessagesProofs` |
| `RtspAddressing` | operators of `RtspMessages`: URIs, controls, Transport headers | `rtsp_messages` | `RtspMessagesProofs` |
| `RtpPacketizer` | the RTP streams of what a client plays, and a receiver | `rtp` | `RtpPacketizerProofs` |
| `ServerLifecycle` | `Server`, `ServerHandle`, `main` and both accept loops | `server` | `ServerLifecycleProofs` |

An `MC` module beside each gives constants their values for TLC. Definitions
introduced by a comment `Mutant:` are a model of a bug: each takes the place of
a definition of the code in one run to see that a property notices.

### PathFeed

A unit is its position in `sent`; the broadcast channel (tokio's) is the last
`BACKLOG` positions, a receiver a cursor. One step is one acquisition of the
source's lock or one poll of a receiver. `Push` is `Publisher::push` with
`Cache::push` and the send under one lock; `Attach` is `Registry::read`'s copy
of the cache and its subscription, also under one lock. `Reader::next` is
`TakeBacklog`, or `Await` and then `Poll`, whose disjuncts are what the receiver
may say (a unit, `Lagged`, `Closed`) in `next()` and in `resync()`; `Cancel` is
a `select!` dropping the future between two polls, for readers in `Selecting`.
`Close` is the source dropped, by a takeover or by the publisher's drop. Units
carry a kind and a size; sizes decide what the cache keeps.

The variables `first`, `last`, `got`, `thrown` and `torn` are history for the
properties and in no guard.

### PathPromise

The module documentation of `path.rs` as a machine of its own: join at a group's
start, get units in order, jump only when more than `BACKLOG` behind and only to
a keyframe, end at the end. `PathFeed!KeepsPromise` states that cache, channel
and `resync()` implement it, for readers that let `next()` finish; TLC checks it
on an instance, `ImplementsPromise` proves it for all.

### PathRegistry

One step is what one lock protects, and what happens between two steps may be on
another thread: `publish()` is `TakeNumber`, `TakePlace` (the map), `TakeOver`
(the source); the drop of a `Publisher` is `TakeDown` or `StepAside` (the
source) and, the lock released, `RemoveEntry` (the map); `read()` is `LookUp`
and `Attach`; `names()` holds the map while it takes each source in turn. A
`Path` object is named by the token of the `publish()` that made it, so that a
name that was given up and taken again is told from one that was kept. A
description is the publisher that stated it: `TakeOver` puts it in `described`
with the new source, `Attach` gives a reader what it finds there (`told`), and
`carried` records whose units went into each stream, whoever pushed them.

### RtmpSession

A read brings a batch of messages; `Handle` takes one and yields actions;
`Apply` does them one at a time, the last of them perhaps `LetGo`, after which
only the replies are still written (`Leave`); `Flush` writes; then the connection
waits in its `select!`, for `Read`, `Hangup` or `Evicted`. The write has no
deadline: with `reading` false (`StopsOrResumes`) the encoder takes nothing, the
socket is full and the driver waits in `write_all`, where it looks at neither the
socket nor `evicted()`. `reading` stands for room as well as for reading: an
encoder that never reads has its socket fill up with an acknowledgement for
every window, if with nothing else. `Fail` is every way `handle()`
or the reader may refuse. Names, keys and parameters are model values. `peer` is
the size at which the encoder reads once it has read what was written to it, the
external half of the chunk-size exchange; `Displace` is another connection's
`publish()`.

### RtmpTimeline

`Timeline::at` and `offset` in exact integers over a counter of `W`
milliseconds. The encoder's own time is `[turn, stamp]`; a frame of either track
may come up to `Step` after the last one or, for the other track, up to `Skew`
before it. The code's arithmetic on `u64` with saturating subtraction is
`AtLeastZero`; `wraps * 2^32` in 64 bits takes 2^32 turns, or 580 million years,
to overflow and is not modelled. Its specification is `TimelineSpec`: a
connection has one `Session` and that one `Timeline`, and the proofs of both are
in one module.

### ChunkStream

The wire is a sequence of the parts a chunk consists of: a basic header, the
fields after it (those its format leaves out are `None`), an extended timestamp,
units of payload. A unit knows whose message it is of and where in it, so that
one that went elsewhere is seen. `Arrive` brings one more part, so that a
chunk stops short anywhere between two of them; that fields stop short of their
length is the same step of `read_chunk` and changes as little. `ReadChunk` is
`Reader::read_chunk` with `apply`; a reader that takes a part for another one is
`astray`, and that is final.

Either relaybay's `Writer` writes (`WriteMessage`, `WriteResize`) or an encoder,
which is outside the repository and modelled by what the format allows: every
header format that can be read against the last one (`Formats`), chunk streams
interleaved chunk by chunk (`Continue`), a chunk size that changes while messages
are half sent (`Resize`), messages given up (`AbortMessage`), and the extended
timestamp repeated in every format 3 header, as the reader's comment says every
encoder does. A control message is one unit, always a whole chunk, since its four
bytes fit any chunk size in use. Not modelled: a malformed control message, a
chunk size of zero or over the limit, and the three widths of a basic header.

### RtspConnection

The loop drains requests (each disjunct of `Handle` is a method, refused or
taken), does what a request asks of the driver (`Attach`, `Detach`, `TearDown`),
writes under a deadline (`Written`, `Stalled`) and waits for a `Read`, a `Unit` or
the end of the stream. `Republish` is publishers coming and going on the paths of
the registry, `StopsOrResumes` a client that stops taking what is written. A
`Reader` is reduced to what it was attached to and whether that is over. URIs
are the path and the track they name; a `Transport` is its first workable
alternative or none.

### RtpPacketizer

`Write` is `Playing::write`: one unit cut into packets by the packetizer of its
track, `Pictures` or `Sound`, numbered and stamped by its `Stream`. `Play` is
`attach()`, which gives every track a `Stream` with an SSRC of its own and
numbers that start anywhere (`Starts` stands for what `scramble` makes of an
SSRC); `Pause` drops them, and what was written stays written. Packets carry
bytes that know which unit they are of and where in it. The receiver (`Hear`) is
outside the repository: it puts units together by the rules the module docs of
`rtp/h264.rs` and `rtp/aac.rs` quote, expects numbers without gaps, and takes a
timestamp for the nearest there is. Packets are on TCP, so that none is lost. The
first byte of a NAL unit, which FU-A splits over two, is one value here.

### ServerLifecycle

One server is one call of `Server::start` or `start_on` (`Start`), on a runtime
of its own or the caller's. `Bind`, `BindFails` and `Spawn` are the steps of
`start_on`, between which another program may take a port (`Elsewhere`) and
connections may queue; `Stop`, `Abort` and `LetGo` those of `shutdown()` and of
the handle's drop. A task is "waiting" at an await or "polling"; `abort()` and
the end of a runtime get at it only at an await, which is why stopping takes
several steps. `serve()` is `Poll`, `Accept` (with the reaping that precedes the
next `accept()`), `AcceptFails`, `Pend` and `EndServe`, whose drop of the
`JoinSet` dooms the connections in it. Two servers on the same ports are also one
that is started again. tokio's scheduler, its budget and the kernel's queue are
external.

### RtmpIntake, Amf0, MediaFormats

`Hello` and `Echo` are the states of `Handshake::read`, over a buffer that
`Arrive` fills by any number of bytes; the encoder sends everything at once or
waits for each answer (`waits`). After that the encoder's messages are its
contents: `Command` builds a command message field by field, `Media` is one
video or audio message through `read_video` or `read_audio`, the record or the
split into NAL units, as `Session` does. `Amf0` has `read_all` and `write_all`
as recursive operators over fields: a marker with its fixed part, or a key. The
operators of `MediaFormats` work on bytes, each below 256, so that lengths that
look like start codes, negative composition times and the bit fields of records
are the real ones. `Panic` is a slice out of bounds. `stated` is history.

### RtspMessages, RtspAddressing

The wire is a sequence of marks: a line of a head, `CRLF`, the `$`, channel and
length of a frame, and bodies and payloads that may consist of any of these.
`Arrive` brings any number of them; `Take` is one `read()` with what `Session`
makes of the request and `Respond`; `Refuse` is `read()` failing; `Leave` is what
is left to do after a TEARDOWN; `Write` flushes and `Send` is a packet, written
behind whatever the client has still to read. The client speaks in `Says`, sets up
tracks it found in a description in `SaysSetup` - under the `Content-Base` it was
last told - and takes answers and packets apart in `Hear`; it is outside the
repository. `RtspAddressing` has `path_of`, `split_track` and `Transport` over
words and separators. `taken` and `given` are history. The state of the session
is reduced to what decides where a request goes; `RtspConnection` has the rest.
A head over `MAX_HEAD` is refused only while it is incomplete
(`rtsp/message.rs:318`): one that arrives whole may be taken, and both outcomes
are in `TakesWhatWasSent`.

## 3. Runs

Passing runs. Every property has a mutant in `PROJECT.json` that breaks it.

| Run | Instance | States | Shows |
|---|---|---|---|
| `feed` | a reader in a `select!` and one that finishes each `next()`, channel of 2, cache of 2 bytes, 4 units, fair | 439 582 | `CacheIsLastGroup`, `NothingLostUnlessBehind`, `EveryUnitAccountedFor`, `KeepingUpLosesNothing`, `EveryReaderIsTold`; `KeepsPromise`: `PathFeed` implements `PathPromise` for the second |
| `registry_safety` | three publishers of two names, a reader, a caller of `names()`, three calls of `publish()` | 809 492 (up to symmetry) | `NoStreamIsMixed`, `NoNameIsLeftBehind`, `EndsOnlyForAReason` |
| `registry_liveness` | two publishers of one name, fair | 10 630 | `EveryCallReturns`, `EveryoneIsTold` |
| `rtmp` | two keys, two parameters, two messages a read, every third read acknowledged, an encoder that stops reading and resumes, fair | 174 830 | `EncoderCanReadReplies`, `DescriptionHolds`, `SettledIsPublished`, `DisplacedLetsGo` |
| `timeline` | a counter of 8, steps of 4, skew of 3, three turns, one frame from behind a wrap | 32 898 | `TimeIsRight` |
| `chunk` | two chunk streams and control, messages of 0 or 2 units on two message streams, chunks of 1 or 2, a counter of 3 whose last value is extended, 14 parts on the wire, 3 messages | 1 109 977 (up to symmetry) | `ReadsWhatWasWritten`, `NothingIsHeldBack`, `SidesAgree` |
| `intake` | a handshake of 3 bytes a part, commands of up to 5 fields nested up to 2 deep, three media messages, fair | 114 091 | `HandshakeKeepsInStep`, `EveryHandshakeEnds`, `CommandsComeBack`, `MediaComesBack`, `PicturesKeepTheirUnits`, `PlayerIsToldWhatWasStated` |
| `rtsp` | two paths, streams of two tracks and of one, two channels, two requests a read, fair | 355 124 | `SessionAndDriverAgree`, `PlaysWhatWasSetUp`, `EndedStreamIsLetGo` |
| `rtsp_messages` | two paths of which one's name begins the other's, two tracks, two Transport headers, twelve other things to say, a `SETUP` without a `DESCRIBE`, `PLAY`, `PAUSE` and `TEARDOWN` among them, of which four cannot be read and one only if it arrives whole; three of them in pieces of any size, and two packets | 257 378 | `TakesWhatWasSent`, `NothingIsHeldBack`, `AnswersComeBackWhole`, `ControlComesBack`, `AgreesToWhatWasOffered` |
| `rtp` | two tracks, packets with room for 5 bytes, NAL units of 1 to 9, frames of 0, 2 and (too long) 3, numbers modulo 4 and 8, three units, two plays | 1 507 317 | `UnitsComeBackWhole`, `NothingIsWaitedFor`, `TimesComeBack` |
| `server` | one server on both ports or on one, of its own runtime or the caller's, two connections, a budget of 1, fair | 29 541 | `FailedStartLeavesNothing`, `ListenersOwnConnections`, `StopEndsEverything`, `EveryoneIsLetIn` |

Invariants that are proved and say less than these are not repeated in the runs:
the `TypeOK` of each module that has proofs, `SkipsOnlyToKeyframes`, `UnitsBelongToTheStream`,
`OneStreamPerConnection`, `GoesForwards`, `PacketsGoWhereAgreed`,
`AnsweredBeforeWaiting`, `KeepsListening`, `PacketsFit`.
The type invariant of `RtmpTimeline` is `TimelineOK`. The `TypeOK` of `RtmpIntake`
and, also where the proof makes an exception, of `ChunkStream` holds on the
instances of their runs when it is added to their configurations.

Why these bounds are enough to be interesting:

- `feed`: four units overrun a channel of two twice, the second time while the
  reader resynchronises; a cache of two bytes is one that a group of three units
  overflows and that a sound-only stream has to cut from the front; a group may
  end, overflow and begin again. Units of two sizes are left to the proofs, which
  hold for all of them.
- `registry_*`: three publishers are a takeover of a takeover while the first is
  still in its drop; two names show that one's locks do not disturb the other.
  Liveness needs a taker, a dropper, a reader and a `names()` at once, which two
  publishers give.
- `rtmp`: two keys make `publish` sent twice differ; two parameters let a header
  contradict what was published; two messages in a read are the least in which
  one is refused after another was handled.
- `timeline`: any step of more than half of 8 is a wrap and any of 3 or less is
  not, as with 2^32; three turns make each counted wrap the base of the next.
- `chunk`: a message of two units in chunks of one is continued, and aborted or
  resized in between; three messages are a format 3 header after a format 1 or 2,
  or an aborted message, its Abort and the next on that chunk stream; 14 parts are
  two messages with everything a header can have. Four messages over 7 parts hold
  as well (2 639 301 states, two minutes); times of
  0, 1 and 2 give deltas that wrap, repeat and are extended. Messages of an
  encoder that keeps to the format are never refused, which the run shows too.
- `rtsp`: descriptions of one and of two tracks, the second codec being the
  other's first, are a stream replaced by one that no longer has a track, or has
  another there; two paths let a request name another one.
- `rtp`: fragments have room for 3 bytes of a NAL unit and pieces for 1 of a
  frame; 5 just fits, 7 (a header and 6) divides exactly, 8 and 9 do not. Three
  units use up to twelve numbers modulo 4, and their times wrap a timestamp.
- `intake`: five fields are an object in an object with a property, an array
  whose count is one too small or too large, and every one of them cut off
  anywhere; records of one and of two parameter sets come whole, cut off anywhere
  and with bytes to spare; pictures are all of up to four bytes over a start
  code's, framings with each prefix size, a unit of 256 bytes, the extreme
  composition times; three media messages are two headers and a picture in any
  order, or a header that replaces one.
- `rtsp_messages`: three things said are a description, a set-up by what it says
  and a request between them, or noise after a request with a body; or a set-up,
  a `PLAY` and one more, which is what brings a packet between two answers that
  the client has not read yet, and a `TEARDOWN` or a `PAUSE` behind it. Pieces end
  between any two marks. Marks stand for bytes where they decide something. Four
  things said hold as well (6 622 391 states, five minutes).
- `server`: both ports are the least of which one can fail; two connections are
  one that stays for ever and one that waits for it, or one in a poll and one in
  the queue when it stops. `Budget` 1 makes every accept a poll of its own.

`CHECK_DEADLOCK FALSE` is everywhere: publishers may stop, connections close and
bounds be reached, after which nothing has to happen.

### Disagreements

One run is expected to find a violation: it states what the repository says and
shows what the code does instead (`PROJECT.json`, "findings").

| Run | Says | Does |
|---|---|---|
| `feed_cancel` | `path.rs:289`: `next()` is cancel-safe | dropped inside `resync()` it forgets that it lagged, and the next call returns a unit from the middle of a group |

More are stated and have a configuration, but are not among the runs:

| Configuration | Property | What it shows |
|---|---|---|
| `PathFeed_skipped.cfg` | `SkippedCountsEveryUnitMissed` | `skipped()` (`path.rs:280`) leaves out what `resync()` reads past |
| `PathFeed_sound.cfg` | `SoundIsNotThrownAway` | a sound-only stream drops its oldest (`path.rs:34`), but a reader of one that lagged once never resumes: no sound opens a stream (`path.rs:315`) |
| `PathRegistry_one.cfg` | `OnePublisherPerName` | a takeover between the two locks of a drop loses its name to that drop (`path.rs:252`), and the next publisher does not displace it, though a path has one publisher (`path.rs:3`) |
| `PathFeed_first.cfg` | `FirstPictureIsAKeyframe` | pictures cached before any keyframe are handed to a reader (`path.rs:367`, `494`) |
| `RtmpSession_stalled.cfg` | `DisplacedAlwaysLetsGo` | `evicted()` is waited on so that a publisher that stopped sending finds out and closes (`path.rs:227`); with an encoder that does not read either, the driver is in `write_all` (`rtmp/server.rs:126`), which has no deadline, and never looks at it |
| `RtmpSession_again.cfg` | `PathIsWherePublished` | `publish` sent again renames `Session::path()` (`rtmp/session.rs:203`, `377`) |
| the same | `DeleteStreamLetsGo` | `connect` sent again makes `deleteStream` drop nothing (`rtmp/session.rs:306`, `rtmp/mod.rs:107`) |
| `RtmpTimeline_late.cfg` | `LateIsNotAWrap` | a frame from just behind a wrap has that wrap counted again: all later times are 49 days ahead, though `rtmp/session.rs:552` says a small step back is no wrap |
| `RtmpTimeline_shown.cfg` | `DecodedBeforeShown` | a negative composition time gives a `pts` before its `dts` (`rtmp/session.rs:566`, `unit.rs:115`) |
| `ChunkStream_own.cfg` | `ReadsItsOwn` | a message at the time of the one before, which had an extended timestamp, is written as a format 3 header without one (`rtmp/chunk.rs:628`), where `Reader` expects four more bytes (453): "what one side leaves out, the other has to put back" (`round_trip`, 766). `ReadsWhatWasWritten` excepts exactly that (`omitted`) |
| `RtspConnection_tracks.cfg` | `TracksOfOnePath` | a `DESCRIBE` after `SETUP` renames the path, and `PLAY` plays it on tracks of the other, though `rtsp/session.rs:233` says that all tracks are of one path |
| `RtspConnection_agreed.cfg` | `PlaysWhatWasAgreed` | a publisher replaced between `SETUP` and `PLAY` is played on tracks set up for its predecessor (`rtsp/server.rs:227`, `path.rs:86`); `PlaysWhatWasSetUp` is what does hold |
| `RtspMessages_query.cfg` | `ControlComesBack` | `DESCRIBE` of a URI with a query answers a Content-Base that ends in that query (`rtsp/session.rs:208`); a control resolved against it comes back inside the query, and the track is not found |
| `RtmpIntake_short.cfg` | `ShortTagsAreRefused` | a video header cut off after its second byte is sliced out of bounds (`rtmp/flv.rs:135`) and ends the task with a panic, where `rtmp/flv.rs:415` tests that tags shorter than their header are refused |
| `RtmpIntake_codes.cfg` | `LengthsAreNoStartCodes` | a length prefix of four bytes that is 1, or 256 to 511, is taken for a start code, though the comment at `codec/h264.rs:176` has it that it cannot be |

### Fairness, and why the code justifies it

- `PathFeed`: a reader's task keeps calling `next()` (weak fairness of
  `TakeBacklog` and `Await`); `select!` polls its branches in random order, so
  that a feed with something to give is taken in the end although `Cancel` may
  come in between (strong fairness of `Poll`). Nothing makes a publisher send.
- `PathRegistry`: a call that was made runs on when its lock is free. The RwLock
  lets a waiting writer in before new readers, hence strong fairness where the
  map is written; all else is weak. A driver watches `evicted()` and its reader,
  `evicted()` on the terms of `RtmpSession`: the encoder does not stop reading for
  good.
- `RtmpSession`: the driver goes on while it has something to do (weak). A write is
  finite, so that it ends with an encoder that comes back to reading again and again
  (`Write`, strong); with one that stops for good it need not. `select!` is random,
  so `Evicted` is strongly fair. The encoder owes nothing: that it comes back to
  reading is a premise of `DisplacedLetsGo`, and `RtmpSession_stalled.cfg` shows that
  it is needed.
- `RtspConnection`: draining is weakly fair, and so is a write, which ends or
  runs into its deadline (`WRITE_TIMEOUT`); `StreamEnded` is strongly fair by the
  random `select!` and because a backlog is finite.
- `ServerLifecycle`: a call that was made runs on and a runtime polls what can
  run, every poll of an accept loop being short (weak). An `accept()` that fails
  does not do so for ever while somebody is queued (`Accept`, strong): file
  descriptors come back. A connection that was told to end gets to an await
  (`ConnectionDropped`, weak); nothing else obliges it to end, or a caller to stop.
- `RtmpIntake`: what was sent arrives and what arrived is read (weak). The
  encoder sends the whole of its half.

## 4. Proofs

Each proof module shows an inductive invariant of its component, for all values
of the constants that satisfy the named assumption, and from it the properties.

| Module | Assumption | Inductive invariant | Theorems |
|---|---|---|---|
| `PathFeedProofs` | `FeedAssumption`: sizes and limits are naturals, the channel holds at least one | `FeedInvariant`, with `FarBehind` for the refinement | all invariants of run `feed`, `SkipsOnlyToKeyframes`, `KeepsPromise` (every step of `PathFeed` is one of `PathPromise` or changes nothing there) |
| `PathRegistryProofs` | `RegistryAssumption` | `RegistryInvariant` | all of run `registry_safety` |
| `RtmpSessionProofs` | `SessionAssumption`: `Unset` is none of the values | `SessionInvariant` | all safety of run `rtmp`, `UnitsBelongToTheStream`, `OneStreamPerConnection` |
| the same, of `TimelineSpec` | `TimelineAssumption`: steps up to half the counter, skew less than half | `TimelineInvariant` | `TimeIsRight`, `GoesForwards` |
| `RtspConnectionProofs` | `ConnectionAssumption`: `None` is none of the values | `ConnectionInvariant` | all safety of run `rtsp`, `PacketsGoWhereAgreed`, `AnsweredBeforeWaiting` |
| `RtpPacketizerProofs` | `RtpAssumption`: a packet has room for more than what is put in front, widths are not zero | `RtpInvariant` | all of run `rtp`, `PacketsFit`; of what the packetizers compute `NearestIsRight`, `PiecesHaveEveryByte`, `FragmentsFit`, `SoundFits` |
| `ChunkStreamProofs` | `ChunkAssumption`: fewer chunk streams than `MAX_CHUNK_STREAMS`, no message longer than `MAX_ASSEMBLED_LENGTH`, sizes and widths are not zero | `ChunkInvariant` | `ReadsWhatWasWritten`, `SidesAgree`; `EncoderIsRead`, `NoneIsOwed`, `NoneIsHalfWritten` |
| `RtspMessagesProofs` | `MessagesAssumption`: what is said has marks of the kinds `Sayable` lists, no path is empty, `None` is no path and no number; `AddressingAssumption`: a channel fits a port, numerals are words and no separators | `Taking` (`TakingIsInvariant`) and `Answering` (`AnsweringIsInvariant`) | all of run `rtsp_messages`; two with a hypothesis, see below |
| `ServerLifecycleProofs` | `LifecycleAssumption`: ports are held by servers, by nobody or by others, which differ | `LifecycleInvariant` | all safety of run `server`, `KeepsListening` |

Why the invariants are what they are:

- *Feed*. That the cache is the last group does not follow from itself when a group
  that outgrew the limit ends: the invariant also says what `overflowed`, `pictures`
  and `bytes` mean in terms of `sent`. That nothing is lost at the seam, and that what
  is missed adds up, both need a reader's cursor between the oldest unit held and the
  next to come, and its backlog to be the units just before the cursor. That keeping
  up is enough needs that a reader's backlog and cursor follow on the last unit it
  got, or else it is more than `BACKLOG` behind (`FollowsOn`): a lag moves the cursor
  past units only when they have left the channel, which puts them that far back
  (`LaggedIsFarBehind`), and until `resync()` has found a picture the reader only
  falls further. That it implements `PathPromise` needs one thing more (`FarBehind`):
  a reader inside `resync()` is more than `BACKLOG` behind what it last got until it
  has resumed, because a promise to get every unit unless one falls that far behind
  must not be broken by a reader that was far behind and has caught up while it looks
  for a picture.
- *Registry*. That no stream is mixed needs a layer of its own (`StreamsAreTheirOwn`):
  a token is held by one publisher, so that a stream it has not yet put in place
  has carried nothing and has no reader; from then on what the source is described
  as is whoever pushes to it, and a reader keeps what it was told then, through any
  takeover of the path after it. That no name is left behind, that a path out of
  the map has no stream, or one about to be put there by a publisher who looked
  it up.
- *RTMP session*. Between `Handle` and `Apply` the session is ahead of the driver:
  the invariant says what the actions still to do will make of it, that a publish
  comes first if it comes at all, and at what size what is written was chunked.
- *Timeline*. The number of wraps counted is the encoder's turn plus one for every
  frame that came from behind a wrap (`WrapsAreCounted`): the excess is what
  `RtmpTimeline_late.cfg` shows, and since it never shrinks, no track's time goes back.
- *RTSP*. Session and driver are changed by different steps; `InStep` says by how
  much they may differ. That a `SETUP` finds nothing playing is a consequence,
  and that is why packets keep to their channels. A second layer, `PInv`, says
  that what was agreed and not published anew is what is published, which gives
  `PlaysWhatWasSetUp`.

- *Server lifecycle*. That a failed start leaves nothing needs to know who can
  hold a port: a start in its middle that bound it, or a task that serves it
  (`PortsHeld`), and tasks and connections are found only where `start_on`
  returned a handle (`TasksHold`, `AcceptedByHandled`). That a held server listens
  needs that nothing was aborted before there was a reason (`UntouchedBefore`).

- *RTP*. What the packetizers compute rests on one fact about division
  (`PiecesCount`): with budget `b`, a unit of `n` bytes has `k` pieces exactly when
  `b * (k - 1) < n <= b * k`. That the nearest tick is the right one, that the
  numbers `step` and `n - m` differ by a multiple of the width that can only be 0
  or 1. The invariant of the state machine looks ahead: `Leaves` says that a
  receiver which hears what is on the wire, packet by packet, gets every one right
  and comes to where the streams are, expecting their next numbers and owed nothing
  (`Settled`). Then hearing a packet is the first step on that way, and writing a
  unit adds its packets at the end of it, where they meet a receiver with nothing
  half heard; what has to be shown is only that such a receiver takes one unit's
  packets for that unit. An access unit's packets are put in a row by a recursive
  function of the community modules; it is taken apart by looking at the least
  number of NAL units at which it would come out wrong.

- *Chunk stream*. Nothing can be said of the `Reader` alone: what the next chunk
  means depends on all chunks before it, read or not. So the invariant looks ahead
  too. `GoodChunk(w, u)` says that the first chunk of wire `w` is whole, that a
  `Reader` in state `u` does not refuse it, and that a message it completes is the
  one to come; `LeadsTo` that one good chunk after the other leads from one wire and
  `Reader` to another; `InStep` that the wire as it is leads the `Reader` as it is to
  `Mine`, the `Reader` that carries forward exactly what the other side does, with
  nothing left on the wire. `LeadsTo` is stated without recursion, as membership in
  every set that is closed under reading a good chunk. The steps of the proof: what
  comes later on the wire does not change what a whole chunk says (`ReadsLater`); in
  each format, what `StateOf` makes of a header is what `Carried` says its writer
  carries forward, for every width of timestamps (`HeadersAgree`, on `WrapsBack`);
  a chunk that fits a `Reader` leads it on (`ChunkComes`), and so do all chunks that
  `Writer::write` makes of a message (`MessageComes`); an Abort leaves both sides
  alike (`AbortedIs`). Two facts about the writer are needed as well (`SideOK`): only
  media is ever half written, and a delta that does not fit its field went in the
  extended timestamp, without which a format 3 header would be read one way and
  written the other. The exception is `omitted`, the disagreement that
  `ChunkStream_own.cfg` shows; `EncoderIsRead` has none. Types are proved under the
  same exception, since a `Reader` that has gone astray may take anything for a
  length.

- *RTSP messages*. The invariants say what the marks on the wire are. To the server
  (`Taking`): those in its buffer and those still to come are, together, the marks of
  what was said and has not been taken, and what was taken is what was said, each
  with the outcome it must have. Back to the client (`Answering`): those it has and
  those still to be flushed are the marks of what was given and has not been heard;
  every request taken was answered once, with its number and in its order, and
  packets lie between answers. With marks of a request, a frame or noise in front, a
  reader finds that and nothing else, waits because it is not whole, or refuses for
  the reason that lies in it (`WireIsRead`); it cannot take a body or a payload for
  something else, since lengths say how far they go. That is about `FlattenSeq`,
  which the community modules define by recursion; what it makes of a sequence of
  sequences is shown by looking at the least place where it would be wrong
  (`LeastNatural`, `Inductive`), sets of numbers taking the place of the library's
  induction theorems. `NothingIsHeldBack` follows: what is whole in the buffer and
  not taken would be another mark than the invariant says.

  `AgreesToWhatWasOffered` and `ControlComesBack` are about the last `SETUP` and its
  answer. Each is proved under a hypothesis on what clients may say, which `MCRtspMessages`
  assumes of the passing run's instance, so that TLC evaluates it there, and without
  which it is false. `EveryOfferIsWell`: a form of a Transport header
  names no parameter twice and gives a pair of numbers where it gives any - of two
  parameters of one name the code keeps the last, and refuses for its sake what the
  first would have allowed; `ChosenIs` says what is chosen otherwise. `EveryUriIsPlain`: a URI
  has no query - `RtspMessages_query.cfg` shows one that does not come back. For the
  others, `ControlIs` says that `split_track` and `path_of`, given a `Content-Base`
  with a control after it, give the path and the numeral they were made of.

Only model-checked:

- All liveness: temporal proofs under fairness are out of the prover's reach.
- `NothingIsHeldBack` of `ChunkStream`, which is about whether `Read` is ENABLED.
  What it rests on is proved: the wire begins with a whole chunk that can be read
  (`NoneIsHalfWritten`), and an empty wire owes nothing (`NoneIsOwed`).
- `RtmpIntake`. What it reads is defined by RECURSIVE operators over data (`Amf0`,
  `MediaFormats`), about which this prover cannot prove anything: that what is
  written is read back is induction over that data.

## 5. What is not modelled, and the plan

`Stream::with_mtu` is left out of `RtpPacketizer`: it accepts any size above the
header's, and the packetizers subtract 2 or 4 more bytes. Only tests call it.

Not modelled at all: the examples, the sockets themselves, logging, the letters
of header names and the fixed lines of SDP, a malformed control message of the
chunk stream. The letters and lines are layout that no property tells apart.

Order of work, the most important behaviour first:

1. `PathFeed` with `PathPromise` - done, the refinement proved
2. `PathRegistry` - done
3. `RtmpSession` - done
4. `RtmpTimeline` - done
5. `RtspConnection` - done
6. `ChunkStream` - done, with proofs
7. `RtpPacketizer` - done, with proofs
8. `RtspMessages`, `RtspAddressing` - done, with proofs.
9. `RtmpIntake`, `Amf0`, `MediaFormats` - done, model-checked only: their
   RECURSIVE operators are out of the prover's reach.
10. `ServerLifecycle` - done, with proofs.
11. `Relay`: `PathRegistry` composed with a publishing and a playing connection,
    as far as TLC reaches.
