----------------------------- MODULE ChunkStream -----------------------------
(***************************************************************************)
(* RTMP's chunk stream, src/src/rtmp/chunk.rs: the Reader that puts        *)
(* messages together again, and what it reads: either the Writer of the    *)
(* same file, as when relaybay reads back what it wrote, or an encoder,    *)
(* which interleaves its chunk streams, picks any header format that may   *)
(* be read, aborts messages and changes its chunk size between chunks.     *)
(*                                                                         *)
(* The wire is a sequence of what a chunk consists of: a basic header, the *)
(* fields after it, an extended timestamp, units of payload.  Some of it   *)
(* has arrived.  A Reader that takes one part for another is astray from   *)
(* then on.  A unit of payload knows which message it belongs to and where,*)
(* so that one that went elsewhere is seen.                                *)
(***************************************************************************)
EXTENDS Integers, Sequences, FiniteSets

CONSTANTS
  Csids, CONTROL,        \* the chunk streams of media, and that of control messages
  Shapes,                \* [length, stream] of a message of media
  Sizes,                 \* of chunks
  W,                     \* what timestamps wrap at, 2^32 in the code
  EXTENDED_TIMESTAMP,    \* the first that does not fit its field
  DEFAULT_CHUNK_SIZE,
  MAX_CHUNK_STREAMS,
  MAX_ASSEMBLED_LENGTH,
  None,                  \* no header read or written yet, no such field
  MaxWire, MaxMessages   \* bounds: parts on the wire, messages begun

VARIABLES
  \* who writes: an encoder or relaybay's Writer
  who,
  written,  \* per chunk stream, State after the last header written
  unsent,   \* how much of its message has yet to be written
  size,     \* chunk size written at
  begun,    \* how many messages were begun
  \* the wire
  wire,     \* what was written and not read
  arrived,  \* how many parts of it are in the reader's buffer
  \* Reader
  streams,  \* Reader::streams: [state, payload]
  chunk_size,
  status,   \* reading, refused with a ChunkError, or astray
  \* history
  expected, \* the messages on the wire, in the order they were completed
  right,    \* each message read was the first of these
  omitted   \* the Writer left out an extended timestamp that was there before

writer == <<who, written, unsent, size, begun>>
vars == <<who, written, unsent, size, begun, wire, arrived, streams, chunk_size, status,
          expected, right, omitted>>

AllCsids == Csids \union {CONTROL}
Timestamps == 0..(W - 1)
Kinds == {"media", "size", "abort"}

\* A message; `value` is what its payload says, or whose it is.  Messages that
\* control the connection are on message stream 0.
MediaOn(c) ==
  {[timestamp |-> t, length |-> s.length, kind |-> "media", stream |-> s.stream, value |-> c] :
     t \in Timestamps, s \in Shapes}
Resizes == [timestamp : {0}, length : {1}, kind : {"size"}, stream : {0}, value : Sizes]
Aborts == [timestamp : {0}, length : {1}, kind : {"abort"}, stream : {0}, value : Csids]
Control == Resizes \union Aborts
Messages == Control \union UNION {MediaOn(c) : c \in Csids}

\* What a chunk stream carries forward.
States == [timestamp : Timestamps, delta : Timestamps, length : Nat, kind : Kinds,
           stream : Nat, extended : BOOLEAN]

\* What a chunk consists of, and what the Reader keeps of a chunk stream.
Parts ==
  [is : {"basic"}, fmt : 0..3, csid : AllCsids]
    \union [is : {"fields"}, time : Nat, length : Nat \union {None},
            kind : Kinds \union {None}, stream : Nat \union {None}]
    \union [is : {"extended"}, value : Timestamps]
    \union [is : {"unit"}, of : Csids \union Sizes, at : Nat]
Streams == [state : States, payload : Seq(Parts)]

ASSUMPTION ChunkAssumption ==
  /\ IsFiniteSet(Csids) /\ CONTROL \notin Csids
  /\ Shapes \subseteq [length : Nat, stream : Nat] /\ Sizes \subseteq Nat \ {0}
  /\ DEFAULT_CHUNK_SIZE \in Sizes
  /\ W \in Nat \ {0} /\ EXTENDED_TIMESTAMP \in Nat \ {0}
  /\ None \notin States /\ None \notin Streams
  /\ MaxWire \in Nat /\ MaxMessages \in Nat
  /\ MAX_CHUNK_STREAMS \in Nat /\ MAX_ASSEMBLED_LENGTH \in Nat
  \* what an encoder that speaks RTMP keeps to
  /\ Cardinality(Csids) < MAX_CHUNK_STREAMS
  /\ 1 <= MAX_ASSEMBLED_LENGTH /\ \A s \in Shapes : s.length <= MAX_ASSEMBLED_LENGTH

Basic(fmt, c) == [is |-> "basic", fmt |-> fmt, csid |-> c]
Extended(t) == [is |-> "extended", value |-> t]
Unit(m, i) == [is |-> "unit", of |-> m.value, at |-> i]

\* The 24-bit time, and what each format states beside it.
Fields(fmt, s, t) ==
  [is |-> "fields",
   time |-> IF t >= EXTENDED_TIMESTAMP THEN EXTENDED_TIMESTAMP ELSE t,
   length |-> IF fmt <= 1 THEN s.length ELSE None,
   kind |-> IF fmt <= 1 THEN s.kind ELSE None,
   stream |-> IF fmt = 0 THEN s.stream ELSE None]

Payload(m, from, n) == [i \in 1..n |-> Unit(m, from + i)]

Min(a, b) == IF a <= b THEN a ELSE b

TypeOK ==
  /\ who \in {"encoder", "writer"}
  /\ written \in [AllCsids -> States \union {None}]
  /\ unsent \in [AllCsids -> Nat]
  /\ size \in Sizes /\ begun \in 0..MaxMessages
  /\ wire \in Seq(Parts) /\ Len(wire) <= MaxWire
  /\ arrived \in 0..Len(wire)
  /\ streams \in [AllCsids -> Streams \union {None}]
  /\ chunk_size \in Sizes
  /\ status \in {"reading", "refused", "astray"}
  /\ expected \in Seq(Messages)
  /\ right \in BOOLEAN /\ omitted \in BOOLEAN

Init ==
  /\ who \in {"encoder", "writer"}
  /\ written = [c \in AllCsids |-> None]
  /\ unsent = [c \in AllCsids |-> 0]
  /\ size = DEFAULT_CHUNK_SIZE /\ begun = 0
  /\ wire = <<>> /\ arrived = 0
  /\ streams = [c \in AllCsids |-> None]
  /\ chunk_size = DEFAULT_CHUNK_SIZE
  /\ status = "reading"
  /\ expected = <<>> /\ right = TRUE /\ omitted = FALSE

(***************************************************************************)
(* Headers                                                                 *)
(***************************************************************************)

WrappingAdd(a, b) == (a + b) % W

Delta(p, m) == (m.timestamp - p.timestamp) % W

\* The formats in which a header for m may follow p on its chunk stream.
Formats(p, m) ==
  {0} \union
  (IF p = None \/ p.stream # m.stream THEN {}
   ELSE {1} \union (IF p.length # m.length \/ p.kind # m.kind THEN {}
                    ELSE {2} \union (IF p.delta = Delta(p, m) THEN {3} ELSE {})))

\* The format Writer::write picks, which counts no time backwards.
Format(p, m) ==
  IF p = None \/ p.stream # m.stream \/ m.timestamp < p.timestamp THEN 0
  ELSE IF p.length # m.length \/ p.kind # m.kind THEN 1
  ELSE IF p.delta # Delta(p, m) THEN 2 ELSE 3

\* What the header of m says about time, and what the chunk stream carries
\* forward, given whether that went in the extended timestamp.
Time(fmt, p, m) == IF fmt = 0 THEN m.timestamp ELSE Delta(p, m)

Carried(fmt, p, m, extended) ==
  [timestamp |-> m.timestamp, delta |-> IF fmt = 0 THEN 0 ELSE Delta(p, m),
   length |-> m.length, kind |-> m.kind, stream |-> m.stream, extended |-> extended]

Header(fmt, c, s, t) ==
  <<Basic(fmt, c)>>
    \o (IF fmt <= 2 THEN <<Fields(fmt, s, t)>> ELSE <<>>)
    \o (IF s.extended THEN <<Extended(t)>> ELSE <<>>)

\* A chunk of m that begins after the first `from` of its units.
Chunk(c, header, m, from) == header \o Payload(m, from, Min(m.length - from, size))

(***************************************************************************)
(* The encoder                                                             *)
(***************************************************************************)

Put(parts) ==
  /\ status = "reading"
  /\ Len(wire) + Len(parts) <= MaxWire
  /\ wire' = wire \o parts
  /\ UNCHANGED <<who, arrived, streams, chunk_size, status, right>>

\* One more message is begun.
Begins == begun < MaxMessages /\ begun' = begun + 1

\* Message m has `left` of its units to go.
Leaves(c, m, left) ==
  /\ unsent' = [unsent EXCEPT ![c] = left]
  /\ expected' = IF left = 0 THEN Append(expected, m) ELSE expected

\* The first chunk of a message.  A format 3 header repeats the extended
\* timestamp of the header it repeats.
Begin(c, m, fmt) ==
  LET p == written[c]
      t == Time(fmt, p, m)
      s == Carried(fmt, p, m, IF fmt = 3 THEN p.extended ELSE t >= EXTENDED_TIMESTAMP)
  IN /\ unsent[c] = 0 /\ Begins
     /\ fmt \in Formats(p, m)
     /\ Put(Chunk(c, Header(fmt, c, s, t), m, 0))
     /\ written' = [written EXCEPT ![c] = s]
     /\ Leaves(c, m, m.length - Min(m.length, size))

Media(c, m, fmt) ==
  /\ who = "encoder"
  /\ Begin(c, m, fmt)
  /\ UNCHANGED <<size, omitted>>

\* More of the message that a chunk stream is in the middle of.
Continue(c) ==
  /\ who = "encoder"
  /\ unsent[c] > 0
  /\ LET s == written[c]
         m == [timestamp |-> s.timestamp, length |-> s.length, kind |-> s.kind,
               stream |-> s.stream, value |-> c]
         from == m.length - unsent[c]
     IN /\ Put(Chunk(c, Header(3, c, s, s.timestamp), m, from))
        /\ Leaves(c, m, unsent[c] - Min(unsent[c], size))
  /\ UNCHANGED <<written, size, begun, omitted>>

\* SetChunkSize: the chunks after it are of the new size, also of messages
\* that were begun before it.
Resize(m, fmt) ==
  /\ who = "encoder"
  /\ Begin(CONTROL, m, fmt)
  /\ size' = m.value
  /\ UNCHANGED omitted

\* Abort: the rest of a message is never sent.
AbortMessage(m, fmt) ==
  /\ who = "encoder"
  /\ unsent[m.value] > 0 /\ Begins
  /\ fmt \in Formats(written[CONTROL], m)
  /\ LET p == written[CONTROL]
         t == Time(fmt, p, m)
         s == Carried(fmt, p, m, IF fmt = 3 THEN p.extended ELSE t >= EXTENDED_TIMESTAMP)
     IN /\ Put(Chunk(CONTROL, Header(fmt, CONTROL, s, t), m, 0))
        /\ written' = [written EXCEPT ![CONTROL] = s]
  /\ unsent' = [unsent EXCEPT ![m.value] = 0]
  /\ expected' = Append(expected, m)
  /\ UNCHANGED <<size, omitted>>

(***************************************************************************)
(* Writer                                                                  *)
(***************************************************************************)

\* Every chunk of m, the first of which has the header.
Chunks(c, header, more, m) ==
  LET last == (m.length - 1) \div size
      f[i \in 0..last] ==
        (IF i = 0 THEN <<>> ELSE f[i - 1])
          \o Chunk(c, IF i = 0 THEN header ELSE more, m, i * size)
  IN IF m.length = 0 THEN header ELSE f[last]

\* Writer::write.  The header and its continuations have an extended
\* timestamp if what the header says about time does not fit.
Write(c, m) ==
  LET p == written[c]
      fmt == Format(p, m)
      t == Time(fmt, p, m)
      s == Carried(fmt, p, m, t >= EXTENDED_TIMESTAMP)
  IN /\ who = "writer" /\ Begins
     /\ Put(Chunks(c, Header(fmt, c, s, t), Header(3, c, s, t), m))
     /\ written' = [written EXCEPT ![c] = s]
     /\ expected' = Append(expected, m)
     /\ omitted' = (omitted \/ (fmt = 3 /\ p.extended /\ ~s.extended))
     /\ UNCHANGED unsent

\* A message of media.
WriteMessage(c, m) == Write(c, m) /\ UNCHANGED size

\* SetChunkSize, and then Writer::set_chunk_size.
WriteResize(m) == Write(CONTROL, m) /\ size' = m.value

(***************************************************************************)
(* Reader                                                                  *)
(***************************************************************************)

\* One more part; a read of several is several of these.
Arrive ==
  /\ status = "reading"
  /\ arrived < Len(wire)
  /\ arrived' = arrived + 1
  /\ UNCHANGED <<writer, wire, streams, chunk_size, status, expected, right, omitted>>

Ends(how) ==
  /\ status' = how
  /\ UNCHANGED <<writer, wire, arrived, streams, chunk_size, expected, right, omitted>>

\* The bytes of a part that is not a basic header, taken for one.
Astray ==
  /\ status = "reading" /\ arrived > 0
  /\ wire[1].is # "basic"
  /\ Ends("astray")

Pending(c) == IF streams[c] = None THEN 0 ELSE Len(streams[c].payload)

\* NothingToInherit, TooManyChunkStreams, Interleaved.
Refuses(fmt, c) ==
  \/ streams[c] = None /\ fmt # 0
  \/ streams[c] = None /\ Cardinality({d \in AllCsids : streams[d] # None}) >= MAX_CHUNK_STREAMS
  \/ fmt # 3 /\ Pending(c) > 0

\* Mutant: a format 3 chunk is taken for more of the same message, always.
StateOfSame(fmt, c, fields, t, extended) == streams[c].state

\* A format 3 chunk continues a message, or begins one a delta after the last.
StateOfContinued(fmt, c, fields, t, extended) ==
  LET p == streams[c].state
  IN IF Pending(c) > 0 THEN p ELSE [p EXCEPT !.timestamp = WrappingAdd(@, p.delta)]

\* What the header of a chunk makes of what its chunk stream carries forward.
StateOf(fmt, c, fields, t, extended) ==
  IF fmt = 0 THEN
    [timestamp |-> t, delta |-> 0, length |-> fields.length, kind |-> fields.kind,
     stream |-> fields.stream, extended |-> extended]
  ELSE IF fmt = 3 THEN StateOfContinued(fmt, c, fields, t, extended)
  ELSE LET p == streams[c].state
       IN [timestamp |-> WrappingAdd(p.timestamp, t), delta |-> t,
           length |-> IF fmt = 1 THEN fields.length ELSE p.length,
           kind |-> IF fmt = 1 THEN fields.kind ELSE p.kind,
           stream |-> p.stream, extended |-> extended]

\* Mutant: the length of a chunk is not cut to what is left of its message.
WantedInFull(s, have) == Min(s.length, chunk_size)

\* How much of the payload this chunk has.
Wanted(s, have) == Min(s.length - have, chunk_size)

\* Mutant: an aborted message is kept.
KeepsAborted(read, kind, payload) == read

\* Reader::apply of an Abort.
AfterAbort(read, kind, payload) ==
  IF kind = "abort" /\ read[payload[1].of] # None
  THEN [read EXCEPT ![payload[1].of].payload = <<>>] ELSE read

\* The chunk whose header ends at `pos`, if all of it has arrived.
TakeChunk(c, s, pos) ==
  LET have == Pending(c)
      wanted == Wanted(s, have)
      payload == (IF streams[c] = None THEN <<>> ELSE streams[c].payload)
                   \o SubSeq(wire, pos + 1, pos + wanted)
      complete == Len(payload) = s.length
      first == Head(expected)
  IN /\ arrived >= pos + wanted
     /\ wire' = SubSeq(wire, pos + wanted + 1, Len(wire))
     /\ arrived' = arrived - pos - wanted
     /\ IF complete
        THEN /\ streams' = AfterAbort([streams EXCEPT ![c] = [state |-> s, payload |-> <<>>]],
                                      s.kind, payload)
             /\ chunk_size' = IF s.kind = "size" THEN payload[1].of ELSE chunk_size
             /\ right' = /\ right
                         /\ expected # <<>>
                         /\ [timestamp |-> s.timestamp, length |-> s.length, kind |-> s.kind,
                             stream |-> s.stream, value |-> first.value] = first
                         /\ payload = Payload(first, 0, first.length)
             /\ expected' = IF expected = <<>> THEN <<>> ELSE Tail(expected)
        ELSE /\ streams' = [streams EXCEPT ![c] = [state |-> s, payload |-> payload]]
             /\ UNCHANGED <<chunk_size, right, expected>>

\* Reader::read_chunk: nothing is taken until the whole chunk is there.
ReadChunk ==
  /\ status = "reading" /\ arrived > 0
  /\ wire[1].is = "basic"
  /\ LET fmt == wire[1].fmt
         c == wire[1].csid
         fields == wire[2]
         extended == IF fmt = 3 THEN streams[c].state.extended
                     ELSE fields.time = EXTENDED_TIMESTAMP
         header == IF fmt = 3 THEN 1 ELSE 2
         pos == IF extended THEN header + 1 ELSE header
         t == IF fmt = 3 THEN 0 ELSE IF extended THEN wire[pos].value ELSE fields.time
         s == StateOf(fmt, c, fields, t, extended)
     IN IF Refuses(fmt, c) THEN Ends("refused")
        ELSE /\ arrived >= header /\ arrived >= pos
             /\ IF s.length > MAX_ASSEMBLED_LENGTH THEN Ends("refused")
                ELSE TakeChunk(c, s, pos) /\ UNCHANGED <<writer, status, omitted>>

Read == Astray \/ ReadChunk

Next ==
  \/ \E c \in Csids : \E m \in MediaOn(c) :
       WriteMessage(c, m) \/ \E fmt \in 0..3 : Media(c, m, fmt)
  \/ \E c \in Csids : Continue(c)
  \/ \E m \in Resizes : WriteResize(m) \/ \E fmt \in 0..3 : Resize(m, fmt)
  \/ \E m \in Aborts, fmt \in 0..3 : AbortMessage(m, fmt)
  \/ Arrive
  \/ Read

Spec == Init /\ [][Next]_vars

(***************************************************************************)
(* Properties                                                              *)
(***************************************************************************)

\* Whatever the encoder leaves out of its headers, however it interleaves,
\* aborts and resizes, and in whatever pieces its bytes arrive, the messages
\* read are those that were written, in the order they were completed, and
\* none is refused; and so it is with what Writer writes, unless it left out
\* an extended timestamp.
ReadsWhatWasWritten == omitted \/ (status = "reading" /\ right)

\* A reader that waits for more although everything has arrived has read
\* every message that was completed, and nothing is left over.
NothingIsHeldBack ==
  status = "reading" /\ ~omitted /\ arrived = Len(wire) /\ ~ENABLED Read
    => wire = <<>> /\ expected = <<>>

\* Whenever everything was read, both sides carry the same forward on every
\* chunk stream, have the same of its message still to come, and agree on the
\* size of the next chunk: there is no drift to show up later.
SidesAgree ==
  wire = <<>> /\ ~omitted =>
    /\ chunk_size = size
    /\ \A c \in AllCsids :
         /\ streams[c] = None <=> written[c] = None
         /\ written[c] # None =>
              /\ streams[c].state = written[c]
              /\ Pending(c) = IF unsent[c] = 0 THEN 0 ELSE written[c].length - unsent[c]

\* "which is the property that matters: what one side leaves out, the other
\* has to put back" (chunk.rs, round_trip): relaybay reads what it wrote.
ReadsItsOwn == status = "reading" /\ right
=============================================================================
