------------------------- MODULE ChunkStreamProofs -------------------------
(***************************************************************************)
(* That the Reader of ChunkStream reads what was written, proved for any   *)
(* chunk streams, shapes of messages, chunk sizes and width of timestamps. *)
(*                                                                         *)
(* The invariant looks ahead: if the Reader were to read all that is on    *)
(* the wire, chunk by chunk, every chunk of it would be whole and right    *)
(* (GoodChunk), and in the end the Reader would carry forward what the     *)
(* other side does (Mine).  A chunk that is read is the first step on that *)
(* way, and one that is written is put at its end, where it meets a Reader *)
(* in step with its writer.                                                *)
(***************************************************************************)
EXTENDS ChunkStream, TLAPS, FiniteSetTheorems, SequenceTheorems

(***************************************************************************)
(* What reading one chunk comes to                                         *)
(***************************************************************************)

\* A Reader, and the messages that it is to complete.
Sides == [streams : [AllCsids -> Streams \union {None}], chunk_size : Sizes,
          expected : Seq(Messages)]
Now == [streams |-> streams, chunk_size |-> chunk_size, expected |-> expected]

\* Pending's payload, and StateOf, for a Reader u.
Have(u, c) == IF u.streams[c] = None THEN <<>> ELSE u.streams[c].payload

StateFrom(u, fmt, c, fields, t, extended) ==
  IF fmt = 0 THEN
    [timestamp |-> t, delta |-> 0, length |-> fields.length, kind |-> fields.kind,
     stream |-> fields.stream, extended |-> extended]
  ELSE LET p == u.streams[c].state
       IN IF fmt = 3 THEN
            IF Len(Have(u, c)) > 0 THEN p
            ELSE [p EXCEPT !.timestamp = WrappingAdd(@, p.delta)]
          ELSE [timestamp |-> WrappingAdd(p.timestamp, t), delta |-> t,
                length |-> IF fmt = 1 THEN fields.length ELSE p.length,
                kind |-> IF fmt = 1 THEN fields.kind ELSE p.kind,
                stream |-> p.stream, extended |-> extended]

RefusedBy(u, fmt, c) ==
  \/ u.streams[c] = None /\ fmt # 0
  \/ u.streams[c] = None
     /\ Cardinality({d \in AllCsids : u.streams[d] # None}) >= MAX_CHUNK_STREAMS
  \/ fmt # 3 /\ Len(Have(u, c)) > 0

\* The header of the first chunk of wire w, as Reader u takes it.
HasExtended(w, u) ==
  IF w[1].fmt = 3 THEN u.streams[w[1].csid].state.extended
  ELSE w[2].time = EXTENDED_TIMESTAMP
FieldsEnd(w) == IF w[1].fmt = 3 THEN 1 ELSE 2
HeaderEnd(w, u) == IF HasExtended(w, u) THEN FieldsEnd(w) + 1 ELSE FieldsEnd(w)
TimeIn(w, u) ==
  IF w[1].fmt = 3 THEN 0
  ELSE IF HasExtended(w, u) THEN w[HeaderEnd(w, u)].value ELSE w[2].time
StateIn(w, u) ==
  StateFrom(u, w[1].fmt, w[1].csid, w[2], TimeIn(w, u), HasExtended(w, u))

\* Where the chunk ends, and the payload with what the chunk has of it.
Needs(w, u) == Min(StateIn(w, u).length - Len(Have(u, w[1].csid)), u.chunk_size)
ChunkEnd(w, u) == HeaderEnd(w, u) + Needs(w, u)
PayloadIn(w, u) ==
  Have(u, w[1].csid) \o SubSeq(w, HeaderEnd(w, u) + 1, ChunkEnd(w, u))
Completes(w, u) == Len(PayloadIn(w, u)) = StateIn(w, u).length

\* The Reader after the chunk.
ReaderAfter(w, u) ==
  IF Completes(w, u)
  THEN [streams |-> AfterAbort([u.streams EXCEPT ![w[1].csid] =
                                  [state |-> StateIn(w, u), payload |-> <<>>]],
                               StateIn(w, u).kind, PayloadIn(w, u)),
        chunk_size |-> IF StateIn(w, u).kind = "size" THEN PayloadIn(w, u)[1].of
                       ELSE u.chunk_size,
        expected |-> Tail(u.expected)]
  ELSE [streams |-> [u.streams EXCEPT ![w[1].csid] =
                       [state |-> StateIn(w, u), payload |-> PayloadIn(w, u)]],
        chunk_size |-> u.chunk_size, expected |-> u.expected]

\* State s is that of message m.
Tells(s, m) ==
  [timestamp |-> s.timestamp, length |-> s.length, kind |-> s.kind,
   stream |-> s.stream, value |-> m.value] = m

\* The first chunk of w is all there, is not refused, and if it completes a
\* message that is the one to come.
GoodChunk(w, u) ==
  /\ w \in Seq(Parts) /\ u \in Sides /\ w # <<>>
  /\ w[1].is = "basic" /\ w[1].fmt \in 0..3 /\ w[1].csid \in AllCsids
  /\ HasExtended(w, u) \in BOOLEAN
  /\ ~RefusedBy(u, w[1].fmt, w[1].csid)
  /\ StateIn(w, u).length \in 0..MAX_ASSEMBLED_LENGTH
  /\ Needs(w, u) \in Nat /\ ChunkEnd(w, u) <= Len(w)
  /\ Completes(w, u) =>
       /\ u.expected # <<>>
       /\ Tells(StateIn(w, u), Head(u.expected))
       /\ PayloadIn(w, u) = Payload(Head(u.expected), 0, Head(u.expected).length)
  /\ ReaderAfter(w, u) \in Sides

\* What is on the wire after it.
WireAfter(w, u) == SubSeq(w, ChunkEnd(w, u) + 1, Len(w))

(***************************************************************************)
(* Reading on                                                              *)
(***************************************************************************)

\* One good chunk after the other leads Reader u from wire w to Reader z with
\* wire v: whatever has the first and is closed under reading has the second.
Closed(R) ==
  \A q \in R : GoodChunk(q[1], q[2])
                 => <<WireAfter(q[1], q[2]), ReaderAfter(q[1], q[2])>> \in R
LeadsTo(w, u, v, z) == \A R : <<w, u>> \in R /\ Closed(R) => <<v, z>> \in R

\* A chunk that is good has nothing after its end but the wire.
LEMMA WireAfterIs ==
  ASSUME NEW w, NEW u, GoodChunk(w, u)
  PROVE  /\ WireAfter(w, u) \in Seq(Parts)
         /\ HeaderEnd(w, u) \in Nat \ {0} /\ ChunkEnd(w, u) \in 1..Len(w)
         /\ FieldsEnd(w) \in 1..HeaderEnd(w, u) /\ FieldsEnd(w) <= Len(w)
         /\ HeaderEnd(w, u) <= Len(w)
         /\ w[1].fmt # 3 => FieldsEnd(w) = 2
<1>1. w \in Seq(Parts) /\ Needs(w, u) \in Nat /\ ChunkEnd(w, u) <= Len(w)
  BY DEF GoodChunk
<1>2. FieldsEnd(w) \in 1..2 /\ HeaderEnd(w, u) \in {FieldsEnd(w), FieldsEnd(w) + 1}
  BY DEF FieldsEnd, HeaderEnd
<1>3. ChunkEnd(w, u) = HeaderEnd(w, u) + Needs(w, u)
  BY DEF ChunkEnd
<1>4. ChunkEnd(w, u) \in 1..Len(w) /\ HeaderEnd(w, u) \in 1..ChunkEnd(w, u)
  BY <1>1, <1>2, <1>3
<1>5. SubSeq(w, ChunkEnd(w, u) + 1, Len(w)) \in Seq(Parts)
  BY <1>1, <1>4
<1> QED
  BY <1>1, <1>2, <1>4, <1>5 DEF WireAfter, FieldsEnd

\* Reading nothing leads nowhere else.
LEMMA LeadsNowhere == \A w, u : LeadsTo(w, u, w, u)
  BY DEF LeadsTo

\* Reading on from where reading led.
LEMMA LeadsOn ==
  ASSUME NEW w, NEW u, NEW v, NEW z, NEW x, NEW y, LeadsTo(w, u, v, z), LeadsTo(v, z, x, y)
  PROVE  LeadsTo(w, u, x, y)
  BY DEF LeadsTo

\* One chunk that is good is read.
LEMMA LeadsOver ==
  ASSUME NEW w, NEW u, GoodChunk(w, u)
  PROVE  LeadsTo(w, u, WireAfter(w, u), ReaderAfter(w, u))
<1> SUFFICES ASSUME NEW R, <<w, u>> \in R, Closed(R)
             PROVE  <<WireAfter(w, u), ReaderAfter(w, u)>> \in R
  BY DEF LeadsTo
<1> DEFINE q == <<w, u>>
<1>1. q \in R /\ q[1] = w /\ q[2] = u
  OBVIOUS
<1> HIDE DEF q
<1> QED
  BY <1>1 DEF Closed

\* Where reading leads anywhere, the first chunk is good, and what it leaves
\* leads there too.
LEMMA LeadsRest ==
  ASSUME NEW w, NEW u, NEW v, NEW z, LeadsTo(w, u, v, z), <<w, u>> # <<v, z>>
  PROVE  /\ GoodChunk(w, u)
         /\ LeadsTo(WireAfter(w, u), ReaderAfter(w, u), v, z)
<1>1. ASSUME ~GoodChunk(w, u)  PROVE FALSE
  <2> DEFINE R == {<<w, u>>}
  <2>1. Closed(R)
    <3> SUFFICES ASSUME NEW q \in R, GoodChunk(q[1], q[2])  PROVE FALSE
      BY DEF Closed
    <3>1. q[1] = w /\ q[2] = u
      OBVIOUS
    <3> QED
      BY <1>1, <3>1
  <2>2. <<w, u>> \in R /\ <<v, z>> \notin R
    OBVIOUS
  <2> HIDE DEF R
  <2> QED
    BY <2>1, <2>2 DEF LeadsTo
<1>2. GoodChunk(w, u)
  BY <1>1
<1>3. ASSUME NEW R, <<WireAfter(w, u), ReaderAfter(w, u)>> \in R, Closed(R)
      PROVE  <<v, z>> \in R
  <2> DEFINE Q == R \union {<<w, u>>}
  <2>1. Closed(Q)
    <3> SUFFICES ASSUME NEW q \in Q, GoodChunk(q[1], q[2])
                 PROVE  <<WireAfter(q[1], q[2]), ReaderAfter(q[1], q[2])>> \in Q
      BY DEF Closed
    <3>1. CASE q \in R
      BY <1>3, <3>1 DEF Closed
    <3>2. CASE q = <<w, u>>
      <4>1. q[1] = w /\ q[2] = u
        BY <3>2
      <4> QED
        BY <1>3, <4>1
    <3> QED
      BY <3>1, <3>2
  <2>2. <<w, u>> \in Q
    OBVIOUS
  <2>3. <<v, z>> \in Q
    <3> HIDE DEF Q
    <3> QED
      BY <2>1, <2>2 DEF LeadsTo
  <2> QED
    BY <2>3
<1>4. LeadsTo(WireAfter(w, u), ReaderAfter(w, u), v, z)
  BY <1>3 DEF LeadsTo
<1> QED
  BY <1>2, <1>4

\* Reader u, with messages e to come after those it expects.
More(u, e) == [streams |-> u.streams, chunk_size |-> u.chunk_size, expected |-> u.expected \o e]

ReadAlike(w, u, x, y) ==
  /\ StateIn(x, y) = StateIn(w, u)
  /\ HasExtended(x, y) = HasExtended(w, u)
  /\ Needs(x, y) = Needs(w, u)
  /\ HeaderEnd(x, y) = HeaderEnd(w, u)
  /\ ChunkEnd(x, y) = ChunkEnd(w, u)
  /\ PayloadIn(x, y) = PayloadIn(w, u)
  /\ Completes(x, y) = Completes(w, u)

\* What comes later on the wire does not change what a whole chunk says.
LEMMA ChunkIsRead ==
  ASSUME NEW w, NEW u, GoodChunk(w, u), NEW p \in Seq(Parts), NEW e \in Seq(Messages)
  PROVE  ReadAlike(w, u, w \o p, More(u, e))
<1> DEFINE x == w \o p
           y == More(u, e)
<1>1. w \in Seq(Parts) /\ w # <<>> /\ Needs(w, u) \in Nat
  BY DEF GoodChunk
<1>2. Len(x) = Len(w) + Len(p) /\ \A i \in 1..Len(w) : x[i] = w[i]
  BY <1>1
<1>3. y.streams = u.streams /\ y.chunk_size = u.chunk_size
  BY DEF More
<1> HIDE DEF x, y
<1>4. x[1] = w[1]
  BY <1>1, <1>2
<1>5. w[1].fmt # 3 => x[2] = w[2]
  <2>1. w[1].fmt # 3 => 2 \in 1..Len(w)
    BY WireAfterIs
  <2> QED
    BY <1>2, <2>1
<1>6. \A c : Have(y, c) = Have(u, c)
  BY <1>3 DEF Have
<1>7. HasExtended(x, y) = HasExtended(w, u)
  BY <1>3, <1>4, <1>5, Zenon DEF HasExtended
<1>8. HeaderEnd(x, y) = HeaderEnd(w, u) /\ FieldsEnd(x) = FieldsEnd(w)
  BY <1>4, <1>7, Zenon DEF HeaderEnd, FieldsEnd
<1>9. x[HeaderEnd(x, y)] = w[HeaderEnd(w, u)]
  <2>1. HeaderEnd(w, u) \in 1..Len(w)
    BY WireAfterIs
  <2> QED
    BY <1>2, <1>8, <2>1
<1>10. TimeIn(x, y) = TimeIn(w, u)
  BY <1>4, <1>5, <1>7, <1>8, <1>9, Zenon DEF TimeIn
<1>11. StateIn(x, y) = StateIn(w, u)
  <2>1. CASE w[1].fmt = 3
    <3>1. w[1].fmt # 0
      BY <2>1
    <3> QED
      BY <1>3, <1>4, <1>6, <2>1, <3>1, Zenon DEF StateIn, StateFrom
  <2>2. CASE w[1].fmt # 3
    BY <1>3, <1>4, <1>5, <1>6, <1>7, <1>10, <2>2, Zenon DEF StateIn, StateFrom
  <2> QED
    BY <2>1, <2>2
<1>12. Needs(x, y) = Needs(w, u)
  BY <1>3, <1>4, <1>6, <1>11, Zenon DEF Needs
<1>13. ChunkEnd(x, y) = ChunkEnd(w, u)
  BY <1>8, <1>12, Zenon DEF ChunkEnd
<1>14. SubSeq(x, HeaderEnd(w, u) + 1, ChunkEnd(w, u))
         = SubSeq(w, HeaderEnd(w, u) + 1, ChunkEnd(w, u))
  <2>1. HeaderEnd(w, u) \in Nat \ {0} /\ ChunkEnd(w, u) \in 1..Len(w)
    BY WireAfterIs
  <2> QED
    BY <1>1, <1>2, <2>1 DEF x
<1>15. PayloadIn(x, y) = PayloadIn(w, u)
  BY <1>4, <1>6, <1>8, <1>13, <1>14, Zenon DEF PayloadIn
<1>16. Completes(x, y) = Completes(w, u)
  BY <1>11, <1>15, Zenon DEF Completes
<1>17. ReadAlike(w, u, x, y)
  BY <1>7, <1>8, <1>11, <1>12, <1>13, <1>15, <1>16 DEF ReadAlike
<1> QED
  BY <1>17 DEF x, y

\* Nor does it change what the Reader makes of it.
ReadLater(w, u, p, e) ==
  /\ GoodChunk(w \o p, More(u, e))
  /\ WireAfter(w \o p, More(u, e)) = WireAfter(w, u) \o p
  /\ ReaderAfter(w \o p, More(u, e)) = More(ReaderAfter(w, u), e)

\* A chunk that is good stays so, and comes to the same, with more behind it.
LEMMA ReadsLater ==
  ASSUME NEW w, NEW u, GoodChunk(w, u), NEW p \in Seq(Parts), NEW e \in Seq(Messages)
  PROVE  ReadLater(w, u, p, e)
<1> DEFINE x == w \o p
           y == More(u, e)
<1>1. w \in Seq(Parts) /\ w # <<>> /\ u \in Sides
  BY DEF GoodChunk
<1>2. ReadAlike(w, u, x, y)
  BY ChunkIsRead
<1>3. x \in Seq(Parts) /\ x # <<>> /\ x[1] = w[1] /\ Len(x) = Len(w) + Len(p)
  BY <1>1
<1>4. y.streams = u.streams /\ y.chunk_size = u.chunk_size /\ y.expected = u.expected \o e
  BY DEF More
<1>5. u.expected \in Seq(Messages) /\ u.streams \in [AllCsids -> Streams \union {None}]
      /\ u.chunk_size \in Sizes
  BY <1>1 DEF Sides
<1>6. y \in Sides
  <2>1. u.expected \o e \in Seq(Messages)
    BY <1>5
  <2> QED
    BY <1>5, <2>1 DEF Sides, More
<1>7. u.expected # <<>> => y.expected # <<>> /\ Head(y.expected) = Head(u.expected)
                           /\ Tail(y.expected) = Tail(u.expected) \o e
  <2> SUFFICES ASSUME u.expected # <<>>
               PROVE  y.expected # <<>> /\ Head(y.expected) = Head(u.expected)
                      /\ Tail(y.expected) = Tail(u.expected) \o e
    OBVIOUS
  <2> DEFINE q == u.expected
  <2>1. q \in Seq(Messages) /\ q # <<>> /\ Len(q) \in Nat \ {0}
    BY <1>5
  <2> HIDE DEF q
  <2>2. q \o e # <<>> /\ Head(q \o e) = Head(q)
    BY <2>1
  <2>3. Tail(q \o e) = Tail(q) \o e
    <3>1. Tail(q \o e) \in Seq(Messages) /\ Tail(q) \o e \in Seq(Messages)
          /\ Len(Tail(q \o e)) = Len(Tail(q) \o e)
      BY <2>1
    <3>2. \A i \in 1..Len(Tail(q \o e)) : Tail(q \o e)[i] = (Tail(q) \o e)[i]
      BY <2>1
    <3> QED
      BY <3>1, <3>2, SeqEqual
  <2> QED
    BY <1>4, <2>2, <2>3 DEF q
<1> HIDE DEF x, y
<1>8. \A c : Have(y, c) = Have(u, c)
  BY <1>4 DEF Have
<1>9. RefusedBy(y, x[1].fmt, x[1].csid) = RefusedBy(u, w[1].fmt, w[1].csid)
  BY <1>3, <1>4, <1>8, Zenon DEF RefusedBy
<1>10. ReaderAfter(x, y) = More(ReaderAfter(w, u), e)
  <2>1. CASE Completes(w, u)
    <3>1. Tail(y.expected) = Tail(u.expected) \o e
      BY <1>7, <2>1 DEF GoodChunk
    <3> QED
      BY <1>2, <1>3, <1>4, <2>1, <3>1 DEF ReaderAfter, More, ReadAlike
  <2>2. CASE ~Completes(w, u)
    BY <1>2, <1>3, <1>4, <2>2 DEF ReaderAfter, More, ReadAlike
  <2> QED
    BY <2>1, <2>2
<1>11. More(ReaderAfter(w, u), e) \in Sides
  <2>1. ReaderAfter(w, u) \in Sides
    BY DEF GoodChunk
  <2> DEFINE z == ReaderAfter(w, u)
  <2> HIDE DEF z
  <2>2. z.expected \o e \in Seq(Messages)
    BY <2>1 DEF Sides, z
  <2>3. More(z, e) \in Sides
    BY <2>1, <2>2 DEF Sides, More, z
  <2> QED
    BY <2>3 DEF z
<1>12. GoodChunk(x, y)
  <2>1. ChunkEnd(w, u) <= Len(x)
    BY <1>1, <1>3, WireAfterIs
  <2>2. Completes(x, y) =>
          /\ y.expected # <<>>
          /\ Tells(StateIn(x, y), Head(y.expected))
          /\ PayloadIn(x, y) = Payload(Head(y.expected), 0, Head(y.expected).length)
    BY <1>2, <1>7 DEF GoodChunk, ReadAlike
  <2> QED
    BY <1>2, <1>3, <1>6, <1>9, <1>10, <1>11, <2>1, <2>2 DEF GoodChunk, ReadAlike
<1>13. WireAfter(x, y) = WireAfter(w, u) \o p
  <2> DEFINE k == ChunkEnd(w, u)
  <2>1. k \in 1..Len(w)
    BY WireAfterIs
  <2> HIDE DEF k
  <2>2. SubSeq(x, k + 1, Len(x)) = SubSeq(w, k + 1, Len(w)) \o p
    <3>1. /\ SubSeq(x, k + 1, Len(x)) \in Seq(Parts)
          /\ SubSeq(w, k + 1, Len(w)) \o p \in Seq(Parts)
          /\ Len(SubSeq(x, k + 1, Len(x))) = Len(SubSeq(w, k + 1, Len(w)) \o p)
      BY <1>1, <1>3, <2>1
    <3>2. \A i \in 1..Len(SubSeq(x, k + 1, Len(x))) :
            SubSeq(x, k + 1, Len(x))[i] = (SubSeq(w, k + 1, Len(w)) \o p)[i]
      BY <1>1, <1>3, <2>1 DEF x
    <3> QED
      BY <3>1, <3>2, SeqEqual
  <2> QED
    BY <1>2, <2>2 DEF WireAfter, ReadAlike, k
<1> QED
  BY <1>10, <1>12, <1>13 DEF ReadLater, x, y

\* So whatever is put on the wire, and whatever is to come after, reading
\* leads where it led.
LEMMA LeadsLater ==
  ASSUME NEW w, NEW u, NEW v, NEW z, LeadsTo(w, u, v, z),
         NEW p \in Seq(Parts), NEW e \in Seq(Messages)
  PROVE  LeadsTo(w \o p, More(u, e), v \o p, More(z, e))
<1> SUFFICES ASSUME NEW R, <<w \o p, More(u, e)>> \in R, Closed(R)
             PROVE  <<v \o p, More(z, e)>> \in R
  BY DEF LeadsTo
<1>1. CASE <<w, u>> = <<v, z>>
  BY <1>1
<1>2. CASE <<w, u>> # <<v, z>>
  <2> DEFINE U == {<<w, u>>, <<v, z>>} \union (Seq(Parts) \X Sides)
             Q == {q \in U : <<q[1] \o p, More(q[2], e)>> \in R}
  <2>1. Closed(Q)
    <3> SUFFICES ASSUME NEW q \in Q, GoodChunk(q[1], q[2])
                 PROVE  <<WireAfter(q[1], q[2]), ReaderAfter(q[1], q[2])>> \in Q
      BY DEF Closed
    <3> DEFINE a == q[1]
               b == q[2]
    <3>1. ReadLater(a, b, p, e)
      BY ReadsLater
    <3>2. <<a \o p, More(b, e)>> \in R
      OBVIOUS
    <3>3. <<WireAfter(a \o p, More(b, e)), ReaderAfter(a \o p, More(b, e))>> \in R
      <4> DEFINE r == <<a \o p, More(b, e)>>
      <4>1. r \in R /\ r[1] = a \o p /\ r[2] = More(b, e)
        BY <3>2
      <4>2. GoodChunk(r[1], r[2])
        BY <3>1, <4>1, Zenon DEF ReadLater
      <4> HIDE DEF r, a, b
      <4>3. <<WireAfter(r[1], r[2]), ReaderAfter(r[1], r[2])>> \in R
        BY <4>1, <4>2, Zenon DEF Closed
      <4> QED
        BY <4>1, <4>3, Zenon
    <3>4. <<WireAfter(a, b) \o p, More(ReaderAfter(a, b), e)>> \in R
      BY <3>1, <3>3, Zenon DEF ReadLater
    <3>5. WireAfter(a, b) \in Seq(Parts) /\ ReaderAfter(a, b) \in Sides
      BY WireAfterIs DEF GoodChunk
    <3> QED
      BY <3>4, <3>5
  <2>2. <<w, u>> \in Q
    OBVIOUS
  <2>3. <<v, z>> \in Q
    <3> HIDE DEF Q
    <3> QED
      BY <2>1, <2>2 DEF LeadsTo
  <2> QED
    BY <2>3
<1> QED
  BY <1>1, <1>2

(***************************************************************************)
(* A chunk as it is written, read by a Reader in step                      *)
(***************************************************************************)

\* What the messages are.
MessageTyped(m) ==
  /\ m.timestamp \in Timestamps /\ m.length \in 0..MAX_ASSEMBLED_LENGTH
  /\ m.kind \in Kinds /\ m.stream \in Nat /\ m.value \in Csids \union Sizes
  /\ m.kind = "size" => m.length = 1 /\ m.value \in Sizes
  /\ m.kind = "abort" => m.length = 1 /\ m.value \in Csids
  /\ m = [timestamp |-> m.timestamp, length |-> m.length, kind |-> m.kind,
          stream |-> m.stream, value |-> m.value]

\* What the fields of a message are.
LEMMA MessageIs ==
  ASSUME NEW m \in Messages
  PROVE  MessageTyped(m)
<1>1. 0 \in Timestamps /\ 1 \in 0..MAX_ASSEMBLED_LENGTH
  BY ChunkAssumption DEF Timestamps
<1>2. CASE m \in Resizes
  BY <1>1, <1>2 DEF Resizes, MessageTyped, Kinds
<1>3. CASE m \in Aborts
  BY <1>1, <1>3 DEF Aborts, MessageTyped, Kinds
<1>4. CASE \E c \in Csids : m \in MediaOn(c)
  <2>1. PICK c \in Csids, t \in Timestamps, h \in Shapes :
          m = [timestamp |-> t, length |-> h.length, kind |-> "media", stream |-> h.stream,
               value |-> c]
    BY <1>4 DEF MediaOn
  <2>2. h.length \in 0..MAX_ASSEMBLED_LENGTH /\ h.stream \in Nat
    BY ChunkAssumption
  <2> QED
    BY <2>1, <2>2 DEF MessageTyped, Kinds
<1> QED
  BY <1>2, <1>3, <1>4 DEF Messages, Control

\* Units of a message, put together.
LEMMA PayloadIs ==
  ASSUME NEW m \in Messages, NEW a \in Nat, NEW b \in Nat
  PROVE  /\ Payload(m, a, b) \in Seq(Parts)
         /\ Len(Payload(m, a, b)) = b
         /\ \A i \in 1..b : Payload(m, a, b)[i] = Unit(m, a + i)
<1>1. m.value \in Csids \union Sizes
  BY MessageIs DEF MessageTyped
<1>2. ASSUME NEW i \in 1..b  PROVE Unit(m, a + i) \in Parts
  <2>1. a + i \in Nat
    OBVIOUS
  <2>2. Unit(m, a + i) \in [is : {"unit"}, of : Csids \union Sizes, at : Nat]
    BY <1>1, <2>1 DEF Unit
  <2> QED
    BY <2>2, Zenon DEF Parts
<1>3. Payload(m, a, b) \in [1..b -> Parts]
  BY <1>2, Zenon DEF Payload
<1>4. Payload(m, a, b) \in Seq(Parts)
  <2>1. \A X : \A f \in [1..b -> X] : f \in Seq(X)
    OBVIOUS
  <2> QED
    BY <1>3, <2>1
<1>5. Len(Payload(m, a, b)) = b
  BY DEF Payload
<1>6. \A i \in 1..b : Payload(m, a, b)[i] = Unit(m, a + i)
  BY DEF Payload
<1> QED
  BY <1>4, <1>5, <1>6

\* The payload so far and that of the next chunk.
LEMMA PayloadsJoin ==
  ASSUME NEW m \in Messages, NEW a \in Nat, NEW b \in Nat
  PROVE  Payload(m, 0, a) \o Payload(m, a, b) = Payload(m, 0, a + b)
<1> DEFINE p == Payload(m, 0, a)
           q == Payload(m, a, b)
           r == Payload(m, 0, a + b)
<1>1. /\ p \in Seq(Parts) /\ Len(p) = a /\ \A i \in 1..a : p[i] = Unit(m, 0 + i)
      /\ q \in Seq(Parts) /\ Len(q) = b /\ \A i \in 1..b : q[i] = Unit(m, a + i)
      /\ r \in Seq(Parts) /\ Len(r) = a + b /\ \A i \in 1..(a + b) : r[i] = Unit(m, 0 + i)
  <2>1. 0 \in Nat /\ a + b \in Nat
    OBVIOUS
  <2> QED
    BY <2>1, PayloadIs
<1> HIDE DEF p, q, r
<1>2. p \o q \in Seq(Parts) /\ Len(p \o q) = Len(r)
  <2>1. p \in Seq(Parts) /\ q \in Seq(Parts) /\ Len(p) = a /\ Len(q) = b /\ Len(r) = a + b
    BY <1>1
  <2> QED
    BY <2>1
<1>3. ASSUME NEW i \in 1..Len(p \o q)  PROVE (p \o q)[i] = r[i]
  <2>1. CASE i <= a
    <3>1. (p \o q)[i] = p[i] /\ i \in 1..a /\ i \in 1..(a + b)
      BY <1>1, <1>2, <2>1
    <3> QED
      BY <1>1, <3>1
  <2>2. CASE i > a
    <3>1. (p \o q)[i] = q[i - a] /\ i - a \in 1..b /\ i \in 1..(a + b) /\ a + (i - a) = 0 + i
      <4>1. p \in Seq(Parts) /\ q \in Seq(Parts) /\ Len(p) = a /\ Len(q) = b /\ Len(r) = a + b
        BY <1>1
      <4> QED
        BY <1>2, <2>2, <4>1
    <3> QED
      BY <1>1, <3>1
  <2> QED
    BY <1>1, <1>2, <2>1, <2>2
<1>4. p \o q = r
  BY <1>1, <1>2, <1>3, SeqEqual
<1> QED
  BY <1>4 DEF p, q, r

\* Reader u takes the header of format fmt for state s as what it says.
HeaderFits(u, c, fmt, s, t) ==
  /\ u \in Sides /\ c \in AllCsids /\ fmt \in 0..3 /\ s \in States /\ t \in Timestamps
  /\ ~RefusedBy(u, fmt, c)
  /\ s.extended = IF fmt = 3 THEN u.streams[c].state.extended ELSE t >= EXTENDED_TIMESTAMP
  /\ s = StateFrom(u, fmt, c, Fields(fmt, s, t), IF fmt = 3 THEN 0 ELSE t, s.extended)

HeaderTaken(u, c, fmt, s, t, q) ==
  LET w == Header(fmt, c, s, t) \o q
      h == HeaderEnd(w, u)
  IN /\ w \in Seq(Parts) /\ w # <<>> /\ w[1] = Basic(fmt, c)
     /\ HasExtended(w, u) = s.extended /\ StateIn(w, u) = s
     /\ h \in Nat \ {0} /\ Len(w) = h + Len(q) /\ SubSeq(w, h + 1, h + Len(q)) = q

\* What a header consists of are parts.
LEMMA PartsAre ==
  ASSUME NEW c \in AllCsids, NEW fmt \in 0..3, NEW s \in States, NEW t \in Timestamps
  PROVE  Basic(fmt, c) \in Parts /\ Fields(fmt, s, t) \in Parts /\ Extended(t) \in Parts
<1>1. t \in Nat /\ EXTENDED_TIMESTAMP \in Nat
  BY ChunkAssumption DEF Timestamps
<1>2. s.length \in Nat /\ s.kind \in Kinds /\ s.stream \in Nat
  BY DEF States
<1>3. Fields(fmt, s, t) \in [is : {"fields"}, time : Nat, length : Nat \union {None},
                             kind : Kinds \union {None}, stream : Nat \union {None}]
  BY <1>1, <1>2 DEF Fields
<1>4. Basic(fmt, c) \in [is : {"basic"}, fmt : 0..3, csid : AllCsids]
  BY DEF Basic
<1>5. Extended(t) \in [is : {"extended"}, value : Timestamps]
  BY DEF Extended
<1> QED
  BY <1>3, <1>4, <1>5, Zenon DEF Parts

\* What is behind a header.
LEMMA Behind ==
  ASSUME NEW p \in Seq(Parts), NEW q \in Seq(Parts)
  PROVE  /\ p \o q \in Seq(Parts)
         /\ Len(p \o q) = Len(p) + Len(q)
         /\ \A i \in 1..Len(p) : (p \o q)[i] = p[i]
         /\ SubSeq(p \o q, Len(p) + 1, Len(p) + Len(q)) = q
<1> DEFINE r == SubSeq(p \o q, Len(p) + 1, Len(p) + Len(q))
<1>1. r \in Seq(Parts) /\ Len(r) = Len(q)
  OBVIOUS
<1>2. \A i \in 1..Len(q) : r[i] = q[i]
  OBVIOUS
<1>3. r = q
  <2> HIDE DEF r
  <2> QED
    BY <1>1, <1>2, SeqEqual
<1> QED
  BY <1>3

\* Parts one behind the other.
LEMMA Joined ==
  ASSUME NEW a \in Parts, NEW b \in Parts, NEW d \in Parts
  PROVE  <<a>> \o <<b>> = <<a, b>> /\ <<a, b>> \o <<d>> = <<a, b, d>>
<1>1. <<a>> \o <<b>> = <<a, b>>
  <2> DEFINE x == <<a>> \o <<b>>
             y == <<a, b>>
  <2>1. x \in Seq(Parts) /\ y \in Seq(Parts) /\ Len(x) = 2 /\ Len(y) = 2
    OBVIOUS
  <2>2. x[1] = y[1] /\ x[2] = y[2]
    OBVIOUS
  <2> HIDE DEF x, y
  <2>3. \A i \in 1..Len(x) : x[i] = y[i]
    BY <2>1, <2>2
  <2>4. x = y
    BY <2>1, <2>3, SeqEqual
  <2> QED
    BY <2>4 DEF x, y
<1>2. <<a, b>> \o <<d>> = <<a, b, d>>
  <2> DEFINE x == <<a, b>> \o <<d>>
             y == <<a, b, d>>
  <2>1. x \in Seq(Parts) /\ y \in Seq(Parts) /\ Len(x) = 3 /\ Len(y) = 3
    OBVIOUS
  <2>2. x[1] = y[1] /\ x[2] = y[2] /\ x[3] = y[3]
    OBVIOUS
  <2> HIDE DEF x, y
  <2>3. \A i \in 1..Len(x) : x[i] = y[i]
    BY <2>1, <2>2
  <2>4. x = y
    BY <2>1, <2>3, SeqEqual
  <2> QED
    BY <2>4 DEF x, y
<1> QED
  BY <1>1, <1>2

\* A header that fits is read as the state it was written for.
LEMMA HeaderIsTaken ==
  ASSUME NEW u, NEW c, NEW fmt, NEW s, NEW t, HeaderFits(u, c, fmt, s, t), NEW q \in Seq(Parts)
  PROVE  HeaderTaken(u, c, fmt, s, t, q)
<1> DEFINE a == Basic(fmt, c)
           b == Fields(fmt, s, t)
           d == Extended(t)
           p == Header(fmt, c, s, t)
           w == p \o q
<1>1. c \in AllCsids /\ fmt \in 0..3 /\ s \in States /\ t \in Timestamps
  BY DEF HeaderFits
<1>2. a \in Parts /\ b \in Parts /\ d \in Parts
  BY <1>1, PartsAre
<1>3. /\ a.fmt = fmt /\ a.csid = c /\ d.value = t
      /\ b.time = IF t >= EXTENDED_TIMESTAMP THEN EXTENDED_TIMESTAMP ELSE t
  BY DEF Basic, Fields, Extended
<1>4. s.extended = IF fmt = 3 THEN u.streams[c].state.extended ELSE t >= EXTENDED_TIMESTAMP
  BY DEF HeaderFits
<1>5. s.extended \in BOOLEAN /\ t \in Nat /\ EXTENDED_TIMESTAMP \in Nat
  BY <1>1, ChunkAssumption DEF States, Timestamps
<1>6. s = StateFrom(u, fmt, c, b, IF fmt = 3 THEN 0 ELSE t, s.extended)
  BY DEF HeaderFits
<1>7. p = <<a>> \o (IF fmt <= 2 THEN <<b>> ELSE <<>>) \o (IF s.extended THEN <<d>> ELSE <<>>)
  BY DEF Header
<1> HIDE DEF a, b, d, p
<1>8. p = IF fmt = 3 THEN IF s.extended THEN <<a, d>> ELSE <<a>>
          ELSE IF s.extended THEN <<a, b, d>> ELSE <<a, b>>
  <2>1. CASE fmt = 3
    <3>1. p = <<a>> \o <<>> \o (IF s.extended THEN <<d>> ELSE <<>>)
      BY <1>7, <2>1
    <3> QED
      BY <1>2, <2>1, <3>1
  <2>2. CASE fmt # 3
    <3>1. p = <<a>> \o <<b>> \o (IF s.extended THEN <<d>> ELSE <<>>)
      BY <1>1, <1>7, <2>2
    <3>2. <<a>> \o <<b>> = <<a, b>>
      BY <1>2, Joined
    <3>3. <<a, b>> \o <<>> = <<a, b>>
      BY <1>2
    <3>4. <<a, b>> \o <<d>> = <<a, b, d>>
      BY <1>2, Joined
    <3>5. CASE s.extended
      BY <2>2, <3>1, <3>2, <3>4, <3>5
    <3>6. CASE ~s.extended
      BY <2>2, <3>1, <3>2, <3>3, <3>6
    <3> QED
      BY <3>5, <3>6
  <2> QED
    BY <2>1, <2>2
<1>9. p \in Seq(Parts) /\ Len(p) \in 1..3 /\ p[1] = a
      /\ Len(p) = (IF fmt = 3 THEN 1 ELSE 2) + (IF s.extended THEN 1 ELSE 0)
  BY <1>2, <1>5, <1>8
<1>10. w \in Seq(Parts) /\ w # <<>> /\ Len(w) = Len(p) + Len(q) /\ \A i \in 1..Len(p) : w[i] = p[i]
       /\ SubSeq(w, Len(p) + 1, Len(p) + Len(q)) = q
  <2>1. w \in Seq(Parts) /\ Len(w) = Len(p) + Len(q) /\ \A i \in 1..Len(p) : w[i] = p[i]
       /\ SubSeq(w, Len(p) + 1, Len(p) + Len(q)) = q
    BY <1>9, Behind
  <2> HIDE DEF w
  <2>2. w # <<>>
    BY <1>9, <2>1
  <2> QED
    BY <2>1, <2>2
<1> HIDE DEF w
<1>11. w[1] = a
  BY <1>9, <1>10
<1>12. CASE fmt = 3
  <2>1. HasExtended(w, u) = s.extended /\ FieldsEnd(w) = 1 /\ TimeIn(w, u) = 0
    BY <1>3, <1>4, <1>11, <1>12 DEF HasExtended, FieldsEnd, TimeIn
  <2>2. HeaderEnd(w, u) = Len(p)
    BY <1>9, <1>12, <2>1 DEF HeaderEnd
  <2>3. \A x : StateFrom(u, fmt, c, x, 0, s.extended) = s
    <3>1. fmt # 0
      BY <1>12
    <3> QED
      BY <1>6, <1>12, <3>1, Zenon DEF StateFrom
  <2>4. StateIn(w, u) = s
    BY <1>3, <1>11, <2>1, <2>3 DEF StateIn
  <2> QED
    BY <1>9, <1>10, <1>11, <2>1, <2>2, <2>4 DEF HeaderTaken, w, p, a
<1>13. CASE fmt # 3
  <2>1. w[2] = b /\ (s.extended => w[3] = d)
    BY <1>2, <1>8, <1>9, <1>10, <1>13
  <2>2. HasExtended(w, u) = s.extended /\ FieldsEnd(w) = 2
    BY <1>3, <1>4, <1>5, <1>11, <1>13, <2>1 DEF HasExtended, FieldsEnd
  <2>3. HeaderEnd(w, u) = Len(p)
    BY <1>9, <1>13, <2>2 DEF HeaderEnd
  <2>4. TimeIn(w, u) = t
    <3>1. CASE s.extended
      <4>1. HeaderEnd(w, u) = 3
        BY <1>9, <1>13, <2>3, <3>1
      <4> QED
        BY <1>3, <1>11, <1>13, <2>1, <2>2, <3>1, <4>1 DEF TimeIn
    <3>2. CASE ~s.extended
      BY <1>3, <1>4, <1>5, <1>11, <1>13, <2>1, <2>2, <3>2 DEF TimeIn
    <3> QED
      BY <1>5, <3>1, <3>2
  <2>5. StateIn(w, u) = s
    <3>1. StateFrom(u, fmt, c, b, t, s.extended) = s
      BY <1>6, <1>13
    <3> QED
      BY <1>3, <1>11, <2>1, <2>2, <2>4, <3>1 DEF StateIn
  <2> QED
    BY <1>9, <1>10, <1>11, <2>2, <2>3, <2>5 DEF HeaderTaken, w, p, a
<1> QED
  BY <1>12, <1>13

\* What carries forward once k units of m are there.
Silenced(x, m) ==
  IF m.kind = "abort" /\ x[m.value] # None THEN [x EXCEPT ![m.value].payload = <<>>] ELSE x
Then(u, c, s, m, k) ==
  IF k = m.length
  THEN [streams |-> Silenced([u.streams EXCEPT ![c] = [state |-> s, payload |-> <<>>]], m),
        chunk_size |-> IF m.kind = "size" THEN m.value ELSE u.chunk_size,
        expected |-> Tail(u.expected)]
  ELSE [streams |-> [u.streams EXCEPT ![c] = [state |-> s, payload |-> Payload(m, 0, k)]],
        chunk_size |-> u.chunk_size, expected |-> u.expected]

\* The Reader carries forward what a Reader may.
LEMMA ThenTyped ==
  ASSUME NEW u \in Sides, NEW c \in AllCsids, NEW s \in States, NEW m \in Messages, NEW k \in Nat,
         k = m.length => u.expected # <<>>
  PROVE  Then(u, c, s, m, k) \in Sides
<1>1. u.streams \in [AllCsids -> Streams \union {None}] /\ u.chunk_size \in Sizes
      /\ u.expected \in Seq(Messages)
  BY DEF Sides
<1>2. MessageTyped(m)
  BY MessageIs
<1>3. CASE k # m.length
  <2>1. [state |-> s, payload |-> Payload(m, 0, k)] \in Streams
    <3>1. 0 \in Nat
      OBVIOUS
    <3>2. Payload(m, 0, k) \in Seq(Parts)
      BY <3>1, PayloadIs
    <3> QED
      BY <3>2 DEF Streams
  <2> DEFINE p == [state |-> s, payload |-> Payload(m, 0, k)]
  <2> HIDE DEF p
  <2>2. [u.streams EXCEPT ![c] = p] \in [AllCsids -> Streams \union {None}]
    BY <1>1, <2>1 DEF p
  <2> QED
    BY <1>1, <1>3, <2>2 DEF Then, Sides, p
<1>4. CASE k = m.length
  <2> DEFINE x == [u.streams EXCEPT ![c] = [state |-> s, payload |-> <<>>]]
             y == Silenced(x, m)
  <2>1. [state |-> s, payload |-> <<>>] \in Streams
    BY DEF Streams
  <2>2. x \in [AllCsids -> Streams \union {None}]
    <3> DEFINE p == [state |-> s, payload |-> <<>>]
    <3> HIDE DEF p
    <3> QED
      BY <1>1, <2>1 DEF p
  <2> HIDE DEF x
  <2>3. y \in [AllCsids -> Streams \union {None}]
    <3>1. CASE m.kind = "abort" /\ x[m.value] # None
      <4>1. m.value \in AllCsids
        BY <1>2, <3>1 DEF MessageTyped, AllCsids
      <4>2. x[m.value] \in Streams
        BY <2>2, <3>1, <4>1
      <4>3. [x[m.value] EXCEPT !.payload = <<>>] \in Streams
        <5>1. PICK g \in Streams : g = x[m.value]
          BY <4>2
        <5>2. g.state \in States /\ <<>> \in Seq(Parts)
              /\ [g EXCEPT !.payload = <<>>] = [state |-> g.state, payload |-> <<>>]
          BY DEF Streams
        <5>3. [g EXCEPT !.payload = <<>>] \in Streams
          BY <5>2 DEF Streams
        <5> QED
          BY <5>1, <5>3, Zenon
      <4> DEFINE p == [x[m.value] EXCEPT !.payload = <<>>]
      <4>4. y = [x EXCEPT ![m.value] = p]
        BY <3>1 DEF Silenced
      <4> HIDE DEF p
      <4> QED
        BY <2>2, <4>1, <4>3, <4>4 DEF p
    <3>2. CASE ~(m.kind = "abort" /\ x[m.value] # None)
      BY <2>2, <3>2 DEF Silenced
    <3> QED
      BY <3>1, <3>2
  <2> HIDE DEF y
  <2>4. Tail(u.expected) \in Seq(Messages)
    <3> DEFINE e == u.expected
    <3>1. e \in Seq(Messages) /\ e # <<>>
      BY <1>1, <1>4
    <3> HIDE DEF e
    <3>2. Tail(e) \in Seq(Messages)
      BY <3>1
    <3> QED
      BY <3>2 DEF e
  <2>5. (IF m.kind = "size" THEN m.value ELSE u.chunk_size) \in Sizes
    BY <1>1, <1>2 DEF MessageTyped
  <2>6. Then(u, c, s, m, k) = [streams |-> y,
                               chunk_size |-> IF m.kind = "size" THEN m.value ELSE u.chunk_size,
                               expected |-> Tail(u.expected)]
    BY <1>4, Zenon DEF Then, x, y
  <2> QED
    BY <2>3, <2>4, <2>5, <2>6 DEF Sides
<1> QED
  BY <1>3, <1>4

\* A chunk of m written after the first `from` of its units, to Reader u.
ChunkFits(u, c, fmt, s, t, m, from) ==
  /\ HeaderFits(u, c, fmt, s, t)
  /\ m \in Messages /\ Tells(s, m) /\ from \in 0..m.length
  /\ Have(u, c) = Payload(m, 0, from)
  /\ m.length - from <= u.chunk_size => u.expected # <<>> /\ Head(u.expected) = m

Room(u, m, from) == Min(m.length - from, u.chunk_size)

ChunkTaken(u, c, fmt, s, t, m, from) ==
  LET w == Header(fmt, c, s, t) \o Payload(m, from, Room(u, m, from))
  IN /\ w \in Seq(Parts) /\ GoodChunk(w, u)
     /\ LeadsTo(w, u, <<>>, Then(u, c, s, m, from + Room(u, m, from)))

\* A chunk that fits is good, and reading it comes to Then.
LEMMA ChunkComes ==
  ASSUME NEW u, NEW c, NEW fmt, NEW s, NEW t, NEW m, NEW from,
         ChunkFits(u, c, fmt, s, t, m, from)
  PROVE  ChunkTaken(u, c, fmt, s, t, m, from)
<1> DEFINE n == Room(u, m, from)
           q == Payload(m, from, n)
           p == Header(fmt, c, s, t)
           w == p \o q
           h == HeaderEnd(w, u)
           z == Then(u, c, s, m, from + n)
<1>1. /\ HeaderFits(u, c, fmt, s, t)
      /\ m \in Messages /\ Tells(s, m) /\ from \in 0..m.length
      /\ Have(u, c) = Payload(m, 0, from)
      /\ m.length - from <= u.chunk_size => u.expected # <<>> /\ Head(u.expected) = m
  BY DEF ChunkFits
<1>2. /\ u \in Sides /\ c \in AllCsids /\ fmt \in 0..3 /\ s \in States /\ t \in Timestamps
      /\ ~RefusedBy(u, fmt, c)
  BY <1>1 DEF HeaderFits
<1>3. MessageTyped(m)
  BY <1>1, MessageIs
<1>4. /\ s.length = m.length /\ s.kind = m.kind
      /\ m.length \in 0..MAX_ASSEMBLED_LENGTH /\ m.length \in Nat /\ from \in Nat
  <2>1. s.length = m.length /\ s.kind = m.kind
    BY <1>1 DEF Tells
  <2> QED
    BY <1>1, <1>3, <2>1, ChunkAssumption DEF MessageTyped
<1>5. u.chunk_size \in Nat \ {0} /\ u.expected \in Seq(Messages)
      /\ u.streams \in [AllCsids -> Streams \union {None}]
  BY <1>2, ChunkAssumption DEF Sides
<1>6. n \in Nat /\ from + n \in Nat /\ (from + n = m.length <=> m.length - from <= u.chunk_size)
      /\ n = Min(m.length - from, u.chunk_size)
  BY <1>1, <1>4, <1>5 DEF Room, Min
<1> HIDE DEF n
<1>7. q \in Seq(Parts) /\ Len(q) = n
  BY <1>1, <1>4, <1>6, PayloadIs
<1> HIDE DEF q
<1>8. HeaderTaken(u, c, fmt, s, t, q)
  BY <1>1, <1>7, HeaderIsTaken
<1>9. /\ w \in Seq(Parts) /\ w # <<>> /\ w[1] = Basic(fmt, c)
      /\ HasExtended(w, u) = s.extended /\ StateIn(w, u) = s
      /\ h \in Nat \ {0} /\ Len(w) = h + n /\ SubSeq(w, h + 1, h + n) = q
  BY <1>7, <1>8 DEF HeaderTaken
<1> HIDE DEF w, p, h
<1>10. w[1].is = "basic" /\ w[1].fmt = fmt /\ w[1].csid = c
  BY <1>9 DEF Basic
<1>11. Len(Have(u, c)) = from
  <2>1. 0 \in Nat
    OBVIOUS
  <2>2. Len(Payload(m, 0, from)) = from
    BY <1>1, <1>4, <2>1, PayloadIs
  <2> QED
    BY <1>1, <2>2
<1>12. Needs(w, u) = n
  BY <1>4, <1>6, <1>9, <1>10, <1>11 DEF Needs
<1>13. ChunkEnd(w, u) = Len(w) /\ ChunkEnd(w, u) = h + n
  BY <1>9, <1>12 DEF ChunkEnd, h
<1>14. PayloadIn(w, u) = Payload(m, 0, from + n)
  <2>1. PayloadIn(w, u) = Have(u, c) \o SubSeq(w, h + 1, h + n)
    BY <1>10, <1>13 DEF PayloadIn, h
  <2>2. PayloadIn(w, u) = Payload(m, 0, from) \o q
    BY <1>1, <1>9, <2>1
  <2> QED
    BY <1>1, <1>4, <1>6, <2>2, PayloadsJoin DEF q
<1>15. Len(Payload(m, 0, from + n)) = from + n
       /\ \A i \in 1..(from + n) : Payload(m, 0, from + n)[i] = Unit(m, 0 + i)
  <2>1. 0 \in Nat
    OBVIOUS
  <2> QED
    BY <1>1, <1>6, <2>1, PayloadIs
<1>16. Completes(w, u) <=> from + n = m.length
  BY <1>4, <1>9, <1>14, <1>15 DEF Completes
<1>17. ReaderAfter(w, u) = z
  <2>1. CASE from + n = m.length
    <3> DEFINE pl == Payload(m, 0, from + n)
               x == [u.streams EXCEPT ![c] = [state |-> s, payload |-> <<>>]]
    <3>1. m.kind \in {"size", "abort"} => pl[1].of = m.value
      <4>1. m.kind \in {"size", "abort"} => m.length = 1
        BY <1>3 DEF MessageTyped
      <4>2. m.kind \in {"size", "abort"} => 1 \in 1..(from + n)
        BY <2>1, <4>1
      <4>3. m.kind \in {"size", "abort"} => pl[1] = Unit(m, 0 + 1)
        BY <1>15, <4>2
      <4> HIDE DEF pl
      <4> QED
        BY <4>3 DEF Unit
    <3> HIDE DEF pl, x
    <3>2. AfterAbort(x, m.kind, pl) = Silenced(x, m)
      <4>1. CASE m.kind = "abort"
        <5>1. pl[1].of = m.value
          BY <3>1, <4>1
        <5> QED
          BY <4>1, <5>1, Zenon DEF AfterAbort, Silenced
      <4>2. CASE m.kind # "abort"
        BY <4>2, Zenon DEF AfterAbort, Silenced
      <4> QED
        BY <4>1, <4>2
    <3>3. ReaderAfter(w, u) =
            [streams |-> AfterAbort(x, m.kind, pl),
             chunk_size |-> IF m.kind = "size" THEN pl[1].of ELSE u.chunk_size,
             expected |-> Tail(u.expected)]
      <4>1. Completes(w, u)
        BY <1>16, <2>1
      <4> QED
        BY <1>4, <1>9, <1>10, <1>14, <4>1, Zenon DEF ReaderAfter, x, pl
    <3>4. (IF m.kind = "size" THEN pl[1].of ELSE u.chunk_size)
            = (IF m.kind = "size" THEN m.value ELSE u.chunk_size)
      BY <3>1
    <3>5. z = [streams |-> Silenced(x, m),
               chunk_size |-> IF m.kind = "size" THEN m.value ELSE u.chunk_size,
               expected |-> Tail(u.expected)]
      BY <2>1, Zenon DEF Then, x
    <3> QED
      BY <3>2, <3>3, <3>4, <3>5, Zenon
  <2>2. CASE from + n # m.length
    <3>1. ~Completes(w, u)
      BY <1>16, <2>2
    <3> QED
      BY <1>9, <1>10, <1>14, <2>2, <3>1, Zenon DEF ReaderAfter, Then
  <2> QED
    BY <2>1, <2>2
<1> HIDE DEF z
<1>18. z \in Sides
  BY <1>1, <1>2, <1>6, ThenTyped DEF z
<1>19. GoodChunk(w, u)
  <2>1. Completes(w, u) =>
          /\ u.expected # <<>>
          /\ Tells(StateIn(w, u), Head(u.expected))
          /\ PayloadIn(w, u) = Payload(Head(u.expected), 0, Head(u.expected).length)
    BY <1>1, <1>6, <1>9, <1>14, <1>16
  <2>2. HasExtended(w, u) \in BOOLEAN
    BY <1>2, <1>9 DEF States
  <2>3. StateIn(w, u).length \in 0..MAX_ASSEMBLED_LENGTH
    BY <1>4, <1>9
  <2>4. ChunkEnd(w, u) <= Len(w)
    BY <1>9, <1>13
  <2>5. Needs(w, u) \in Nat
    BY <1>6, <1>12
  <2>6. ReaderAfter(w, u) \in Sides
    BY <1>17, <1>18
  <2>7. w[1].fmt \in 0..3 /\ w[1].csid \in AllCsids /\ ~RefusedBy(u, w[1].fmt, w[1].csid)
    BY <1>2, <1>10
  <2> QED
    BY <1>2, <1>9, <1>10, <2>1, <2>2, <2>3, <2>4, <2>5, <2>6, <2>7, Zenon DEF GoodChunk
<1>20. WireAfter(w, u) = <<>>
  <2>1. SubSeq(w, Len(w) + 1, Len(w)) = <<>>
    BY <1>9
  <2> QED
    BY <1>13, <2>1 DEF WireAfter
<1>21. LeadsTo(w, u, <<>>, z)
  BY <1>17, <1>19, <1>20, LeadsOver
<1> QED
  BY <1>9, <1>19, <1>21 DEF ChunkTaken, w, p, q, n, z

(***************************************************************************)
(* Numbers: remainders, and induction by the least number that something   *)
(* is not true of                                                          *)
(***************************************************************************)

\* What a division leaves, for any divisor.
LEMMA Division ==
  ASSUME NEW a \in Int, NEW b \in Nat \ {0}
  PROVE  /\ a \div b \in Int
         /\ a % b \in 0..(b - 1)
         /\ a = b * (a \div b) + (a % b)
  OBVIOUS

\* A multiple that is less than one is none.
LEMMA Multiples ==
  ASSUME NEW m \in Int, NEW w \in Nat \ {0}
  PROVE  /\ w * m \in Int
         /\ m >= 1 => w * m >= w
         /\ m <= -1 => w * m <= -w
<1>1. w * m \in Int
  OBVIOUS
<1>2. ASSUME m >= 1  PROVE w * m >= w
  <2>1. m - 1 \in Nat /\ w * (m - 1) \in Nat
    BY <1>2
  <2>2. w * m = w * (m - 1) + w
    OBVIOUS
  <2> QED
    BY <2>1, <2>2, <1>1
<1>3. ASSUME m <= -1  PROVE w * m <= -w
  <2>1. -m - 1 \in Nat /\ w * (-m - 1) \in Nat
    BY <1>3
  <2>2. w * m = -(w * (-m - 1)) - w
    OBVIOUS
  <2> QED
    BY <2>1, <2>2, <1>1
<1> QED
  BY <1>1, <1>2, <1>3

\* Every set of naturals that is not empty has a least element.
LEMMA LeastNatural ==
  ASSUME NEW G \in SUBSET Nat, G # {}
  PROVE  \E m \in G : \A k \in G : m <= k
<1> DEFINE T == {1..k : k \in G}
<1>1. T \subseteq FiniteSubsetsOf(Nat)
  <2> SUFFICES ASSUME NEW k \in G  PROVE 1..k \in SUBSET Nat /\ IsFiniteSet(1..k)
    BY DEF FiniteSubsetsOf
  <2> QED
    BY FS_Interval
<1>2. T # {}
  OBVIOUS
<1>3. PICK X \in T : \A Y \in T : <<Y, X>> \notin StrictSubsetOrdering(Nat)
  BY <1>1, <1>2, FS_StrictSubsetOrderingWellFounded, WFMin
<1>4. PICK m \in G : X = 1..m
  BY <1>3
<1>5. ASSUME NEW k \in G, k < m  PROVE FALSE
  <2>1. 1..k \in T
    BY <1>5
  <2>2. 1..k \subseteq 1..m /\ 1..k # 1..m
    BY <1>5
  <2>3. <<1..k, X>> \in StrictSubsetOrdering(Nat)
    BY <1>4, <2>2 DEF StrictSubsetOrdering
  <2> QED
    BY <1>3, <2>1, <2>3
<1>6. ASSUME NEW k \in G  PROVE m <= k
  <2>1. k \in Nat /\ m \in Nat /\ ~(k < m)
    BY <1>5
  <2> QED
    BY <2>1
<1> QED
  BY <1>6

\* Induction, with the numbers that something is true of as a set.
LEMMA Inductive ==
  ASSUME NEW n \in Nat, NEW T, 1 \in T,
         \A k \in 1..(n - 1) : k \in T => k + 1 \in T
  PROVE  1..n \subseteq T
<1> SUFFICES ASSUME NEW j \in 1..n, j \notin T  PROVE FALSE
  OBVIOUS
<1> DEFINE G == {k \in 1..n : k \notin T}
<1>1. G \in SUBSET Nat /\ G # {}
  <2>1. G \subseteq 1..n /\ 1..n \subseteq Nat /\ j \in G
    OBVIOUS
  <2> HIDE DEF G
  <2> QED
    BY <2>1
<1>2. PICK m \in G : \A k \in G : m <= k
  <2> HIDE DEF G
  <2> QED
    BY <1>1, LeastNatural
<1>3. m \in 2..n /\ m \notin T
  BY <1>2
<1>4. m - 1 \in 1..(n - 1) /\ m - 1 \notin G
  <2>1. m - 1 \in 1..(n - 1) /\ m \in Nat
    BY <1>3
  <2>2. ~(m <= m - 1)
    BY <1>3
  <2> HIDE DEF G
  <2> QED
    BY <1>2, <2>1, <2>2
<1>5. m - 1 \in T
  BY <1>4
<1> QED
  BY <1>3, <1>4, <1>5

\* What is added to a time to get to another leads there, around the wrap.
LEMMA WrapsBack ==
  ASSUME NEW a \in Timestamps, NEW b \in Timestamps
  PROVE  WrappingAdd(a, (b - a) % W) = b /\ (b - a) % W \in Timestamps
<1>1. W \in Nat \ {0} /\ a \in 0..(W - 1) /\ b \in 0..(W - 1)
  BY ChunkAssumption DEF Timestamps
<1> DEFINE d == (b - a) % W
           q == (b - a) \div W
           r == (a + d) % W
           k == (a + d) \div W
<1>2. d \in 0..(W - 1) /\ q \in Int /\ b - a = W * q + d
  <2>1. b - a \in Int
    BY <1>1
  <2> HIDE DEF d, q
  <2> QED
    BY <1>1, <2>1, Division DEF d, q
<1> HIDE DEF d, q
<1>3. r \in 0..(W - 1) /\ k \in Int /\ a + d = W * k + r
  <2>1. a + d \in Int
    BY <1>1, <1>2
  <2> HIDE DEF r, k
  <2> QED
    BY <1>1, <2>1, Division DEF r, k
<1> HIDE DEF r, k
<1>4. q + k \in Int /\ W * (q + k) = W * q + W * k
  BY <1>1, <1>2, <1>3
<1>5. W * (q + k) = b - r
  BY <1>1, <1>2, <1>3, <1>4
<1>6. ~(q + k >= 1) /\ ~(q + k <= -1)
  <2>1. (q + k >= 1 => W * (q + k) >= W) /\ (q + k <= -1 => W * (q + k) <= -W)
    BY <1>1, <1>4, Multiples
  <2> QED
    BY <1>1, <1>3, <1>4, <1>5, <2>1
<1>7. q + k = 0 /\ W * (q + k) = 0
  BY <1>1, <1>4, <1>6
<1>8. r = b
  BY <1>1, <1>3, <1>5, <1>7
<1> QED
  BY <1>2, <1>8 DEF WrappingAdd, Timestamps, r, d

(***************************************************************************)
(* Headers                                                                 *)
(***************************************************************************)

\* The message that state s of chunk stream c is of, where c is of media, and
\* what the Reader keeps of it while its writer has `left` of it to go.
MessageOf(c, s) ==
  [timestamp |-> s.timestamp, length |-> s.length, kind |-> s.kind, stream |-> s.stream,
   value |-> c]
StreamOf(c, s, left) ==
  IF s = None THEN None
  ELSE [state |-> s,
        payload |-> IF left = 0 THEN <<>> ELSE Payload(MessageOf(c, s), 0, s.length - left)]

\* There is room for one more chunk stream, if it is one there is.
LEMMA NotTooMany ==
  ASSUME NEW x, NEW c \in AllCsids, x[c] = None
  PROVE  ~(Cardinality({d \in AllCsids : x[d] # None}) >= MAX_CHUNK_STREAMS)
<1> DEFINE D == {d \in AllCsids : x[d] # None}
           E == AllCsids \ {c}
<1>1. IsFiniteSet(Csids) /\ CONTROL \notin Csids
      /\ Cardinality(Csids) < MAX_CHUNK_STREAMS /\ MAX_CHUNK_STREAMS \in Nat
  BY ChunkAssumption
<1>2. IsFiniteSet(AllCsids) /\ Cardinality(AllCsids) = Cardinality(Csids) + 1
      /\ Cardinality(Csids) \in Nat
  BY <1>1, FS_AddElement, FS_CardinalityType DEF AllCsids
<1>3. IsFiniteSet(E) /\ Cardinality(E) = Cardinality(AllCsids) - 1
  BY <1>2, FS_RemoveElement
<1>4. D \subseteq E
  OBVIOUS
<1>5. IsFiniteSet(D) /\ Cardinality(D) <= Cardinality(E)
  BY <1>3, <1>4, FS_Subset
<1>6. Cardinality(D) \in Nat
  BY <1>5, FS_CardinalityType
<1> HIDE DEF D, E
<1>7. ~(Cardinality(D) >= MAX_CHUNK_STREAMS)
  BY <1>1, <1>2, <1>3, <1>5, <1>6
<1> QED
  BY <1>7 DEF D

\* The header of the first chunk of m, in any format that may follow state p,
\* is read as what its writer carries forward.
HeaderAgrees(u, c, fmt, p, m, extended) ==
  /\ HeaderFits(u, c, fmt, Carried(fmt, p, m, extended), Time(fmt, p, m))
  /\ Tells(Carried(fmt, p, m, extended), m)

\* The Reader makes of each format what its writer left out (StateOf, Carried).
LEMMA HeadersAgree ==
  ASSUME NEW u \in Sides, NEW c \in AllCsids, NEW p \in States \union {None},
         NEW m \in Messages, NEW fmt \in Formats(p, m),
         u.streams[c] = StreamOf(c, p, 0),
         NEW extended,
         extended = IF fmt = 3 THEN p.extended ELSE Time(fmt, p, m) >= EXTENDED_TIMESTAMP
  PROVE  HeaderAgrees(u, c, fmt, p, m, extended)
<1> DEFINE s == Carried(fmt, p, m, extended)
           t == Time(fmt, p, m)
           D == Delta(p, m)
<1>1. MessageTyped(m)
  BY MessageIs
<1>2. m.timestamp \in Timestamps /\ m.length \in Nat /\ m.kind \in Kinds /\ m.stream \in Nat
  BY <1>1, ChunkAssumption DEF MessageTyped
<1>3. fmt \in 0..3 /\ (fmt # 0 => p # None)
      /\ (fmt # 0 => p.stream = m.stream)
      /\ (fmt \in {2, 3} => p.length = m.length /\ p.kind = m.kind)
      /\ (fmt = 3 => p.delta = D)
  BY DEF Formats
<1>4. fmt # 0 => p \in States
  BY <1>3
<1>5. fmt # 0 => D \in Timestamps /\ WrappingAdd(p.timestamp, D) = m.timestamp
  <2>1. fmt # 0 => p.timestamp \in Timestamps
    BY <1>4 DEF States
  <2> QED
    BY <1>2, <2>1, WrapsBack DEF Delta
<1>6. t \in Timestamps /\ t = IF fmt = 0 THEN m.timestamp ELSE D
  BY <1>2, <1>5 DEF Time
<1>7. 0 \in Timestamps /\ (t >= EXTENDED_TIMESTAMP) \in BOOLEAN
  BY ChunkAssumption DEF Timestamps
<1>8. extended \in BOOLEAN
  <2>1. fmt = 3 => p.extended \in BOOLEAN
    BY <1>4 DEF States
  <2>2. extended = IF fmt = 3 THEN p.extended ELSE t >= EXTENDED_TIMESTAMP
    BY DEF t
  <2>3. CASE fmt = 3
    BY <2>1, <2>2, <2>3
  <2>4. CASE fmt # 3
    <3>1. extended = (t >= EXTENDED_TIMESTAMP)
      BY <2>2, <2>4
    <3> QED
      BY <1>7, <3>1, Zenon
  <2> QED
    BY <2>3, <2>4
<1> HIDE DEF D, t
<1>9. s = [timestamp |-> m.timestamp, delta |-> IF fmt = 0 THEN 0 ELSE D,
           length |-> m.length, kind |-> m.kind, stream |-> m.stream, extended |-> extended]
  BY DEF Carried, D
<1> HIDE DEF s
<1>10. s \in States /\ s.extended = extended
  BY <1>2, <1>5, <1>7, <1>8, <1>9 DEF States
<1>11. Have(u, c) = <<>> /\ Len(Have(u, c)) = 0
       /\ (p # None => u.streams[c].state = p /\ u.streams[c] # None)
  <2>1. p # None => [state |-> p, payload |-> <<>>] # None
    <3>1. p # None => [state |-> p, payload |-> <<>>] \in Streams
      BY DEF Streams
    <3> QED
      BY <3>1, ChunkAssumption
  <2> QED
    BY <2>1 DEF Have, StreamOf
<1>12. ~RefusedBy(u, fmt, c)
  <2>1. u.streams[c] = None => fmt = 0
    BY <1>3, <1>11
  <2>2. u.streams[c] = None
          => ~(Cardinality({d \in AllCsids : u.streams[d] # None}) >= MAX_CHUNK_STREAMS)
    BY NotTooMany
  <2>3. ~(Len(Have(u, c)) > 0)
    BY <1>11
  <2> QED
    BY <2>1, <2>2, <2>3, Zenon DEF RefusedBy
<1>13. s.extended = IF fmt = 3 THEN u.streams[c].state.extended ELSE t >= EXTENDED_TIMESTAMP
  BY <1>3, <1>10, <1>11 DEF t
<1> DEFINE b == Fields(fmt, s, t)
<1>14. /\ fmt <= 1 => b.length = m.length /\ b.kind = m.kind
       /\ fmt = 0 => b.stream = m.stream
  BY <1>9 DEF Fields
<1> HIDE DEF b
<1>15. s = StateFrom(u, fmt, c, b, IF fmt = 3 THEN 0 ELSE t, s.extended)
  <2>1. CASE fmt = 0
    BY <1>6, <1>9, <1>10, <1>14, <2>1 DEF StateFrom
  <2>2. CASE fmt \in {1, 2}
    <3>1. u.streams[c].state = p /\ t = D /\ WrappingAdd(p.timestamp, D) = m.timestamp
          /\ p.stream = m.stream
      BY <1>3, <1>5, <1>6, <1>11, <2>2
    <3> QED
      BY <1>3, <1>9, <1>10, <1>14, <2>2, <3>1 DEF StateFrom
  <2>3. CASE fmt = 3
    <3>1. p \in States /\ p.delta = D /\ p.length = m.length /\ p.kind = m.kind
          /\ p.stream = m.stream /\ p.extended = extended
          /\ WrappingAdd(p.timestamp, p.delta) = m.timestamp
      BY <1>3, <1>4, <1>5, <2>3
    <3>2. StateFrom(u, fmt, c, b, 0, s.extended)
            = [p EXCEPT !.timestamp = WrappingAdd(@, p.delta)]
      <4>1. fmt # 0 /\ ~(Len(Have(u, c)) > 0) /\ u.streams[c].state = p
        BY <1>3, <1>11, <2>3
      <4> QED
        BY <2>3, <4>1, Zenon DEF StateFrom
    <3>3. [p EXCEPT !.timestamp = WrappingAdd(@, p.delta)] = s
      BY <1>9, <2>3, <3>1 DEF States
    <3> QED
      BY <2>3, <3>2, <3>3
  <2> QED
    BY <1>3, <2>1, <2>2, <2>3
<1>16. HeaderFits(u, c, fmt, s, t)
  BY <1>3, <1>6, <1>10, <1>12, <1>13, <1>15 DEF HeaderFits, b
<1>17. Tells(s, m)
  BY <1>1, <1>9 DEF Tells, MessageTyped
<1> QED
  BY <1>16, <1>17 DEF HeaderAgrees, s, t

(***************************************************************************)
(* The chunks of a message                                                 *)
(***************************************************************************)

\* A chunk of format 3 goes on with a message that is half there.
LEMMA ContinuesFit ==
  ASSUME NEW v \in Sides, NEW c \in AllCsids, NEW s \in States, NEW t \in Timestamps,
         NEW m \in Messages, NEW k \in Nat \ {0}, k <= m.length, Tells(s, m),
         v.streams[c] = [state |-> s, payload |-> Payload(m, 0, k)],
         m.length - k <= v.chunk_size => v.expected # <<>> /\ Head(v.expected) = m
  PROVE  ChunkFits(v, c, 3, s, t, m, k)
<1> DEFINE p == [state |-> s, payload |-> Payload(m, 0, k)]
<1>1. Payload(m, 0, k) \in Seq(Parts) /\ Len(Payload(m, 0, k)) = k
  <2>1. 0 \in Nat /\ k \in Nat
    OBVIOUS
  <2> QED
    BY <2>1, PayloadIs
<1>2. v.streams[c] = p /\ p.state = s /\ p.payload = Payload(m, 0, k)
  OBVIOUS
<1>3. p # None
  <2>1. p \in Streams
    BY <1>1 DEF Streams
  <2> QED
    BY <2>1, ChunkAssumption
<1> HIDE DEF p
<1>4. Have(v, c) = Payload(m, 0, k) /\ Len(Have(v, c)) > 0 /\ v.streams[c].state = s
      /\ v.streams[c] # None
  BY <1>1, <1>2, <1>3 DEF Have
<1>5. ~RefusedBy(v, 3, c)
  BY <1>4 DEF RefusedBy
<1>6. s = StateFrom(v, 3, c, Fields(3, s, t), 0, s.extended)
  <2>1. 3 # 0 /\ 3 = 3
    OBVIOUS
  <2> QED
    BY <1>4, <2>1, Zenon DEF StateFrom
<1>7. 3 \in 0..3
  OBVIOUS
<1>8. HeaderFits(v, c, 3, s, t)
  BY <1>4, <1>5, <1>6, <1>7 DEF HeaderFits
<1>9. k \in 0..m.length
  BY MessageIs, ChunkAssumption DEF MessageTyped
<1> QED
  BY <1>4, <1>8, <1>9 DEF ChunkFits

\* The chunks between leave no trace but their payload.
LEMMA ThenOn ==
  ASSUME NEW u \in Sides, NEW c \in AllCsids, NEW s \in States, NEW m \in Messages,
         NEW k \in Nat, k # m.length, NEW j \in Nat
  PROVE  Then(Then(u, c, s, m, k), c, s, m, j) = Then(u, c, s, m, j)
<1> DEFINE a == [state |-> s, payload |-> Payload(m, 0, k)]
           v == Then(u, c, s, m, k)
<1>1. v = [streams |-> [u.streams EXCEPT ![c] = a], chunk_size |-> u.chunk_size,
           expected |-> u.expected]
  BY DEF Then
<1> HIDE DEF a, v
<1>2. v.streams = [u.streams EXCEPT ![c] = a] /\ v.chunk_size = u.chunk_size
      /\ v.expected = u.expected
  BY <1>1
<1>3. \A b : [v.streams EXCEPT ![c] = b] = [u.streams EXCEPT ![c] = b]
  <2> DEFINE x == u.streams
  <2>1. x \in [AllCsids -> Streams \union {None}]
    BY DEF Sides
  <2>2. v.streams = [x EXCEPT ![c] = a]
    BY <1>2
  <2> HIDE DEF x
  <2>3. \A b : [[x EXCEPT ![c] = a] EXCEPT ![c] = b] = [x EXCEPT ![c] = b]
    BY <2>1
  <2> QED
    BY <2>2, <2>3 DEF x
<1>4. Then(v, c, s, m, j) = Then(u, c, s, m, j)
  BY <1>2, <1>3, Zenon DEF Then
<1> QED
  BY <1>4 DEF v

\* No more messages to come than there are.
LEMMA MoreOfNothing ==
  ASSUME NEW u \in Sides
  PROVE  More(u, <<>>) = u
<1> DEFINE e == u.expected
<1>1. /\ e \in Seq(Messages)
      /\ u = [streams |-> u.streams, chunk_size |-> u.chunk_size, expected |-> e]
  BY DEF Sides
<1> HIDE DEF e
<1>2. e \o <<>> = e
  BY <1>1
<1> QED
  BY <1>1, <1>2 DEF More, e

\* Where the chunks of a message of n units begin, in chunks of z.
LEMMA ChunksCount ==
  ASSUME NEW n \in Nat \ {0}, NEW z \in Nat \ {0}
  PROVE  /\ (n - 1) \div z \in Nat
         /\ \A i \in 1..((n - 1) \div z) : i * z \in 1..(n - 1)
         /\ ((n - 1) \div z + 1) * z >= n
         /\ \A i \in Nat : i * z \in Nat /\ (i + 1) * z = i * z + z
<1> DEFINE q == (n - 1) \div z
           r == (n - 1) % z
<1>1. q \in Int /\ r \in 0..(z - 1) /\ n - 1 = z * q + r
  <2>1. n - 1 \in Int
    OBVIOUS
  <2> HIDE DEF q, r
  <2> QED
    BY <2>1, Division DEF q, r
<1> HIDE DEF q, r
<1>2. q \in Nat
  <2>1. q <= -1 => z * q <= -z
    BY <1>1, Multiples
  <2>2. z * q \in Int
    BY <1>1
  <2>3. z * q > -z
    BY <1>1, <2>2
  <2> QED
    BY <1>1, <2>1, <2>2, <2>3
<1>3. ASSUME NEW i \in Nat  PROVE i * z \in Nat /\ (i + 1) * z = i * z + z
  OBVIOUS
<1>4. ASSUME NEW i \in 1..q  PROVE i * z \in 1..(n - 1)
  <2>1. i - 1 \in Nat /\ (i - 1) * z \in Nat /\ i * z = (i - 1) * z + z
    BY <1>2
  <2>2. q - i \in Nat /\ (q - i) * z \in Nat /\ z * q = i * z + (q - i) * z
    BY <1>2
  <2> QED
    BY <1>1, <2>1, <2>2
<1>5. (q + 1) * z >= n
  <2>1. (q + 1) * z = z * q + z /\ z * q \in Nat
    BY <1>2
  <2> QED
    BY <1>1, <2>1
<1> QED
  BY <1>2, <1>3, <1>4, <1>5 DEF q

\* What Chunks counts up to, and that there is such a function.
Strings(f, g, k) == f = [i \in 0..k |-> (IF i = 0 THEN <<>> ELSE f[i - 1]) \o g[i]]

\* A function that strings its pieces together exists.
LEMMA StringsExists ==
  ASSUME NEW n \in Nat, NEW g
  PROVE  \E f : Strings(f, g, n)
<1> DEFINE T == {k \in 1..(n + 1) : \E f : Strings(f, g, k - 1)}
<1>1. 1 \in T
  <2> DEFINE f == [i \in 0..0 |-> <<>> \o g[0]]
  <2>1. f = [i \in 0..0 |-> (IF i = 0 THEN <<>> ELSE f[i - 1]) \o g[i]]
    <3>1. \A i \in 0..0 : i = 0
      OBVIOUS
    <3>2. \A i \in 0..0 : f[i] = <<>> \o g[0]
      BY Zenon
    <3> HIDE DEF f
    <3>3. \A i \in 0..0 : (IF i = 0 THEN <<>> ELSE f[i - 1]) \o g[i] = <<>> \o g[0]
      BY <3>1, Zenon
    <3> QED
      BY <3>2, <3>3, Zenon DEF f
  <2> HIDE DEF f
  <2>2. 1 - 1 = 0 /\ 1 \in 1..(n + 1)
    OBVIOUS
  <2> QED
    BY <2>1, <2>2 DEF Strings
<1>2. ASSUME NEW k \in 1..n, k \in T  PROVE k + 1 \in T
  <2>1. PICK f : Strings(f, g, k - 1)
    BY <1>2
  <2> DEFINE h == [i \in 0..k |-> (IF i = 0 THEN <<>> ELSE f[i - 1]) \o g[i]]
  <2>2. ASSUME NEW i \in 0..(k - 1)  PROVE h[i] = f[i]
    <3>1. i \in 0..k
      OBVIOUS
    <3>2. f[i] = (IF i = 0 THEN <<>> ELSE f[i - 1]) \o g[i]
      BY <2>1, Zenon DEF Strings
    <3>3. h[i] = (IF i = 0 THEN <<>> ELSE f[i - 1]) \o g[i]
      BY <3>1, Zenon
    <3> QED
      BY <3>2, <3>3, Zenon
  <2>3. ASSUME NEW i \in 0..k
        PROVE  (IF i = 0 THEN <<>> ELSE f[i - 1]) \o g[i]
                 = (IF i = 0 THEN <<>> ELSE h[i - 1]) \o g[i]
    <3>1. CASE i = 0
      BY <3>1, Zenon
    <3>2. CASE i # 0
      <4>1. i - 1 \in 0..(k - 1)
        BY <3>2
      <4>2. h[i - 1] = f[i - 1]
        BY <2>2, <4>1, Zenon
      <4> QED
        BY <3>2, <4>2, Zenon
    <3> QED
      BY <3>1, <3>2
  <2>4. Strings(h, g, k)
    BY <2>3, Zenon DEF Strings
  <2>5. k + 1 \in 1..(n + 1) /\ k + 1 - 1 = k
    OBVIOUS
  <2> HIDE DEF h
  <2> QED
    BY <2>4, <2>5
<1>3. n + 1 \in T
  <2> HIDE DEF T
  <2>1. n + 1 \in Nat /\ n + 1 - 1 = n /\ n + 1 \in 1..(n + 1)
    OBVIOUS
  <2>2. 1..(n + 1) \subseteq T
    BY <1>1, <1>2, <2>1, Inductive
  <2> QED
    BY <2>1, <2>2
<1>4. n + 1 - 1 = n
  OBVIOUS
<1> QED
  BY <1>3, <1>4

\* A message that is written whole, to a Reader that waits for it.
WholeFits(u, c, fmt, s, t, m) ==
  /\ HeaderFits(u, c, fmt, s, t)
  /\ m \in Messages /\ Tells(s, m) /\ Have(u, c) = <<>>
  /\ u.expected # <<>> /\ Head(u.expected) = m
  /\ u.chunk_size = size

WholeTaken(u, c, fmt, s, t, m, parts) ==
  /\ parts \in Seq(Parts)
  /\ LeadsTo(parts, u, <<>>, Then(u, c, s, m, m.length))

\* A payload of no units.
LEMMA NoPayload ==
  ASSUME NEW m, NEW a
  PROVE  Payload(m, a, 0) = <<>>
  BY DEF Payload

\* What LeadsTo comes to for one chunk behind the others.
LEMMA LeadsBehind ==
  ASSUME NEW u \in Sides, NEW v \in Sides, NEW z, NEW w \in Seq(Parts), NEW p \in Seq(Parts),
         LeadsTo(w, u, <<>>, v), LeadsTo(p, v, <<>>, z)
  PROVE  LeadsTo(w \o p, u, <<>>, z)
<1>1. <<>> \in Seq(Messages) /\ <<>> \o p = p
  OBVIOUS
<1>2. LeadsTo(w \o p, More(u, <<>>), <<>> \o p, More(v, <<>>))
  BY <1>1, LeadsLater
<1>3. LeadsTo(w \o p, u, p, v)
  BY <1>1, <1>2, MoreOfNothing
<1> QED
  BY <1>3, LeadsOn

\* All chunks of a message, as Writer::write puts them, are read one by one
\* and complete it.
LEMMA MessageComes ==
  ASSUME size \in Nat \ {0}, NEW u, NEW c, NEW fmt, NEW s, NEW t, NEW m,
         WholeFits(u, c, fmt, s, t, m)
  PROVE  WholeTaken(u, c, fmt, s, t, m, Chunks(c, Header(fmt, c, s, t), Header(3, c, s, t), m))
<1> DEFINE header == Header(fmt, c, s, t)
           more == Header(3, c, s, t)
           n == m.length
           parts == Chunks(c, header, more, m)
<1>1. /\ HeaderFits(u, c, fmt, s, t)
      /\ m \in Messages /\ Tells(s, m) /\ Have(u, c) = <<>>
      /\ u.expected # <<>> /\ Head(u.expected) = m
      /\ u.chunk_size = size
  BY DEF WholeFits
<1>2. u \in Sides /\ c \in AllCsids /\ s \in States /\ t \in Timestamps
  BY <1>1 DEF HeaderFits
<1>3. n \in Nat
  BY <1>1, MessageIs, ChunkAssumption DEF MessageTyped
<1>4. ChunkFits(u, c, fmt, s, t, m, 0)
  <2>1. 0 \in 0..n
    BY <1>3
  <2>2. Have(u, c) = Payload(m, 0, 0)
    BY <1>1, NoPayload
  <2> QED
    BY <1>1, <2>1, <2>2 DEF ChunkFits
<1>5. ChunkTaken(u, c, fmt, s, t, m, 0)
  BY <1>4, ChunkComes
<1> DEFINE first == header \o Payload(m, 0, Room(u, m, 0))
<1>6. first \in Seq(Parts) /\ LeadsTo(first, u, <<>>, Then(u, c, s, m, 0 + Room(u, m, 0)))
  BY <1>5 DEF ChunkTaken
<1>7. Room(u, m, 0) = Min(n, size) /\ Min(n, size) \in Nat
  <2>1. n - 0 = n
    BY <1>3
  <2> QED
    BY <1>1, <1>3, <2>1 DEF Room, Min
<1> HIDE DEF header, more
<1>8. CASE n = 0
  <2>1. Room(u, m, 0) = 0 /\ 0 + 0 = 0
    BY <1>7, <1>8 DEF Min
  <2>2. first = header \o <<>>
    BY <2>1, NoPayload
  <2>3. header \in Seq(Parts)
    <3>1. \A f \in {0, 1, 2, 3} : Header(f, c, s, t) \in Seq(Parts)
      <4> SUFFICES ASSUME NEW f \in {0, 1, 2, 3}  PROVE Header(f, c, s, t) \in Seq(Parts)
        OBVIOUS
      <4>1. f \in 0..3
        OBVIOUS
      <4>2. Basic(f, c) \in Parts /\ Fields(f, s, t) \in Parts /\ Extended(t) \in Parts
        BY <1>2, <4>1, PartsAre
      <4> QED
        BY <4>2 DEF Header
    <3>2. fmt \in {0, 1, 2, 3}
      BY <1>1 DEF HeaderFits
    <3> QED
      BY <3>1, <3>2 DEF header
  <2>4. parts = header /\ first = header
    BY <1>8, <2>2, <2>3 DEF Chunks
  <2>5. LeadsTo(parts, u, <<>>, Then(u, c, s, m, n))
    BY <1>6, <1>8, <2>1, <2>4
  <2> HIDE DEF parts
  <2>6. WholeTaken(u, c, fmt, s, t, m, parts)
    BY <2>3, <2>4, <2>5 DEF WholeTaken
  <2> QED
    BY <2>6 DEF parts, header, more
<1>9. CASE n # 0
  <2> DEFINE last == (n - 1) \div size
             chunk == [i \in 0..last |-> Chunk(c, IF i = 0 THEN header ELSE more, m, i * size)]
             f == CHOOSE f : f = [i \in 0..last |->
                     (IF i = 0 THEN <<>> ELSE f[i - 1])
                       \o Chunk(c, IF i = 0 THEN header ELSE more, m, i * size)]
             K(i) == IF i = last + 1 THEN n ELSE i * size
             V(i) == Then(u, c, s, m, K(i))
             T == {i \in 1..(last + 1) : f[i - 1] \in Seq(Parts)
                                         /\ LeadsTo(f[i - 1], u, <<>>, V(i))}
  <2>1. parts = f[last]
    BY <1>9, Zenon DEF Chunks
  <2>2. /\ last \in Nat
        /\ \A i \in 1..last : i * size \in 1..(n - 1)
        /\ (last + 1) * size >= n
        /\ \A i \in Nat : i * size \in Nat /\ (i + 1) * size = i * size + size
    BY <1>3, <1>9, ChunksCount
  <2> HIDE DEF last
  <2>3. f = [i \in 0..last |-> (IF i = 0 THEN <<>> ELSE f[i - 1])
                                 \o Chunk(c, IF i = 0 THEN header ELSE more, m, i * size)]
    <3>1. PICK g : Strings(g, chunk, last)
      BY <2>2, StringsExists
    <3>2. \A i \in 0..last : (IF i = 0 THEN <<>> ELSE g[i - 1]) \o chunk[i]
            = (IF i = 0 THEN <<>> ELSE g[i - 1])
                \o Chunk(c, IF i = 0 THEN header ELSE more, m, i * size)
      BY Zenon
    <3> HIDE DEF chunk
    <3>3. g = [i \in 0..last |-> (IF i = 0 THEN <<>> ELSE g[i - 1])
                                 \o Chunk(c, IF i = 0 THEN header ELSE more, m, i * size)]
      BY <3>1, <3>2, Zenon DEF Strings
    <3> QED
      BY <3>3, Zenon
  <2> HIDE DEF f, chunk
  <2>4. ASSUME NEW i \in 0..last
        PROVE  f[i] = (IF i = 0 THEN <<>> ELSE f[i - 1])
                        \o ((IF i = 0 THEN header ELSE more)
                              \o Payload(m, i * size, Min(n - i * size, size)))
    <3>1. f[i] = (IF i = 0 THEN <<>> ELSE f[i - 1])
                   \o Chunk(c, IF i = 0 THEN header ELSE more, m, i * size)
      BY <2>3, Zenon
    <3> QED
      BY <3>1, Zenon DEF Chunk
  <2>5. 1 \in T
    <3>1. f[0] = <<>> \o (header \o Payload(m, 0 * size, Min(n - 0 * size, size)))
      <4>1. 0 \in 0..last
        BY <2>2
      <4> QED
        BY <2>4, <4>1
    <3>2. 0 * size = 0 /\ n - 0 = n
      BY <1>3
    <3>3. f[0] = first
      <4>1. f[0] = <<>> \o (header \o Payload(m, 0, Min(n, size)))
        BY <3>1, <3>2
      <4>2. f[0] = <<>> \o first
        BY <1>7, <4>1
      <4> HIDE DEF first
      <4> QED
        BY <1>6, <4>2
    <3>4. 0 + Min(n, size) = K(1)
      <4>1. CASE last = 0
        <5>1. K(1) = n /\ n <= size
          BY <1>3, <2>2, <4>1
        <5> QED
          BY <1>3, <5>1 DEF Min
      <4>2. CASE last # 0
        <5>1. 1 \in 1..last /\ 1 # last + 1
          BY <2>2, <4>2
        <5>2. K(1) = size /\ size <= n - 1
          BY <2>2, <5>1
        <5> QED
          BY <1>3, <5>2 DEF Min
      <4> QED
        BY <4>1, <4>2
    <3>5. LeadsTo(f[0], u, <<>>, V(1))
      BY <1>6, <1>7, <3>3, <3>4
    <3>6. 1 - 1 = 0 /\ 1 \in 1..(last + 1)
      BY <2>2
    <3> HIDE DEF V
    <3> QED
      BY <1>6, <3>3, <3>5, <3>6
  <2>6. ASSUME NEW i \in 1..last, i \in T  PROVE i + 1 \in T
    <3> DEFINE k == i * size
               v == V(i)
               p == more \o Payload(m, k, Room(v, m, k))
    <3>1. i \in Nat /\ i # last + 1 /\ i \in 0..last /\ i # 0
      BY <2>2
    <3>2. k \in 1..(n - 1) /\ k \in Nat \ {0} /\ k <= n /\ k # n /\ K(i) = k
      BY <1>3, <2>2, <3>1
    <3> HIDE DEF k
    <3>3. v = [streams |-> [u.streams EXCEPT ![c] = [state |-> s, payload |-> Payload(m, 0, k)]],
               chunk_size |-> size, expected |-> u.expected]
      BY <1>1, <3>2 DEF Then
    <3>4. v \in Sides
      <4>1. k \in Nat
        BY <3>2
      <4> QED
        BY <1>1, <1>2, <3>2, <4>1, ThenTyped
    <3> HIDE DEF v
    <3>5. v.streams[c] = [state |-> s, payload |-> Payload(m, 0, k)]
          /\ v.chunk_size = size /\ v.expected = u.expected
      <4>1. u.streams \in [AllCsids -> Streams \union {None}]
        BY <1>2 DEF Sides
      <4> QED
        BY <1>2, <3>3, <4>1
    <3>6. ChunkFits(v, c, 3, s, t, m, k)
      BY <1>1, <1>2, <3>2, <3>4, <3>5, ContinuesFit
    <3>7. p \in Seq(Parts) /\ LeadsTo(p, v, <<>>, Then(v, c, s, m, k + Room(v, m, k)))
      BY <3>6, ChunkComes DEF ChunkTaken, more
    <3>8. Room(v, m, k) = Min(n - k, size) /\ k + Room(v, m, k) = K(i + 1)
      <4>1. Room(v, m, k) = Min(n - k, size)
        BY <3>5 DEF Room
      <4>2. (i + 1) * size = k + size /\ k \in Nat
        BY <2>2, <3>1 DEF k
      <4>3. CASE i = last
        <5>1. n <= k + size /\ i + 1 = last + 1
          BY <2>2, <4>2, <4>3
        <5>2. Min(n - k, size) = n - k
          BY <1>3, <4>2, <5>1 DEF Min
        <5> QED
          BY <1>3, <4>1, <4>2, <5>1, <5>2
      <4>4. CASE i # last
        <5>1. i + 1 \in 1..last /\ i + 1 # last + 1
          BY <2>2, <4>4
        <5>2. k + size <= n - 1 /\ K(i + 1) = k + size
          <6>1. (i + 1) * size \in 1..(n - 1)
            BY <2>2, <5>1
          <6>2. K(i + 1) = (i + 1) * size
            BY <5>1
          <6> HIDE DEF K
          <6> QED
            BY <4>2, <6>1, <6>2
        <5>3. Min(n - k, size) = size
          BY <1>3, <4>2, <5>2 DEF Min
        <5> QED
          BY <4>1, <5>2, <5>3
      <4> QED
        BY <4>3, <4>4
    <3>9. Then(v, c, s, m, k + Room(v, m, k)) = V(i + 1)
      <4>1. k + Room(v, m, k) \in Nat
        BY <1>3, <3>2, <3>8 DEF Min
      <4>2. k \in Nat /\ k # m.length
        BY <3>2
      <4>3. Then(v, c, s, m, k + Room(v, m, k)) = Then(u, c, s, m, k + Room(v, m, k))
        BY <1>1, <1>2, <3>2, <4>1, <4>2, ThenOn DEF v
      <4> QED
        BY <3>8, <4>3
    <3>10. f[i - 1] \in Seq(Parts) /\ LeadsTo(f[i - 1], u, <<>>, v)
      BY <2>6 DEF v
    <3>11. f[i] = f[i - 1] \o p
      <4>1. f[i] = f[i - 1] \o (more \o Payload(m, k, Min(n - k, size)))
        BY <2>4, <3>1 DEF k
      <4> QED
        BY <3>8, <4>1
    <3>12. LeadsTo(f[i], u, <<>>, V(i + 1)) /\ f[i] \in Seq(Parts)
      <4>1. LeadsTo(p, v, <<>>, V(i + 1))
        BY <3>7, <3>9
      <4> HIDE DEF V, p
      <4>2. LeadsTo(f[i - 1] \o p, u, <<>>, V(i + 1))
        BY <1>2, <3>4, <3>7, <3>10, <4>1, LeadsBehind
      <4> QED
        BY <3>7, <3>10, <3>11, <4>2
    <3>13. i + 1 - 1 = i /\ i + 1 \in 1..(last + 1)
      BY <2>2, <3>1
    <3> HIDE DEF V
    <3> QED
      BY <3>12, <3>13
  <2>7. f[last] \in Seq(Parts) /\ LeadsTo(f[last], u, <<>>, V(last + 1))
    <3> DEFINE L == last + 1
    <3>1. L \in Nat /\ L - 1 = last /\ L \in 1..L
      BY <2>2
    <3> HIDE DEF L, V, T
    <3>2. \A j \in 1..(L - 1) : j \in T => j + 1 \in T
      BY <2>6, <3>1
    <3>3. 1..L \subseteq T
      BY <2>5, <3>1, <3>2, Inductive
    <3>4. L \in T
      BY <3>1, <3>3
    <3>5. f[L - 1] \in Seq(Parts) /\ LeadsTo(f[L - 1], u, <<>>, V(L))
      BY <3>4 DEF T
    <3> QED
      BY <3>1, <3>5 DEF L
  <2>8. parts \in Seq(Parts) /\ LeadsTo(parts, u, <<>>, Then(u, c, s, m, n))
    <3>1. V(last + 1) = Then(u, c, s, m, n)
      OBVIOUS
    <3> HIDE DEF V, parts
    <3> QED
      BY <2>1, <2>7, <3>1
  <2> HIDE DEF parts
  <2>9. WholeTaken(u, c, fmt, s, t, m, parts)
    BY <2>8 DEF WholeTaken
  <2> QED
    BY <2>9 DEF parts, header, more
<1> QED
  BY <1>8, <1>9

(***************************************************************************)
(* The invariant                                                           *)
(***************************************************************************)

\* The Reader that carries forward what the other side does.
MineOf(wr, un, sz) ==
  [streams |-> [c \in AllCsids |-> StreamOf(c, wr[c], un[c])], chunk_size |-> sz,
   expected |-> <<>>]
Mine == MineOf(written, unsent, size)

\* Reading all that is on the wire leads there.
InStep == LeadsTo(wire, Now, <<>>, Mine)

\* Only media is ever in the middle of a message, and a delta that does not fit
\* its field was extended.
InProgress(c, s, left) ==
  c \in Csids /\ MessageOf(c, s) \in MediaOn(c) /\ left < s.length

SideOK(c, s, left) ==
  /\ s = None => left = 0
  /\ left # 0 => InProgress(c, s, left)
  /\ s # None /\ s.delta >= EXTENDED_TIMESTAMP => s.extended
  /\ who = "writer" => left = 0

WriterOK == \A c \in AllCsids : SideOK(c, written[c], unsent[c])

Reading == status = "reading" /\ right

Kept == TypeOK /\ Reading /\ WriterOK /\ InStep

\* Only Writer leaves out an extended timestamp; while none is, all this holds.
ChunkInv ==
  /\ who = "encoder" => ~omitted
  /\ ~omitted => Kept

\* Messages of media are messages.
LEMMA MediaAreMessages ==
  ASSUME NEW c \in Csids, NEW m \in MediaOn(c)
  PROVE  m \in Messages /\ m.kind = "media" /\ m.value = c
<1>1. m \in Messages
  BY DEF Messages
<1> QED
  BY <1>1 DEF MediaOn

\* What the Reader keeps of a chunk stream its writer is at.
LEMMA StreamIs ==
  ASSUME NEW c \in AllCsids, NEW s \in States \union {None}, NEW left \in Nat,
         SideOK(c, s, left)
  PROVE  /\ StreamOf(c, s, left) \in Streams \union {None}
         /\ StreamOf(c, s, left) = None <=> s = None
<1>1. CASE s = None
  BY <1>1 DEF StreamOf
<1>2. CASE s # None
  <2> DEFINE pl == IF left = 0 THEN <<>> ELSE Payload(MessageOf(c, s), 0, s.length - left)
  <2>1. pl \in Seq(Parts)
    <3>1. CASE left = 0
      BY <3>1
    <3>2. CASE left # 0
      <4>1. c \in Csids /\ MessageOf(c, s) \in MediaOn(c) /\ left < s.length
        BY <3>2 DEF SideOK, InProgress
      <4>2. MessageOf(c, s) \in Messages
        BY <4>1, MediaAreMessages
      <4>3. s.length \in Nat
        BY <1>2 DEF States
      <4>4. s.length - left \in Nat /\ 0 \in Nat
        BY <4>1, <4>3
      <4>5. Payload(MessageOf(c, s), 0, s.length - left) \in Seq(Parts)
        BY <4>2, <4>4, PayloadIs
      <4> QED
        BY <3>2, <4>5
    <3> QED
      BY <3>1, <3>2
  <2> HIDE DEF pl
  <2>2. [state |-> s, payload |-> pl] \in Streams
    BY <1>2, <2>1 DEF Streams
  <2>3. StreamOf(c, s, left) = [state |-> s, payload |-> pl]
    BY <1>2, Zenon DEF StreamOf, pl
  <2> QED
    BY <1>2, <2>2, <2>3, ChunkAssumption
<1> QED
  BY <1>1, <1>2

\* The Reader in step with the other side is a Reader, with e to come.
LEMMA MineTyped ==
  ASSUME TypeOK, WriterOK, NEW e \in Seq(Messages)
  PROVE  /\ Mine \in Sides
         /\ More(Mine, e) = [streams |-> Mine.streams, chunk_size |-> size, expected |-> e]
         /\ More(Mine, e) \in Sides
         /\ \A c \in AllCsids : Mine.streams[c] = StreamOf(c, written[c], unsent[c])
<1>1. \A c \in AllCsids : StreamOf(c, written[c], unsent[c]) \in Streams \union {None}
  <2> SUFFICES ASSUME NEW c \in AllCsids
               PROVE  StreamOf(c, written[c], unsent[c]) \in Streams \union {None}
    OBVIOUS
  <2>1. written[c] \in States \union {None} /\ unsent[c] \in Nat /\ SideOK(c, written[c], unsent[c])
    BY DEF TypeOK, WriterOK
  <2> QED
    BY <2>1, StreamIs
<1> DEFINE S == [c \in AllCsids |-> StreamOf(c, written[c], unsent[c])]
<1>2. S \in [AllCsids -> Streams \union {None}]
  BY <1>1, Zenon
<1>3. \A c \in AllCsids : S[c] = StreamOf(c, written[c], unsent[c])
  BY Zenon
<1>4. Mine = [streams |-> S, chunk_size |-> size, expected |-> <<>>]
  BY Zenon DEF Mine, MineOf
<1> HIDE DEF S
<1>5. size \in Sizes /\ <<>> \in Seq(Messages) /\ <<>> \o e = e
  BY DEF TypeOK
<1>6. More(Mine, e) = [streams |-> S, chunk_size |-> size, expected |-> e]
  BY <1>4, <1>5 DEF More
<1> QED
  BY <1>2, <1>3, <1>4, <1>5, <1>6 DEF Sides

\* What is put on the wire behind the rest.
LEMMA Grows ==
  ASSUME InStep, TypeOK, WriterOK, NEW parts \in Seq(Parts), NEW e \in Seq(Messages),
         LeadsTo(parts, More(Mine, e), <<>>, Mine'),
         wire' = wire \o parts, streams' = streams, chunk_size' = chunk_size,
         expected' = expected \o e
  PROVE  InStep'
<1>1. LeadsTo(wire \o parts, More(Now, e), <<>> \o parts, More(Mine, e))
  BY LeadsLater DEF InStep
<1>2. Now' = More(Now, e) /\ <<>> \o parts = parts
  BY DEF Now, More
<1>3. LeadsTo(wire', Now', parts, More(Mine, e))
  BY <1>1, <1>2
<1>4. LeadsTo(wire', Now', <<>>, Mine')
  BY <1>3, LeadsOn
<1> QED
  BY <1>4 DEF InStep

\* One chunk stream is at state s with `left` to go.
Changed(wr, un, c, s, left) ==
  [d \in AllCsids |-> StreamOf(d, [wr EXCEPT ![c] = s][d], [un EXCEPT ![c] = left][d])]

\* One chunk stream changes on both sides alike.
LEMMA MineChanges ==
  ASSUME NEW wr \in [AllCsids -> States \union {None}], NEW un \in [AllCsids -> Nat], NEW sz,
         NEW c \in AllCsids, NEW s, NEW left
  PROVE  [MineOf(wr, un, sz).streams EXCEPT ![c] = StreamOf(c, s, left)]
           = Changed(wr, un, c, s, left)
<1> DEFINE x == StreamOf(c, s, left)
           S == [d \in AllCsids |-> StreamOf(d, wr[d], un[d])]
           Z == [d \in AllCsids |->
                   StreamOf(d, [wr EXCEPT ![c] = s][d], [un EXCEPT ![c] = left][d])]
<1>1. MineOf(wr, un, sz).streams = S
  BY DEF MineOf
<1>2. \A d \in AllCsids : S[d] = StreamOf(d, wr[d], un[d])
  BY Zenon
<1>3. \A d \in AllCsids : Z[d] = IF d = c THEN x ELSE S[d]
  <2> SUFFICES ASSUME NEW d \in AllCsids  PROVE Z[d] = IF d = c THEN x ELSE S[d]
    OBVIOUS
  <2>1. [wr EXCEPT ![c] = s][d] = IF d = c THEN s ELSE wr[d]
    OBVIOUS
  <2>2. [un EXCEPT ![c] = left][d] = IF d = c THEN left ELSE un[d]
    OBVIOUS
  <2>3. Z[d] = StreamOf(d, [wr EXCEPT ![c] = s][d], [un EXCEPT ![c] = left][d])
    BY Zenon
  <2> QED
    BY <1>2, <2>1, <2>2, <2>3, Zenon
<1>4. S \in [AllCsids -> {S[d] : d \in AllCsids}] /\ DOMAIN S = AllCsids /\ DOMAIN Z = AllCsids
  BY Zenon
<1>5. Z = [d \in AllCsids |-> Z[d]] /\ S = [d \in AllCsids |-> S[d]]
  BY Zenon
<1> HIDE DEF x, S, Z
<1>6. [S EXCEPT ![c] = x] = Z
  BY <1>3, <1>4, <1>5
<1>7. Changed(wr, un, c, s, left) = Z
  BY Zenon DEF Changed, Z
<1> QED
  BY <1>1, <1>6, <1>7 DEF x, S

(***************************************************************************)
(* What a chunk makes of the writer's side                                 *)
(***************************************************************************)

\* The header of a new message fits a Reader in step.
LEMMA StartsAgree ==
  ASSUME TypeOK, WriterOK, NEW c \in AllCsids, unsent[c] = 0,
         NEW m \in Messages, NEW fmt \in Formats(written[c], m), NEW e \in Seq(Messages),
         NEW extended,
         extended = IF fmt = 3 THEN written[c].extended
                    ELSE Time(fmt, written[c], m) >= EXTENDED_TIMESTAMP
  PROVE  /\ HeaderAgrees(More(Mine, e), c, fmt, written[c], m, extended)
         /\ Have(More(Mine, e), c) = <<>>
<1> DEFINE u == More(Mine, e)
           p == written[c]
<1>1. u \in Sides /\ u.streams = Mine.streams /\ Mine.streams[c] = StreamOf(c, p, unsent[c])
  BY MineTyped
<1>2. p \in States \union {None}
  BY DEF TypeOK
<1>3. u.streams[c] = StreamOf(c, p, 0)
  BY <1>1
<1> HIDE DEF u, p
<1>4. HeaderAgrees(u, c, fmt, p, m, extended)
  BY <1>1, <1>2, <1>3, HeadersAgree DEF p
<1>5. Have(u, c) = <<>>
  BY <1>3 DEF Have, StreamOf
<1> QED
  BY <1>4, <1>5 DEF u, p

\* A message, other than an Abort, that is complete.
LEMMA CompletedIs ==
  ASSUME TypeOK, WriterOK, NEW c \in AllCsids, NEW s \in States, NEW m \in Messages,
         m.kind # "abort"
  PROVE  Then(More(Mine, <<m>>), c, s, m, m.length)
           = MineOf([written EXCEPT ![c] = s], [unsent EXCEPT ![c] = 0],
                    IF m.kind = "size" THEN m.value ELSE size)
<1> DEFINE u == More(Mine, <<m>>)
           x == [state |-> s, payload |-> <<>>]
           Z == Changed(written, unsent, c, s, 0)
<1>1. <<m>> \in Seq(Messages) /\ Tail(<<m>>) = <<>>
  OBVIOUS
<1>2. u.streams = Mine.streams /\ u.chunk_size = size /\ u.expected = <<m>>
  <2> DEFINE e == <<m>>
  <2>1. e \in Seq(Messages)
    BY <1>1
  <2> HIDE DEF e
  <2>2. More(Mine, e) = [streams |-> Mine.streams, chunk_size |-> size, expected |-> e]
    BY <2>1, MineTyped
  <2> QED
    BY <2>2 DEF e
<1>3. StreamOf(c, s, 0) = x
  BY ChunkAssumption DEF StreamOf
<1>4. [Mine.streams EXCEPT ![c] = StreamOf(c, s, 0)] = Z
  <2>1. written \in [AllCsids -> States \union {None}] /\ unsent \in [AllCsids -> Nat]
    BY DEF TypeOK
  <2> DEFINE left == 0
  <2> HIDE DEF left, Z
  <2>2. [MineOf(written, unsent, size).streams EXCEPT ![c] = StreamOf(c, s, left)]
          = Changed(written, unsent, c, s, left)
    BY <2>1, MineChanges
  <2> QED
    BY <2>2, Zenon DEF Mine, Z, left
<1> HIDE DEF u, x, Z
<1>5. [u.streams EXCEPT ![c] = x] = Z
  BY <1>2, <1>3, <1>4
<1>6. Silenced(Z, m) = Z
  BY DEF Silenced
<1>7. Then(u, c, s, m, m.length)
        = [streams |-> Z, chunk_size |-> IF m.kind = "size" THEN m.value ELSE size,
           expected |-> <<>>]
  <2>1. Then(u, c, s, m, m.length)
          = [streams |-> Silenced([u.streams EXCEPT ![c] = x], m),
             chunk_size |-> IF m.kind = "size" THEN m.value ELSE u.chunk_size,
             expected |-> Tail(u.expected)]
    BY Zenon DEF Then, x
  <2> QED
    BY <1>1, <1>2, <1>5, <1>6, <2>1
<1> QED
  BY <1>7, Zenon DEF MineOf, u, Z, Changed

\* An Abort of what is there of the message of chunk stream m.value.
LEMMA AbortedIs ==
  ASSUME TypeOK, WriterOK, NEW s \in States, NEW m \in Aborts, written[m.value] # None
  PROVE  Then(More(Mine, <<m>>), CONTROL, s, m, m.length)
           = MineOf([written EXCEPT ![CONTROL] = s],
                    [[unsent EXCEPT ![CONTROL] = 0] EXCEPT ![m.value] = 0], size)
<1> DEFINE c == CONTROL
           v == m.value
           u == More(Mine, <<m>>)
           x == [state |-> s, payload |-> <<>>]
           wr == [written EXCEPT ![c] = s]
           un == [unsent EXCEPT ![c] = 0]
           Z == [d \in AllCsids |-> StreamOf(d, wr[d], un[d])]
           un0 == [un EXCEPT ![v] = 0]
           Y == [d \in AllCsids |-> StreamOf(d, wr[d], un0[d])]
<1>1. m \in Messages /\ m.kind = "abort" /\ v \in Csids
  BY DEF Aborts, Messages, Control
<1>2. c \in AllCsids /\ v \in AllCsids /\ v # c
  BY <1>1, ChunkAssumption DEF AllCsids
<1>3. <<m>> \in Seq(Messages) /\ Tail(<<m>>) = <<>>
  BY <1>1
<1>4. u.streams = Mine.streams /\ u.chunk_size = size /\ u.expected = <<m>>
  <2> DEFINE e == <<m>>
  <2>1. e \in Seq(Messages)
    BY <1>3
  <2> HIDE DEF e
  <2>2. More(Mine, e) = [streams |-> Mine.streams, chunk_size |-> size, expected |-> e]
    BY <2>1, MineTyped
  <2> QED
    BY <2>2 DEF e
<1>5. StreamOf(c, s, 0) = x
  BY ChunkAssumption DEF StreamOf
<1>6. [Mine.streams EXCEPT ![c] = StreamOf(c, s, 0)] = Z
  <2>2. Changed(written, unsent, c, s, 0) = Z
    BY Zenon DEF Changed
  <2>1. written \in [AllCsids -> States \union {None}] /\ unsent \in [AllCsids -> Nat]
    BY DEF TypeOK
  <2> QED
    BY <1>2, <2>1, <2>2, MineChanges DEF Mine
<1>7. written \in [AllCsids -> States \union {None}] /\ unsent \in [AllCsids -> Nat]
  BY DEF TypeOK
<1>8. wr[v] = written[v] /\ un[v] = unsent[v] /\ un \in [AllCsids -> Nat]
      /\ wr \in [AllCsids -> States \union {None}]
  BY <1>2, <1>7
<1>9. \A d \in AllCsids : un0[d] = IF d = v THEN 0 ELSE un[d]
  BY <1>2, <1>8
<1> HIDE DEF u, x, wr, un, un0
<1>10. [u.streams EXCEPT ![c] = x] = Z
  BY <1>4, <1>5, <1>6 DEF wr, un
<1>11. Z[v] # None /\ [Z[v] EXCEPT !.payload = <<>>] = StreamOf(v, wr[v], 0)
  <2> DEFINE pl == IF un[v] = 0 THEN <<>>
                   ELSE Payload(MessageOf(v, wr[v]), 0, wr[v].length - un[v])
  <2>1. Z[v] = StreamOf(v, wr[v], un[v])
    BY <1>2, Zenon
  <2>2. StreamOf(v, wr[v], un[v]) = [state |-> wr[v], payload |-> pl]
    BY <1>8, Zenon DEF StreamOf
  <2>3. StreamOf(v, wr[v], 0) = [state |-> wr[v], payload |-> <<>>]
    BY <1>8 DEF StreamOf
  <2>4. StreamOf(v, wr[v], un[v]) # None
    <3>1. SideOK(v, wr[v], un[v])
      BY <1>2, <1>8 DEF WriterOK
    <3> QED
      BY <1>2, <1>7, <1>8, <3>1, StreamIs
  <2> HIDE DEF pl, Z
  <2> QED
    BY <2>1, <2>2, <2>3, <2>4
<1>12. Silenced(Z, m) = [Z EXCEPT ![v].payload = <<>>]
  BY <1>1, <1>11, Zenon DEF Silenced
<1>13. [Z EXCEPT ![v].payload = <<>>] = Y
  <2>1. \A d \in AllCsids : Z[d] = StreamOf(d, wr[d], un[d])
    BY Zenon
  <2>2. \A d \in AllCsids : Y[d] = StreamOf(d, wr[d], un0[d])
    BY Zenon
  <2>3. DOMAIN Z = AllCsids /\ Z = [d \in AllCsids |-> Z[d]]
    BY Zenon
  <2>6. Y = [d \in AllCsids |-> Y[d]]
    BY Zenon
  <2> HIDE DEF Z, Y
  <2>4. [Z EXCEPT ![v].payload = <<>>]
          = [d \in AllCsids |-> IF d = v THEN [Z[v] EXCEPT !.payload = <<>>] ELSE Z[d]]
    BY <1>2, <2>3
  <2>5. \A d \in AllCsids : Y[d] = IF d = v THEN [Z[v] EXCEPT !.payload = <<>>] ELSE Z[d]
    <3> SUFFICES ASSUME NEW d \in AllCsids
                 PROVE  Y[d] = IF d = v THEN [Z[v] EXCEPT !.payload = <<>>] ELSE Z[d]
      OBVIOUS
    <3>1. CASE d = v
      <4>1. un0[d] = 0
        BY <1>9, <3>1
      <4>2. Y[d] = StreamOf(v, wr[v], 0)
        BY <2>2, <3>1, <4>1, Zenon
      <4> QED
        BY <1>11, <3>1, <4>2, Zenon
    <3>2. CASE d # v
      <4>1. un0[d] = un[d]
        BY <1>9, <3>2
      <4>2. Y[d] = StreamOf(d, wr[d], un[d])
        BY <2>2, <4>1, Zenon
      <4> QED
        BY <2>1, <3>2, <4>2, Zenon
    <3> QED
      BY <3>1, <3>2
  <2> QED
    BY <2>4, <2>5, <2>6, Zenon
<1> HIDE DEF Z
<1>14. Then(u, c, s, m, m.length)
         = [streams |-> Y, chunk_size |-> size, expected |-> <<>>]
  <2>1. Then(u, c, s, m, m.length)
          = [streams |-> Silenced([u.streams EXCEPT ![c] = x], m),
             chunk_size |-> IF m.kind = "size" THEN m.value ELSE u.chunk_size,
             expected |-> Tail(u.expected)]
    BY Zenon DEF Then, x
  <2>2. m.kind # "size"
    BY <1>1
  <2> HIDE DEF Y
  <2> QED
    BY <1>3, <1>4, <1>10, <1>12, <1>13, <2>1, <2>2
<1>15. [streams |-> Y, chunk_size |-> size, expected |-> <<>>]
         = MineOf(wr, un0, size)
  BY Zenon DEF MineOf
<1> QED
  BY <1>14, <1>15 DEF u, wr, un, un0

\* A message of media of which n units were written.
LEMMA PartIs ==
  ASSUME TypeOK, WriterOK, NEW c \in Csids, NEW s \in States, NEW m \in MediaOn(c),
         Tells(s, m), NEW n \in Nat, n < m.length
  PROVE  Then(More(Mine, <<>>), c, s, m, n)
           = MineOf([written EXCEPT ![c] = s], [unsent EXCEPT ![c] = m.length - n], size)
<1> DEFINE u == More(Mine, <<>>)
           x == [state |-> s, payload |-> Payload(m, 0, n)]
           left == m.length - n
           Z == Changed(written, unsent, c, s, left)
<1>1. m \in Messages /\ m.value = c /\ c \in AllCsids
  BY MediaAreMessages DEF AllCsids
<1>2. <<>> \in Seq(Messages)
  OBVIOUS
<1>3. u.streams = Mine.streams /\ u.chunk_size = size /\ u.expected = <<>>
  <2> DEFINE e == <<>>
  <2>1. e \in Seq(Messages)
    BY <1>2
  <2> HIDE DEF e
  <2>2. More(Mine, e) = [streams |-> Mine.streams, chunk_size |-> size, expected |-> e]
    BY <2>1, MineTyped
  <2> QED
    BY <2>2 DEF e
<1>4. m.length \in Nat /\ left \in Nat \ {0} /\ m.length - left = n
  <2>1. m.length \in Nat
    BY <1>1, MessageIs, ChunkAssumption DEF MessageTyped
  <2> QED
    BY <2>1
<1>5. s.length = m.length /\ MessageOf(c, s) = m
  BY <1>1 DEF Tells, MessageOf
<1>6. s # None
  BY ChunkAssumption
<1>7. [Mine.streams EXCEPT ![c] = StreamOf(c, s, left)] = Z
  <2>1. written \in [AllCsids -> States \union {None}] /\ unsent \in [AllCsids -> Nat]
    BY DEF TypeOK
  <2> QED
    BY <1>1, <2>1, MineChanges DEF Mine
<1> HIDE DEF u, Z, left
<1>8. StreamOf(c, s, left) = x
  BY <1>4, <1>5, <1>6 DEF StreamOf
<1> HIDE DEF x
<1>9. Then(u, c, s, m, n) = [streams |-> Z, chunk_size |-> size, expected |-> <<>>]
  <2>1. n # m.length
    BY <1>4
  <2>2. Then(u, c, s, m, n) = [streams |-> [u.streams EXCEPT ![c] = x],
                               chunk_size |-> u.chunk_size, expected |-> u.expected]
    BY <2>1, Zenon DEF Then, x
  <2> QED
    BY <1>3, <1>7, <1>8, <2>2
<1>10. [streams |-> Z, chunk_size |-> size, expected |-> <<>>]
         = MineOf([written EXCEPT ![c] = s], [unsent EXCEPT ![c] = left], size)
  BY Zenon DEF MineOf, Z, Changed
<1> QED
  BY <1>9, <1>10 DEF u, left


\* A state of chunk stream c as its writer may be at.
LEMMA SideChanges ==
  ASSUME TypeOK, WriterOK, NEW c \in AllCsids, NEW s \in States, NEW left \in Nat,
         SideOK(c, s, left), who' = who,
         written' = [written EXCEPT ![c] = s], unsent' = [unsent EXCEPT ![c] = left]
  PROVE  /\ WriterOK'
         /\ written' \in [AllCsids -> States \union {None}]
         /\ unsent' \in [AllCsids -> Nat]
<1>1. written \in [AllCsids -> States \union {None}] /\ unsent \in [AllCsids -> Nat]
  BY DEF TypeOK
<1>2. SUFFICES ASSUME NEW d \in AllCsids  PROVE SideOK(d, written[d], unsent[d])'
  <2>1. written' \in [AllCsids -> States \union {None}] /\ unsent' \in [AllCsids -> Nat]
    BY <1>1
  <2> QED
    BY <2>1, Zenon DEF WriterOK
<1>3. SideOK(d, written[d], unsent[d])
  BY DEF WriterOK
<1>4. CASE d = c
  <2>1. written'[d] = s /\ unsent'[d] = left
    BY <1>1, <1>4
  <2>2. SideOK(d, s, left)
    BY <1>4
  <2> QED
    BY <2>1, <2>2, Zenon DEF SideOK, InProgress
<1>5. CASE d # c
  <2>1. written'[d] = written[d] /\ unsent'[d] = unsent[d]
    BY <1>1, <1>5
  <2> QED
    BY <1>3, <2>1, Zenon DEF SideOK, InProgress
<1> QED
  BY <1>4, <1>5

\* Whoever puts on the wire what leads a Reader in step to where it is itself
\* keeps in step.
LEMMA PutKeeps ==
  ASSUME Kept, NEW parts \in Seq(Parts), NEW e \in Seq(Messages),
         LeadsTo(parts, More(Mine, e), <<>>, Mine'),
         Put(parts), expected' = expected \o e, WriterOK',
         written' \in [AllCsids -> States \union {None}], unsent' \in [AllCsids -> Nat],
         size' \in Sizes, begun' \in 0..MaxMessages, omitted' \in BOOLEAN
  PROVE  Kept'
<1>1. TypeOK /\ Reading /\ WriterOK /\ InStep
  BY DEF Kept
<1>2. /\ wire' = wire \o parts /\ Len(wire) + Len(parts) <= MaxWire
      /\ who' = who /\ arrived' = arrived /\ streams' = streams /\ chunk_size' = chunk_size
      /\ status' = status /\ right' = right
  BY DEF Put
<1>3. InStep'
  BY <1>1, <1>2, Grows
<1>4. /\ wire \in Seq(Parts) /\ arrived \in 0..Len(wire) /\ expected \in Seq(Messages)
      /\ MaxWire \in Nat
  BY <1>1, ChunkAssumption DEF TypeOK
<1>5. wire' \in Seq(Parts) /\ Len(wire') <= MaxWire /\ arrived' \in 0..Len(wire')
  BY <1>2, <1>4
<1>6. expected' \in Seq(Messages)
  BY <1>4
<1>7. TypeOK'
  BY <1>1, <1>2, <1>5, <1>6 DEF TypeOK
<1> QED
  BY <1>1, <1>2, <1>3, <1>7 DEF Kept, Reading

\* In the beginning nothing is on the wire and nothing is carried forward.
LEMMA ChunkInit == Init => Kept
<1> SUFFICES ASSUME Init  PROVE Kept
  OBVIOUS
<1>1. TypeOK
  <2>1. DEFAULT_CHUNK_SIZE \in Sizes /\ MaxMessages \in Nat /\ MaxWire \in Nat
    BY ChunkAssumption
  <2> DEFINE N == [c \in AllCsids |-> None]
             Z == [c \in AllCsids |-> 0]
  <2>2. /\ written = N /\ unsent = Z /\ streams = N
        /\ who \in {"encoder", "writer"} /\ size = DEFAULT_CHUNK_SIZE /\ begun = 0
        /\ wire = <<>> /\ arrived = 0 /\ chunk_size = DEFAULT_CHUNK_SIZE
        /\ status = "reading" /\ expected = <<>> /\ right = TRUE /\ omitted = FALSE
    BY Zenon DEF Init
  <2>3. /\ N \in [AllCsids -> States \union {None}] /\ Z \in [AllCsids -> Nat]
        /\ N \in [AllCsids -> Streams \union {None}]
    OBVIOUS
  <2> HIDE DEF N, Z
  <2>4. Len(wire) = 0 /\ wire \in Seq(Parts) /\ expected \in Seq(Messages)
    BY <2>2
  <2> QED
    <3>1. begun \in 0..MaxMessages /\ Len(wire) <= MaxWire /\ arrived \in 0..Len(wire)
      BY <2>1, <2>2, <2>4
    <3>2. status \in {"reading", "refused", "astray"} /\ right \in BOOLEAN /\ omitted \in BOOLEAN
          /\ size \in Sizes /\ chunk_size \in Sizes
      BY <2>1, <2>2
    <3>3. /\ written \in [AllCsids -> States \union {None}] /\ unsent \in [AllCsids -> Nat]
          /\ streams \in [AllCsids -> Streams \union {None}]
      BY <2>2, <2>3, Zenon
    <3> QED
      BY <2>2, <2>4, <3>1, <3>2, <3>3, Zenon DEF TypeOK
<1>2. Reading /\ WriterOK
  BY DEF Init, Reading, WriterOK, SideOK
<1>3. Now = Mine
  <2> DEFINE N == [c \in AllCsids |-> None]
             x == written
             y == unsent
  <2>1. \A c \in AllCsids : StreamOf(c, written[c], unsent[c]) = None
    BY DEF Init, StreamOf
  <2>2. [c \in AllCsids |-> StreamOf(c, written[c], unsent[c])] = N
    BY <2>1, Zenon
  <2>3. streams = N /\ chunk_size = size /\ expected = <<>>
    BY DEF Init
  <2>4. Mine = [streams |-> N, chunk_size |-> size, expected |-> <<>>]
    BY <2>2, Zenon DEF Mine, MineOf
  <2> HIDE DEF N
  <2> QED
    BY <2>3, <2>4 DEF Now
<1>4. wire = <<>>
  BY DEF Init
<1> QED
  BY <1>1, <1>2, <1>3, <1>4, LeadsNowhere DEF Kept, InStep

(***************************************************************************)
(* What the encoder does                                                   *)
(***************************************************************************)

\* What a header makes of a state is one its writer may be at.
LEMMA CarriedOK ==
  ASSUME TypeOK, WriterOK, NEW c \in AllCsids, NEW m \in Messages,
         NEW fmt \in Formats(written[c], m), NEW extended,
         extended = IF fmt = 3 THEN written[c].extended
                    ELSE Time(fmt, written[c], m) >= EXTENDED_TIMESTAMP,
         Carried(fmt, written[c], m, extended) \in States,
         NEW left \in Nat,
         left # 0 => who = "encoder" /\ c \in Csids /\ m \in MediaOn(c) /\ left < m.length
  PROVE  SideOK(c, Carried(fmt, written[c], m, extended), left)
<1> DEFINE p == written[c]
           s == Carried(fmt, p, m, extended)
           D == Delta(p, m)
<1>1. s.delta = (IF fmt = 0 THEN 0 ELSE D) /\ s.extended = extended /\ s # None
      /\ s.length = m.length
  BY ChunkAssumption DEF Carried
<1>2. 0 \in Nat /\ EXTENDED_TIMESTAMP \in Nat \ {0}
  BY ChunkAssumption
<1>3. s.delta >= EXTENDED_TIMESTAMP => s.extended
  <2>1. CASE fmt = 0
    BY <1>1, <1>2, <2>1
  <2>2. CASE fmt = 3
    <3>1. p # None /\ p.delta = D
      BY <2>2 DEF Formats
    <3>2. SideOK(c, p, unsent[c])
      BY DEF WriterOK
    <3>3. s.delta = D /\ s.extended = p.extended
      BY <1>1, <2>2
    <3> QED
      BY <3>1, <3>2, <3>3 DEF SideOK
  <2>3. CASE fmt # 0 /\ fmt # 3
    <3>1. Time(fmt, p, m) = D
      BY <2>3 DEF Time
    <3>2. s.delta = D /\ s.extended = (D >= EXTENDED_TIMESTAMP)
      BY <1>1, <2>3, <3>1
    <3> QED
      BY <3>2
  <2> QED
    BY <2>1, <2>2, <2>3
<1>4. left # 0 => InProgress(c, s, left)
  <2> SUFFICES ASSUME left # 0  PROVE InProgress(c, s, left)
    OBVIOUS
  <2>1. m.value = c /\ m \in Messages
    BY MediaAreMessages
  <2>2. MessageOf(c, s) = m
    BY <2>1, MessageIs DEF MessageTyped, MessageOf, Carried
  <2> HIDE DEF s
  <2> QED
    BY <1>1, <2>2 DEF InProgress
<1>5. who = "writer" => left = 0
  OBVIOUS
<1> HIDE DEF s
<1>6. SideOK(c, s, left)
  BY <1>1, <1>3, <1>4, <1>5 DEF SideOK
<1> QED
  BY <1>6 DEF s

\* What Begin puts on the wire is the chunk that it leaves a Reader at.
Begun(c, m, fmt, extended) ==
  Chunk(c, Header(fmt, c, Carried(fmt, written[c], m, extended), Time(fmt, written[c], m)), m, 0)

\* The first chunk of a message is read as such, with those to come if it is
\* all there is of its message.
LEMMA FirstIsTaken ==
  ASSUME Kept, NEW c \in AllCsids, unsent[c] = 0, NEW m \in Messages,
         NEW fmt \in Formats(written[c], m), NEW extended,
         extended = IF fmt = 3 THEN written[c].extended
                    ELSE Time(fmt, written[c], m) >= EXTENDED_TIMESTAMP,
         NEW e \in Seq(Messages), m.length <= size => e = <<m>>
  PROVE  /\ Carried(fmt, written[c], m, extended) \in States
         /\ Tells(Carried(fmt, written[c], m, extended), m)
         /\ Begun(c, m, fmt, extended) \in Seq(Parts)
         /\ LeadsTo(Begun(c, m, fmt, extended), More(Mine, e), <<>>,
                    Then(More(Mine, e), c, Carried(fmt, written[c], m, extended), m,
                         Min(m.length, size)))
<1> DEFINE u == More(Mine, e)
           s == Carried(fmt, written[c], m, extended)
           t == Time(fmt, written[c], m)
<1>1. TypeOK /\ WriterOK
  BY DEF Kept
<1>2. HeaderFits(u, c, fmt, s, t) /\ Tells(s, m) /\ Have(u, c) = <<>>
  BY <1>1, StartsAgree DEF HeaderAgrees
<1>3. u.chunk_size = size /\ u.expected = e
  BY <1>1, MineTyped
<1> HIDE DEF u, s, t
<1>4. m.length \in Nat /\ m.length - 0 = m.length /\ 0 \in 0..m.length
  BY MessageIs, ChunkAssumption DEF MessageTyped
<1>5. m.length - 0 <= u.chunk_size => u.expected # <<>> /\ Head(u.expected) = m
  BY <1>3, <1>4
<1>6. Have(u, c) = Payload(m, 0, 0)
  BY <1>2, NoPayload
<1>7. ChunkFits(u, c, fmt, s, t, m, 0)
  BY <1>2, <1>4, <1>5, <1>6 DEF ChunkFits
<1>8. ChunkTaken(u, c, fmt, s, t, m, 0)
  BY <1>7, ChunkComes
<1> DEFINE n == Room(u, m, 0)
<1>9. n = Min(m.length, size) /\ n \in Nat /\ 0 + n = n
  <2>1. size \in Nat
    BY <1>1, ChunkAssumption DEF TypeOK
  <2> QED
    BY <1>3, <1>4, <2>1 DEF Room, Min
<1>10. Begun(c, m, fmt, extended) = Header(fmt, c, s, t) \o Payload(m, 0, n)
  BY <1>4, <1>9, Zenon DEF Begun, Chunk, s, t
<1>11. /\ Header(fmt, c, s, t) \o Payload(m, 0, n) \in Seq(Parts)
       /\ LeadsTo(Header(fmt, c, s, t) \o Payload(m, 0, n), u, <<>>, Then(u, c, s, m, 0 + n))
  BY <1>8, Zenon DEF ChunkTaken
<1>12. s \in States
  BY <1>2 DEF HeaderFits
<1> HIDE DEF n
<1> QED
  BY <1>2, <1>9, <1>10, <1>11, <1>12, Zenon DEF u, s

\* Media and Resize keep the invariant.
LEMMA BeginKeeps ==
  ASSUME Kept, who = "encoder", NEW c \in AllCsids, NEW m \in Messages, NEW fmt \in 0..3,
         Begin(c, m, fmt), omitted' \in BOOLEAN,
         \/ c \in Csids /\ m \in MediaOn(c) /\ size' = size
         \/ c = CONTROL /\ m \in Resizes /\ size' = m.value
  PROVE  Kept'
<1> DEFINE p == written[c]
           t == Time(fmt, p, m)
           x == IF fmt = 3 THEN p.extended ELSE t >= EXTENDED_TIMESTAMP
           s == Carried(fmt, p, m, x)
           n == Min(m.length, size)
           left == m.length - n
           e == IF left = 0 THEN <<m>> ELSE <<>>
           parts == Begun(c, m, fmt, x)
<1>1. TypeOK /\ WriterOK
  BY DEF Kept
<1>2. /\ unsent[c] = 0 /\ begun < MaxMessages /\ begun' = begun + 1
      /\ fmt \in Formats(p, m) /\ Put(parts)
      /\ written' = [written EXCEPT ![c] = s]
      /\ unsent' = [unsent EXCEPT ![c] = left]
      /\ expected' = IF left = 0 THEN Append(expected, m) ELSE expected
  BY Zenon DEF Begin, Begins, Leaves, Begun
<1>3. m.length \in Nat /\ size \in Sizes /\ Sizes \subseteq Nat \ {0}
  BY <1>1, MessageIs, ChunkAssumption DEF MessageTyped, TypeOK
<1>4. n \in Nat /\ left \in Nat /\ (left = 0 <=> n = m.length) /\ (left = 0 <=> m.length <= size)
      /\ n <= m.length /\ (left # 0 => n \in Nat \ {0} /\ left < m.length)
  BY <1>3 DEF Min
<1>5. e \in Seq(Messages) /\ (m.length <= size => e = <<m>>)
  BY <1>4
<1>6. s \in States /\ Tells(s, m) /\ parts \in Seq(Parts)
      /\ LeadsTo(parts, More(Mine, e), <<>>, Then(More(Mine, e), c, s, m, n))
  <2> HIDE DEF e
  <2> QED
    BY <1>2, <1>5, FirstIsTaken
<1>7. left # 0 => c \in Csids /\ m \in MediaOn(c)
  BY <1>3, <1>4 DEF Resizes
<1>8. m.kind # "abort" /\ size' = (IF m.kind = "size" THEN m.value ELSE size)
      /\ size' \in Sizes
  <2>1. CASE c \in Csids /\ m \in MediaOn(c) /\ size' = size
    BY <1>3, <2>1, MediaAreMessages
  <2>2. CASE c = CONTROL /\ m \in Resizes /\ size' = m.value
    BY <2>2 DEF Resizes
  <2> QED
    BY <2>1, <2>2
<1>9. Then(More(Mine, e), c, s, m, n)
        = MineOf([written EXCEPT ![c] = s], [unsent EXCEPT ![c] = left], size')
  <2> HIDE DEF n, left, s
  <2>1. CASE left = 0
    <3>1. Then(More(Mine, <<m>>), c, s, m, m.length)
            = MineOf([written EXCEPT ![c] = s], [unsent EXCEPT ![c] = 0],
                     IF m.kind = "size" THEN m.value ELSE size)
      BY <1>1, <1>6, <1>8, CompletedIs
    <3> QED
      BY <1>4, <1>8, <2>1, <3>1
  <2>2. CASE left # 0
    <3>1. n < m.length /\ m.length - n = left /\ e = <<>>
      BY <1>3, <1>4, <2>2 DEF left
    <3>2. c \in Csids /\ m \in MediaOn(c) /\ size' = size
      BY <1>7, <1>8, <2>2, MediaAreMessages
    <3>3. Then(More(Mine, <<>>), c, s, m, n)
            = MineOf([written EXCEPT ![c] = s], [unsent EXCEPT ![c] = m.length - n], size)
      BY <1>1, <1>4, <1>6, <3>1, <3>2, PartIs
    <3> QED
      BY <3>1, <3>2, <3>3
  <2> QED
    BY <2>1, <2>2
<1>10. SideOK(c, s, left)
  <2> HIDE DEF left
  <2>1. s \in States
    BY <1>6
  <2> QED
    BY <1>1, <1>2, <1>4, <1>7, <2>1, CarriedOK
<1> HIDE DEF s, left, parts, n
<1>11. expected' = expected \o e
  <2>1. expected \in Seq(Messages)
    BY <1>1 DEF TypeOK
  <2> QED
    BY <1>2, <2>1
<1> HIDE DEF e
<1>12. who' = who
  BY <1>2 DEF Put
<1>13. /\ WriterOK' /\ written' \in [AllCsids -> States \union {None}]
       /\ unsent' \in [AllCsids -> Nat]
  BY <1>1, <1>2, <1>4, <1>6, <1>10, <1>12, SideChanges
<1>14. LeadsTo(parts, More(Mine, e), <<>>, Mine')
  <2>1. Mine' = MineOf([written EXCEPT ![c] = s], [unsent EXCEPT ![c] = left], size')
    BY <1>2, Zenon DEF Mine
  <2> QED
    BY <1>6, <1>9, <2>1
<1>15. begun' \in 0..MaxMessages
  BY <1>1, <1>2, ChunkAssumption DEF TypeOK
<1> QED
  BY <1>2, <1>5, <1>6, <1>8, <1>11, <1>13, <1>14, <1>15, PutKeeps

\* Continue keeps the invariant.
LEMMA ContinueKeeps ==
  ASSUME Kept, NEW c \in Csids, Continue(c)
  PROVE  Kept'
<1> DEFINE s == written[c]
           k == unsent[c]
           m == MessageOf(c, s)
           from == m.length - k
           n == Min(k, size)
           left == k - n
           e == IF left = 0 THEN <<m>> ELSE <<>>
           u == More(Mine, e)
           t == s.timestamp
           parts == Chunk(c, Header(3, c, s, t), m, from)
<1>1. TypeOK /\ WriterOK
  BY DEF Kept
<1>2. /\ k > 0 /\ Put(parts) /\ unsent' = [unsent EXCEPT ![c] = left]
      /\ expected' = IF left = 0 THEN Append(expected, m) ELSE expected
      /\ written' = written /\ size' = size /\ begun' = begun /\ omitted' = omitted
      /\ who = "encoder"
  BY Zenon DEF Continue, Leaves, MessageOf
<1>3. /\ c \in AllCsids /\ written \in [AllCsids -> States \union {None}]
      /\ unsent \in [AllCsids -> Nat]
      /\ size \in Sizes /\ Sizes \subseteq Nat \ {0}
      /\ expected \in Seq(Messages) /\ begun \in 0..MaxMessages /\ omitted \in BOOLEAN
  BY <1>1, ChunkAssumption DEF TypeOK, AllCsids
<1>4. SideOK(c, s, k) /\ k \in Nat
  BY <1>1, <1>3 DEF WriterOK
<1>5. s \in States /\ m \in MediaOn(c) /\ k < s.length /\ s.length \in Nat /\ t \in Timestamps
  <2>1. s # None /\ m \in MediaOn(c) /\ k < s.length
    BY <1>2, <1>4 DEF SideOK, InProgress
  <2>2. s \in States
    BY <1>3, <2>1
  <2> QED
    BY <2>1, <2>2 DEF States
<1>6. m \in Messages /\ m.kind = "media" /\ Tells(s, m) /\ m.length = s.length
  <2>1. m \in Messages /\ m.kind = "media"
    BY <1>5, MediaAreMessages
  <2> QED
    BY <2>1 DEF Tells, MessageOf
<1> HIDE DEF s, m, k, t
<1>7. /\ from \in Nat \ {0} /\ from < m.length /\ m.length - from = k
      /\ n \in Nat \ {0} /\ left \in Nat /\ from + n \in Nat /\ from + n = m.length - left
      /\ left < m.length /\ (k <= size <=> left = 0)
  <2>1. k \in Nat \ {0} /\ size \in Nat \ {0} /\ m.length \in Nat /\ k < m.length
    BY <1>2, <1>3, <1>4, <1>5, <1>6
  <2>2. n \in {k, size} /\ n <= k /\ (k <= size <=> n = k)
    BY <2>1 DEF Min
  <2> HIDE DEF n
  <2> QED
    BY <2>1, <2>2
<1>8. e \in Seq(Messages)
  BY <1>6
<1>9. /\ u \in Sides /\ u.chunk_size = size /\ u.expected = e
      /\ u.streams[c] = StreamOf(c, s, k)
  <2> HIDE DEF e
  <2>1. Mine.streams[c] = StreamOf(c, s, k)
    BY <1>1, <1>3, <1>8, MineTyped DEF s, k
  <2> QED
    BY <1>1, <1>8, <2>1, MineTyped
<1>10. StreamOf(c, s, k) = [state |-> s, payload |-> Payload(m, 0, from)]
  <2>1. s # None /\ k # 0
    BY <1>2, <1>4, <1>5, ChunkAssumption
  <2>2. from = s.length - k
    BY <1>6
  <2> HIDE DEF from
  <2> QED
    BY <2>1, <2>2 DEF StreamOf, m
<1>11. m.length - from <= u.chunk_size => u.expected # <<>> /\ Head(u.expected) = m
  BY <1>7, <1>9
<1> HIDE DEF e, from, n, left
<1>12. ChunkFits(u, c, 3, s, t, m, from)
  <2>1. u.streams[c] = [state |-> s, payload |-> Payload(m, 0, from)]
    BY <1>9, <1>10
  <2>2. from <= m.length
    BY <1>5, <1>6, <1>7
  <2> HIDE DEF u
  <2> QED
    BY <1>3, <1>5, <1>6, <1>7, <1>9, <1>11, <2>1, <2>2, ContinuesFit
<1>13. Room(u, m, from) = n
  BY <1>7, <1>9 DEF Room, n
<1>14. parts = Header(3, c, s, t) \o Payload(m, from, n)
  BY <1>7, Zenon DEF Chunk, n
<1>15. parts \in Seq(Parts) /\ LeadsTo(parts, u, <<>>, Then(u, c, s, m, from + n))
  <2> HIDE DEF u
  <2>1. ChunkTaken(u, c, 3, s, t, m, from)
    BY <1>12, ChunkComes
  <2> QED
    BY <1>13, <1>14, <2>1, Zenon DEF ChunkTaken
<1>16. Then(u, c, s, m, from + n)
         = MineOf([written EXCEPT ![c] = s], [unsent EXCEPT ![c] = left], size)
  <2>1. CASE left = 0
    <3>1. from + n = m.length /\ e = <<m>>
      BY <1>5, <1>6, <1>7, <2>1 DEF e
    <3>2. m.kind # "abort" /\ m.kind # "size"
      BY <1>6
    <3>3. Then(More(Mine, <<m>>), c, s, m, m.length)
            = MineOf([written EXCEPT ![c] = s], [unsent EXCEPT ![c] = 0],
                     IF m.kind = "size" THEN m.value ELSE size)
      BY <1>1, <1>3, <1>5, <1>6, <3>2, CompletedIs
    <3> QED
      BY <2>1, <3>1, <3>2, <3>3
  <2>2. CASE left # 0
    <3> DEFINE j == from + n
    <3>1. j \in Nat /\ j < m.length /\ m.length - j = left /\ e = <<>>
      BY <1>5, <1>6, <1>7, <2>2 DEF e
    <3> HIDE DEF j
    <3>2. Then(More(Mine, <<>>), c, s, m, j)
            = MineOf([written EXCEPT ![c] = s], [unsent EXCEPT ![c] = m.length - j], size)
      BY <1>1, <1>5, <1>6, <3>1, PartIs
    <3>3. Then(u, c, s, m, j)
            = MineOf([written EXCEPT ![c] = s], [unsent EXCEPT ![c] = left], size)
      BY <3>1, <3>2
    <3> QED
      BY <3>3 DEF j
  <2> QED
    BY <2>1, <2>2
<1>17. SideOK(c, s, left)
  <2>1. InProgress(c, s, left)
    BY <1>5, <1>6, <1>7 DEF InProgress, m
  <2>2. s # None /\ who # "writer"
    BY <1>2, <1>5, ChunkAssumption
  <2> QED
    BY <1>4, <2>1, <2>2 DEF SideOK
<1>18. written' = [written EXCEPT ![c] = s]
  BY <1>2, <1>3 DEF s
<1>19. expected' = expected \o e
  BY <1>2, <1>3 DEF e
<1>20. who' = who
  BY <1>2 DEF Put
<1>21. /\ WriterOK' /\ written' \in [AllCsids -> States \union {None}]
       /\ unsent' \in [AllCsids -> Nat]
  BY <1>1, <1>2, <1>3, <1>5, <1>7, <1>17, <1>18, <1>20, SideChanges
<1> HIDE DEF parts
<1>22. LeadsTo(parts, More(Mine, e), <<>>, Mine')
  <2>1. Mine' = MineOf([written EXCEPT ![c] = s], [unsent EXCEPT ![c] = left], size)
    BY <1>2, <1>18, Zenon DEF Mine
  <2> QED
    BY <1>15, <1>16, <2>1
<1> QED
  BY <1>2, <1>3, <1>8, <1>15, <1>19, <1>21, <1>22, PutKeeps

\* AbortMessage keeps the invariant: what it gives up is dropped on both sides.
LEMMA AbortKeeps ==
  ASSUME Kept, NEW m \in Aborts, NEW fmt \in 0..3, AbortMessage(m, fmt)
  PROVE  Kept'
<1> DEFINE c == CONTROL
           v == m.value
           p == written[c]
           t == Time(fmt, p, m)
           x == IF fmt = 3 THEN p.extended ELSE t >= EXTENDED_TIMESTAMP
           s == Carried(fmt, p, m, x)
           e == <<m>>
           parts == Begun(c, m, fmt, x)
<1>1. TypeOK /\ WriterOK
  BY DEF Kept
<1>2. m \in Messages /\ m.length = 1 /\ v \in Csids
  BY DEF Messages, Control, Aborts
<1>3. /\ c \in AllCsids /\ v \in AllCsids /\ v # c /\ c \notin Csids
      /\ written \in [AllCsids -> States \union {None}] /\ unsent \in [AllCsids -> Nat]
      /\ size \in Sizes /\ Sizes \subseteq Nat \ {0}
      /\ expected \in Seq(Messages) /\ omitted \in BOOLEAN
  BY <1>1, <1>2, ChunkAssumption DEF TypeOK, AllCsids
<1>4. /\ who = "encoder" /\ unsent[v] > 0 /\ begun < MaxMessages /\ begun' = begun + 1
      /\ fmt \in Formats(p, m) /\ Put(parts)
      /\ written' = [written EXCEPT ![c] = s]
      /\ unsent' = [unsent EXCEPT ![v] = 0]
      /\ expected' = Append(expected, m)
      /\ size' = size /\ omitted' = omitted
  BY Zenon DEF AbortMessage, Begins, Begun
<1>5. SideOK(c, p, unsent[c]) /\ SideOK(v, written[v], unsent[v])
  BY <1>1, <1>3 DEF WriterOK
<1>6. unsent[c] = 0 /\ written[v] # None
  <2>1. unsent[v] # 0
    BY <1>3, <1>4
  <2>2. unsent[c] # 0 => c \in Csids
    BY <1>5 DEF SideOK, InProgress
  <2>3. written[v] = None => unsent[v] = 0
    BY <1>5 DEF SideOK
  <2> QED
    BY <1>3, <2>1, <2>2, <2>3
<1>7. e \in Seq(Messages) /\ expected' = expected \o e
  <2>1. m \in Messages /\ expected \in Seq(Messages) /\ expected' = Append(expected, m)
    BY <1>2, <1>3, <1>4
  <2> QED
    BY <2>1
<1>8. Min(m.length, size) = m.length
  BY <1>2, <1>3 DEF Min
<1>9. s \in States /\ parts \in Seq(Parts)
      /\ LeadsTo(parts, More(Mine, e), <<>>, Then(More(Mine, e), c, s, m, m.length))
  <2>1. m.length <= size => e = <<m>>
    OBVIOUS
  <2> HIDE DEF e
  <2>2. s \in States /\ parts \in Seq(Parts)
        /\ LeadsTo(parts, More(Mine, e), <<>>, Then(More(Mine, e), c, s, m, Min(m.length, size)))
    BY <1>2, <1>3, <1>4, <1>6, <1>7, <2>1, FirstIsTaken
  <2> QED
    BY <1>8, <2>2
<1>10. SideOK(c, s, 0)
  <2> DEFINE left == 0
  <2>1. left \in Nat /\ left = 0
    OBVIOUS
  <2> HIDE DEF left
  <2>2. SideOK(c, s, left)
    BY <1>1, <1>2, <1>3, <1>4, <1>9, <2>1, CarriedOK
  <2> QED
    BY <2>1, <2>2
<1> HIDE DEF s, parts
<1>11. Then(More(Mine, e), c, s, m, m.length)
         = MineOf([written EXCEPT ![c] = s],
                  [[unsent EXCEPT ![c] = 0] EXCEPT ![v] = 0], size)
  BY <1>1, <1>6, <1>9, AbortedIs
<1>12. [[unsent EXCEPT ![c] = 0] EXCEPT ![v] = 0] = [unsent EXCEPT ![v] = 0]
  <2>1. [unsent EXCEPT ![c] = 0] = unsent
    BY <1>3, <1>6
  <2> QED
    BY <2>1
<1>13. Mine' = MineOf([written EXCEPT ![c] = s], [unsent EXCEPT ![v] = 0], size)
  BY <1>4, Zenon DEF Mine
<1> HIDE DEF e
<1>14. LeadsTo(parts, More(Mine, e), <<>>, Mine')
  BY <1>9, <1>11, <1>12, <1>13
<1>15. written' \in [AllCsids -> States \union {None}] /\ unsent' \in [AllCsids -> Nat]
  BY <1>3, <1>4, <1>9
<1>16. who' = who
  BY <1>4 DEF Put
<1>17. WriterOK'
  <2> SUFFICES ASSUME NEW d \in AllCsids  PROVE SideOK(d, written[d], unsent[d])'
    BY Zenon DEF WriterOK
  <2>1. SideOK(d, written[d], unsent[d])
    BY <1>1 DEF WriterOK
  <2>2. CASE d = c
    <3>1. written'[d] = s /\ unsent'[d] = 0
      BY <1>3, <1>4, <1>6, <2>2
    <3>2. SideOK(d, s, 0)
      BY <1>10, <2>2
    <3> QED
      BY <1>16, <3>1, <3>2, Zenon DEF SideOK, InProgress
  <2>3. CASE d = v
    <3>1. written'[d] = written[d] /\ unsent'[d] = 0
      BY <1>3, <1>4, <2>3
    <3>2. SideOK(d, written[d], 0)
      BY <2>1 DEF SideOK
    <3> QED
      BY <1>16, <3>1, <3>2, Zenon DEF SideOK, InProgress
  <2>4. CASE d # c /\ d # v
    <3>1. written'[d] = written[d] /\ unsent'[d] = unsent[d]
      BY <1>3, <1>4, <2>4
    <3> QED
      BY <1>16, <2>1, <3>1, Zenon DEF SideOK, InProgress
  <2> QED
    BY <2>2, <2>3, <2>4
<1>18. begun' \in 0..MaxMessages
  BY <1>1, <1>4, ChunkAssumption DEF TypeOK
<1> QED
  BY <1>3, <1>4, <1>7, <1>9, <1>14, <1>15, <1>17, <1>18, PutKeeps

(***************************************************************************)
(* What Writer does                                                        *)
(***************************************************************************)

\* The format that Writer picks is one that may be read.
LEMMA FormatIsOne ==
  ASSUME NEW p, NEW m
  PROVE  Format(p, m) \in Formats(p, m)
  BY DEF Format, Formats

\* It repeats the extended timestamp as a Reader takes it to, unless it left
\* one out.
LEMMA WriterExtends ==
  ASSUME NEW c \in AllCsids, NEW p \in States \union {None}, NEW left, SideOK(c, p, left),
         NEW m \in Messages, NEW fmt \in Formats(p, m), NEW extended \in BOOLEAN,
         extended <=> Time(fmt, p, m) >= EXTENDED_TIMESTAMP,
         ~(fmt = 3 /\ p.extended /\ ~extended)
  PROVE  extended = IF fmt = 3 THEN p.extended ELSE Time(fmt, p, m) >= EXTENDED_TIMESTAMP
<1>1. CASE fmt # 3
  <2>1. (Time(fmt, p, m) >= EXTENDED_TIMESTAMP) \in BOOLEAN
    OBVIOUS
  <2> QED
    BY <1>1, <2>1
<1>2. CASE fmt = 3
  <2>1. p # None /\ p.delta = Delta(p, m) /\ Time(fmt, p, m) = Delta(p, m)
    BY <1>2 DEF Formats, Time
  <2>2. p \in States /\ p.extended \in BOOLEAN
    <3>1. p \in States
      BY <2>1
    <3> QED
      BY <3>1 DEF States
  <2>3. extended => p.extended
    BY <2>1 DEF SideOK
  <2>4. p.extended => extended
    BY <1>2
  <2>5. extended = p.extended
    BY <2>2, <2>3, <2>4
  <2> QED
    BY <1>2, <2>5
<1> QED
  BY <1>1, <1>2

\* Writer::write keeps the invariant, unless it leaves out an extended timestamp.
LEMMA WriteKeeps ==
  ASSUME Kept, NEW c \in AllCsids, NEW m \in Messages, m.kind # "abort",
         Write(c, m), ~omitted', size' \in Sizes,
         size' = IF m.kind = "size" THEN m.value ELSE size
  PROVE  Kept'
<1> DEFINE p == written[c]
           fmt == Format(p, m)
           t == Time(fmt, p, m)
           x == t >= EXTENDED_TIMESTAMP
           s == Carried(fmt, p, m, x)
           e == <<m>>
           u == More(Mine, e)
           parts == Chunks(c, Header(fmt, c, s, t), Header(3, c, s, t), m)
<1>1. TypeOK /\ WriterOK
  BY DEF Kept
<1>2. /\ who = "writer" /\ begun < MaxMessages /\ begun' = begun + 1
      /\ Put(parts) /\ written' = [written EXCEPT ![c] = s]
      /\ expected' = Append(expected, m)
      /\ omitted' = (omitted \/ (fmt = 3 /\ p.extended /\ ~s.extended))
      /\ unsent' = unsent
  BY Zenon DEF Write, Begins
<1>3. /\ written \in [AllCsids -> States \union {None}] /\ unsent \in [AllCsids -> Nat]
      /\ size \in Nat \ {0} /\ expected \in Seq(Messages)
  BY <1>1, ChunkAssumption DEF TypeOK
<1>4. SideOK(c, p, unsent[c]) /\ unsent[c] = 0 /\ p \in States \union {None}
  <2>1. SideOK(c, p, unsent[c])
    BY <1>1 DEF WriterOK
  <2> QED
    BY <1>2, <1>3, <2>1 DEF SideOK
<1>5. fmt \in Formats(p, m)
  BY FormatIsOne
<1>6. x = IF fmt = 3 THEN p.extended ELSE t >= EXTENDED_TIMESTAMP
  <2>1. s.extended = x /\ x \in BOOLEAN
    BY DEF Carried
  <2>2. ~(fmt = 3 /\ p.extended /\ ~x)
    BY <1>2, <2>1
  <2>3. x <=> t >= EXTENDED_TIMESTAMP
    OBVIOUS
  <2> HIDE DEF x, fmt, p
  <2> QED
    BY <1>4, <1>5, <2>1, <2>2, <2>3, WriterExtends
<1> HIDE DEF x, fmt
<1>7. e \in Seq(Messages) /\ expected' = expected \o e
  <2>1. m \in Messages /\ expected \in Seq(Messages) /\ expected' = Append(expected, m)
    BY <1>2, <1>3
  <2> QED
    BY <2>1
<1>8. HeaderFits(u, c, fmt, s, t) /\ Tells(s, m) /\ Have(u, c) = <<>>
      /\ u.chunk_size = size /\ u.expected = e
  <2> HIDE DEF e
  <2>1. HeaderAgrees(u, c, fmt, p, m, x) /\ Have(u, c) = <<>>
    BY <1>1, <1>4, <1>5, <1>6, <1>7, StartsAgree
  <2>2. u.chunk_size = size /\ u.expected = e
    BY <1>1, <1>7, MineTyped
  <2> QED
    BY <2>1, <2>2, Zenon DEF HeaderAgrees
<1>9. s \in States
  BY <1>8 DEF HeaderFits
<1>10. SideOK(c, s, 0)
  <2> DEFINE left == 0
  <2>1. left \in Nat /\ left = 0
    OBVIOUS
  <2> HIDE DEF left
  <2>2. SideOK(c, s, left)
    BY <1>1, <1>5, <1>6, <1>9, <2>1, CarriedOK
  <2> QED
    BY <2>1, <2>2
<1> HIDE DEF s, t
<1>11. WholeFits(u, c, fmt, s, t, m)
  <2>1. u.expected # <<>> /\ Head(u.expected) = m
    BY <1>8
  <2> HIDE DEF u
  <2> QED
    BY <1>8, <2>1 DEF WholeFits
<1>12. parts \in Seq(Parts) /\ LeadsTo(parts, u, <<>>, Then(u, c, s, m, m.length))
  <2> HIDE DEF u
  <2>1. WholeTaken(u, c, fmt, s, t, m, parts)
    BY <1>3, <1>11, MessageComes
  <2> HIDE DEF parts
  <2> QED
    BY <2>1 DEF WholeTaken
<1> HIDE DEF parts
<1>13. Then(More(Mine, <<m>>), c, s, m, m.length)
         = MineOf([written EXCEPT ![c] = s], [unsent EXCEPT ![c] = 0],
                  IF m.kind = "size" THEN m.value ELSE size)
  BY <1>1, <1>9, CompletedIs
<1>14. unsent' = [unsent EXCEPT ![c] = 0]
  BY <1>2, <1>3, <1>4
<1>15. LeadsTo(parts, u, <<>>, Mine')
  <2>1. Mine' = MineOf([written EXCEPT ![c] = s], [unsent EXCEPT ![c] = 0],
                       IF m.kind = "size" THEN m.value ELSE size)
    BY <1>2, <1>14, Zenon DEF Mine
  <2> QED
    BY <1>12, <1>13, <2>1
<1>16. who' = who
  BY <1>2 DEF Put
<1>17. /\ WriterOK' /\ written' \in [AllCsids -> States \union {None}]
       /\ unsent' \in [AllCsids -> Nat]
  <2> DEFINE left == 0
  <2>1. left \in Nat /\ unsent' = [unsent EXCEPT ![c] = left] /\ SideOK(c, s, left)
    BY <1>10, <1>14
  <2> HIDE DEF left
  <2> QED
    BY <1>1, <1>2, <1>9, <1>16, <2>1, SideChanges
<1>18. begun' \in 0..MaxMessages
  BY <1>1, <1>2, ChunkAssumption DEF TypeOK
<1>19. omitted' \in BOOLEAN
  BY <1>2
<1> HIDE DEF e
<1> QED
  BY <1>2, <1>7, <1>12, <1>15, <1>17, <1>18, <1>19, PutKeeps

(***************************************************************************)
(* What the Reader does                                                    *)
(***************************************************************************)

\* What arrives changes nothing on either side.
LEMMA ArriveKeeps ==
  ASSUME Kept, Arrive
  PROVE  Kept'
<1>1. TypeOK /\ Reading /\ WriterOK /\ InStep
  BY DEF Kept
<1>2. /\ who' = who /\ written' = written /\ unsent' = unsent /\ size' = size /\ begun' = begun
      /\ wire' = wire /\ streams' = streams /\ chunk_size' = chunk_size /\ status' = status
      /\ expected' = expected /\ right' = right /\ omitted' = omitted
      /\ arrived < Len(wire) /\ arrived' = arrived + 1
  BY DEF Arrive, writer
<1>3. arrived' \in 0..Len(wire')
  <2>1. arrived \in 0..Len(wire) /\ Len(wire) \in Nat
    BY <1>1 DEF TypeOK
  <2> QED
    BY <1>2, <2>1
<1>4. TypeOK'
  BY <1>1, <1>2, <1>3, Zenon DEF TypeOK
<1>5. InStep'
  BY <1>1, <1>2, Zenon DEF InStep, Now, Mine
<1>6. WriterOK' /\ Reading'
  BY <1>1, <1>2, Zenon DEF WriterOK, SideOK, InProgress, Reading
<1> QED
  BY <1>4, <1>5, <1>6 DEF Kept

\* A chunk that is good is taken as what StateIn says, and not refused.
LEMMA GoodIsTaken ==
  ASSUME TypeOK, GoodChunk(wire, Now), ReadChunk
  PROVE  /\ TakeChunk(wire[1].csid, StateIn(wire, Now), HeaderEnd(wire, Now))
         /\ UNCHANGED <<writer, status, omitted>>
<1> DEFINE u == Now
           fmt == wire[1].fmt
           c == wire[1].csid
           fields == wire[2]
           extended == IF fmt = 3 THEN streams[c].state.extended
                       ELSE fields.time = EXTENDED_TIMESTAMP
           header == IF fmt = 3 THEN 1 ELSE 2
           pos == IF extended THEN header + 1 ELSE header
           t == IF fmt = 3 THEN 0 ELSE IF extended THEN wire[pos].value ELSE fields.time
           s == StateOf(fmt, c, fields, t, extended)
<1>1. IF Refuses(fmt, c) THEN Ends("refused")
      ELSE /\ arrived >= header /\ arrived >= pos
           /\ IF s.length > MAX_ASSEMBLED_LENGTH THEN Ends("refused")
              ELSE TakeChunk(c, s, pos) /\ UNCHANGED <<writer, status, omitted>>
  BY Zenon DEF ReadChunk
<1>2. Now.streams = streams /\ Now.chunk_size = chunk_size /\ Now.expected = expected
  BY DEF Now
<1>3. Pending(c) = Len(Have(Now, c))
  BY <1>2 DEF Pending, Have
<1>4. ~Refuses(fmt, c)
  <2>1. ~RefusedBy(Now, fmt, c)
    BY DEF GoodChunk
  <2> QED
    BY <1>2, <1>3, <2>1, Zenon DEF RefusedBy, Refuses
<1>5. extended = HasExtended(wire, Now) /\ header = FieldsEnd(wire)
  BY <1>2, Zenon DEF HasExtended, FieldsEnd
<1>6. pos = HeaderEnd(wire, Now)
  BY <1>5, Zenon DEF HeaderEnd
<1>7. t = TimeIn(wire, Now)
  BY <1>5, <1>6, Zenon DEF TimeIn
<1>8. \A a, b : StateOf(fmt, c, fields, a, b) = StateFrom(Now, fmt, c, fields, a, b)
  <2> HIDE DEF fmt, c, fields
  <2>1. ASSUME NEW a, NEW b
        PROVE  StateOf(fmt, c, fields, a, b) = StateFrom(Now, fmt, c, fields, a, b)
    <3>1. CASE fmt = 0
      BY <3>1, Zenon DEF StateOf, StateFrom
    <3>2. CASE fmt = 3
      <4>1. fmt # 0
        BY <3>2
      <4> QED
        BY <1>2, <1>3, <3>2, <4>1, Zenon DEF StateOf, StateFrom, StateOfContinued
    <3>3. CASE fmt # 0 /\ fmt # 3
      BY <1>2, <3>3, Zenon DEF StateOf, StateFrom
    <3> QED
      BY <3>1, <3>2, <3>3
  <2> QED
    BY <2>1
<1>9. s = StateIn(wire, Now)
  <2>1. s = StateFrom(Now, fmt, c, fields, t, extended)
    BY <1>8
  <2>2. StateIn(wire, Now)
          = StateFrom(Now, fmt, c, fields, TimeIn(wire, Now), HasExtended(wire, Now))
    BY Zenon DEF StateIn
  <2> HIDE DEF s, fmt, c, fields, t, extended
  <2> QED
    BY <1>5, <1>7, <2>1, <2>2
<1>10. ~(s.length > MAX_ASSEMBLED_LENGTH)
  <2>1. StateIn(wire, Now).length \in 0..MAX_ASSEMBLED_LENGTH /\ MAX_ASSEMBLED_LENGTH \in Nat
    BY ChunkAssumption DEF GoodChunk
  <2> HIDE DEF s
  <2> QED
    BY <1>9, <2>1
<1> HIDE DEF s, pos, header, c, fmt, t, extended, fields
<1>11. TakeChunk(c, s, pos) /\ UNCHANGED <<writer, status, omitted>>
  BY <1>1, <1>4, <1>10
<1> QED
  BY <1>6, <1>9, <1>11 DEF c

\* What Reader::read_chunk takes is the first step on the way to where its writer is.
LEMMA ReadKeeps ==
  ASSUME Kept, Read
  PROVE  Kept' /\ omitted' = omitted
<1> DEFINE w == wire
           u == Now
           s == StateIn(w, u)
           c == w[1].csid
           pos == HeaderEnd(w, u)
           z == ReaderAfter(w, u)
           first == Head(expected)
<1>1. TypeOK /\ Reading /\ WriterOK /\ InStep
  BY DEF Kept
<1>2. arrived > 0 /\ arrived \in 0..Len(wire) /\ wire \in Seq(Parts) /\ Len(wire) <= MaxWire
      /\ MaxWire \in Nat
  BY <1>1, ChunkAssumption DEF TypeOK, Read, Astray, ReadChunk
<1>3. <<wire, Now>> # <<<<>>, Mine>>
  BY <1>2
<1>4. GoodChunk(w, u) /\ LeadsTo(WireAfter(w, u), z, <<>>, Mine)
  BY <1>1, <1>3, LeadsRest DEF InStep
<1>5. ReadChunk
  <2>1. wire[1].is = "basic"
    BY <1>4 DEF GoodChunk
  <2> QED
    BY <2>1 DEF Read, Astray
<1>6. TakeChunk(c, s, pos) /\ UNCHANGED <<writer, status, omitted>>
  BY <1>1, <1>4, <1>5, GoodIsTaken
<1>7. /\ WireAfter(w, u) \in Seq(Parts) /\ ChunkEnd(w, u) \in 1..Len(w) /\ pos \in Nat
      /\ z \in Sides
  BY <1>4, WireAfterIs DEF GoodChunk
<1>8. u.streams = streams /\ u.chunk_size = chunk_size /\ u.expected = expected
  BY DEF Now
<1>9. Pending(c) = Len(Have(u, c)) /\ (IF streams[c] = None THEN <<>> ELSE streams[c].payload)
        = Have(u, c)
  BY <1>8 DEF Pending, Have
<1>10. Wanted(s, Pending(c)) = Needs(w, u)
  BY <1>8, <1>9, Zenon DEF Wanted, Needs
<1> DEFINE wanted == Needs(w, u)
           payload == PayloadIn(w, u)
<1>11. pos + wanted = ChunkEnd(w, u) /\ wanted \in Nat
  BY <1>4 DEF ChunkEnd, GoodChunk
<1>12. (IF streams[c] = None THEN <<>> ELSE streams[c].payload)
          \o SubSeq(wire, pos + 1, pos + wanted) = payload
  BY <1>9, <1>11, Zenon DEF PayloadIn
<1>13. /\ arrived >= pos + wanted
       /\ wire' = SubSeq(wire, pos + wanted + 1, Len(wire))
       /\ arrived' = arrived - pos - wanted
       /\ IF Len(payload) = s.length
          THEN /\ streams' = AfterAbort([streams EXCEPT ![c] = [state |-> s, payload |-> <<>>]],
                                        s.kind, payload)
               /\ chunk_size' = IF s.kind = "size" THEN payload[1].of ELSE chunk_size
               /\ right' = /\ right
                           /\ expected # <<>>
                           /\ [timestamp |-> s.timestamp, length |-> s.length, kind |-> s.kind,
                               stream |-> s.stream, value |-> first.value] = first
                           /\ payload = Payload(first, 0, first.length)
               /\ expected' = IF expected = <<>> THEN <<>> ELSE Tail(expected)
          ELSE /\ streams' = [streams EXCEPT ![c] = [state |-> s, payload |-> payload]]
               /\ UNCHANGED <<chunk_size, right, expected>>
  <2> HIDE DEF s, c, pos
  <2>1. TakeChunk(c, s, pos)
    BY <1>6
  <2> DEFINE want == Wanted(s, Pending(c))
             had == IF streams[c] = None THEN <<>> ELSE streams[c].payload
             got == had \o SubSeq(wire, pos + 1, pos + want)
  <2>2. /\ arrived >= pos + want
        /\ wire' = SubSeq(wire, pos + want + 1, Len(wire))
        /\ arrived' = arrived - pos - want
        /\ IF Len(got) = s.length
           THEN /\ streams' = AfterAbort([streams EXCEPT ![c] = [state |-> s, payload |-> <<>>]],
                                         s.kind, got)
                /\ chunk_size' = IF s.kind = "size" THEN got[1].of ELSE chunk_size
                /\ right' = /\ right
                            /\ expected # <<>>
                            /\ [timestamp |-> s.timestamp, length |-> s.length, kind |-> s.kind,
                                stream |-> s.stream, value |-> first.value] = first
                            /\ got = Payload(first, 0, first.length)
                /\ expected' = IF expected = <<>> THEN <<>> ELSE Tail(expected)
           ELSE /\ streams' = [streams EXCEPT ![c] = [state |-> s, payload |-> got]]
                /\ UNCHANGED <<chunk_size, right, expected>>
    BY <2>1, Zenon DEF TakeChunk
  <2>3. want = wanted
    BY <1>10, Zenon
  <2>4. got = payload
    BY <1>12, <2>3, Zenon
  <2> HIDE DEF want, got, wanted, payload
  <2> QED
    BY <2>2, <2>3, <2>4, Zenon
<1>14. Now' = z /\ right'
  <2>1. CASE Completes(w, u)
    <3>1. Len(payload) = s.length
      BY <2>1, Zenon DEF Completes
    <3>2. /\ expected # <<>>
          /\ Tells(s, first) /\ payload = Payload(first, 0, first.length)
      BY <1>4, <1>8, <2>1, Zenon DEF GoodChunk
    <3>3. right
      BY <1>1 DEF Reading
    <3>4. right'
      BY <1>13, <3>1, <3>2, <3>3, Zenon DEF Tells
    <3>5. /\ streams' = AfterAbort([u.streams EXCEPT ![c] = [state |-> s, payload |-> <<>>]],
                                   s.kind, payload)
          /\ chunk_size' = IF s.kind = "size" THEN payload[1].of ELSE u.chunk_size
          /\ expected' = Tail(u.expected)
      BY <1>8, <1>13, <3>1, <3>2, Zenon
    <3>6. z = [streams |-> AfterAbort([u.streams EXCEPT ![c] = [state |-> s, payload |-> <<>>]],
                                      s.kind, payload),
               chunk_size |-> IF s.kind = "size" THEN payload[1].of ELSE u.chunk_size,
               expected |-> Tail(u.expected)]
      BY <2>1, Zenon DEF ReaderAfter
    <3> QED
      BY <3>4, <3>5, <3>6, Zenon DEF Now
  <2>2. CASE ~Completes(w, u)
    <3>1. Len(payload) # s.length
      BY <2>2, Zenon DEF Completes
    <3>2. /\ streams' = [u.streams EXCEPT ![c] = [state |-> s, payload |-> payload]]
          /\ chunk_size' = u.chunk_size /\ expected' = u.expected /\ right' = right
      BY <1>8, <1>13, <3>1
    <3>3. z = [streams |-> [u.streams EXCEPT ![c] = [state |-> s, payload |-> payload]],
               chunk_size |-> u.chunk_size, expected |-> u.expected]
      BY <2>2, Zenon DEF ReaderAfter
    <3> QED
      BY <1>1, <3>2, <3>3, Zenon DEF Now, Reading
  <2> QED
    BY <2>1, <2>2
<1> HIDE DEF s, c, pos, first, wanted, payload, z
<1>15. wire' = WireAfter(w, u)
  <2>1. pos + wanted + 1 = ChunkEnd(w, u) + 1
    BY <1>11
  <2> QED
    BY <1>13, <2>1, Zenon DEF WireAfter
<1>16. wire' \in Seq(Parts) /\ Len(wire') = Len(wire) - ChunkEnd(w, u)
  <2> DEFINE k == ChunkEnd(w, u)
  <2>1. k \in 1..Len(wire) /\ wire' = SubSeq(wire, k + 1, Len(wire))
    BY <1>7, <1>15, Zenon DEF WireAfter
  <2> HIDE DEF k
  <2>2. Len(wire') = Len(wire) - k
    BY <1>2, <2>1
  <2> QED
    BY <1>7, <1>15, <2>2 DEF k
<1>17. arrived' \in 0..Len(wire') /\ Len(wire') <= MaxWire
  <2> DEFINE k == ChunkEnd(w, u)
  <2>1. k \in 1..Len(wire) /\ Len(wire) \in Nat /\ arrived' = arrived - pos - wanted
        /\ pos + wanted = k /\ arrived >= k /\ Len(wire') = Len(wire) - k
    BY <1>2, <1>7, <1>11, <1>13, <1>16
  <2> HIDE DEF k
  <2> QED
    BY <1>2, <1>7, <1>11, <2>1
<1>18. /\ streams' \in [AllCsids -> Streams \union {None}] /\ chunk_size' \in Sizes
       /\ expected' \in Seq(Messages)
  <2>1. Now' \in Sides
    BY <1>7, <1>14
  <2> QED
    BY <2>1, Zenon DEF Sides, Now
<1>19. /\ who' = who /\ written' = written /\ unsent' = unsent /\ size' = size /\ begun' = begun
       /\ status' = status /\ omitted' = omitted
  BY <1>6 DEF writer
<1>20. right' \in BOOLEAN
  <2>1. CASE Len(payload) = s.length
    BY <1>13, <2>1
  <2>2. CASE Len(payload) # s.length
    BY <1>1, <1>13, <2>2 DEF TypeOK
  <2> QED
    BY <2>1, <2>2
<1>21. TypeOK'
  BY <1>1, <1>16, <1>17, <1>18, <1>19, <1>20, Zenon DEF TypeOK
<1>22. InStep'
  <2>1. Mine' = Mine
    BY <1>19, Zenon DEF Mine
  <2> QED
    BY <1>4, <1>14, <1>15, <2>1, Zenon DEF InStep
<1>23. WriterOK' /\ Reading'
  BY <1>1, <1>14, <1>19, Zenon DEF WriterOK, SideOK, InProgress, Reading
<1> QED
  BY <1>19, <1>21, <1>22, <1>23 DEF Kept

(***************************************************************************)
(* The theorems                                                            *)
(***************************************************************************)

\* Who writes never changes, nor what Writer left out.
LEMMA OmittedStays ==
  ASSUME Next
  PROVE  who' = who /\ (omitted => omitted') /\ (who = "encoder" => omitted' = omitted)
<1>1. CASE \E c \in Csids : \E m \in MediaOn(c) : WriteMessage(c, m)
  BY <1>1 DEF WriteMessage, Write, Put
<1>2. CASE \E c \in Csids : \E m \in MediaOn(c) : \E fmt \in 0..3 : Media(c, m, fmt)
  BY <1>2 DEF Media, Begin, Put
<1>3. CASE \E c \in Csids : Continue(c)
  BY <1>3 DEF Continue, Put
<1>4. CASE \E m \in Resizes : WriteResize(m)
  BY <1>4 DEF WriteResize, Write, Put
<1>5. CASE \E m \in Resizes : \E fmt \in 0..3 : Resize(m, fmt)
  BY <1>5 DEF Resize, Begin, Put
<1>6. CASE \E m \in Aborts, fmt \in 0..3 : AbortMessage(m, fmt)
  BY <1>6 DEF AbortMessage, Put
<1>7. CASE Arrive
  BY <1>7 DEF Arrive, writer
<1>8. CASE Read
  <2>1. CASE Astray
    BY <2>1 DEF Astray, Ends, writer
  <2>2. CASE ReadChunk
    <3>1. who' = who /\ omitted' = omitted
      BY <2>2 DEF ReadChunk, Ends, writer
    <3> QED
      BY <3>1
  <2> QED
    BY <1>8, <2>1, <2>2 DEF Read
<1> QED
  BY <1>1, <1>2, <1>3, <1>4, <1>5, <1>6, <1>7, <1>8, Zenon DEF Next

\* Every step keeps the invariant, until an extended timestamp is left out.
LEMMA StepKeeps ==
  ASSUME Kept, Next, ~omitted'
  PROVE  Kept'
<1>1. omitted \in BOOLEAN /\ size \in Sizes
  BY DEF Kept, TypeOK
<1>2. ASSUME NEW c \in Csids, NEW m \in MediaOn(c), WriteMessage(c, m)
      PROVE  Kept'
  <2>1. m \in Messages /\ m.kind = "media" /\ c \in AllCsids
    BY MediaAreMessages DEF AllCsids
  <2>2. Write(c, m) /\ size' = size
    BY <1>2 DEF WriteMessage
  <2>3. m.kind # "abort" /\ m.kind # "size"
    BY <2>1
  <2> QED
    BY <1>1, <2>1, <2>2, <2>3, WriteKeeps
<1>3. ASSUME NEW c \in Csids, NEW m \in MediaOn(c), NEW fmt \in 0..3, Media(c, m, fmt)
      PROVE  Kept'
  <2>1. m \in Messages /\ c \in AllCsids
    BY MediaAreMessages DEF AllCsids
  <2>2. who = "encoder" /\ Begin(c, m, fmt) /\ size' = size /\ omitted' = omitted
    BY <1>3 DEF Media
  <2> QED
    BY <1>1, <2>1, <2>2, BeginKeeps
<1>4. ASSUME NEW m \in Resizes, WriteResize(m)
      PROVE  Kept'
  <2>1. m \in Messages /\ m.kind = "size" /\ m.value \in Sizes
    BY DEF Messages, Control, Resizes
  <2>2. Write(CONTROL, m) /\ size' = m.value /\ CONTROL \in AllCsids
    BY <1>4 DEF WriteResize, AllCsids
  <2>3. m.kind # "abort"
    BY <2>1
  <2> QED
    BY <2>1, <2>2, <2>3, WriteKeeps
<1>5. ASSUME NEW m \in Resizes, NEW fmt \in 0..3, Resize(m, fmt)
      PROVE  Kept'
  <2>1. m \in Messages
    BY DEF Messages, Control
  <2>2. /\ who = "encoder" /\ Begin(CONTROL, m, fmt) /\ size' = m.value /\ omitted' = omitted
        /\ CONTROL \in AllCsids
    BY <1>5 DEF Resize, AllCsids
  <2> QED
    BY <1>1, <2>1, <2>2, BeginKeeps
<1>6. CASE Read
  BY <1>6, ReadKeeps
<1> QED
  BY <1>2, <1>3, <1>4, <1>5, <1>6, ContinueKeeps, AbortKeeps, ArriveKeeps, Zenon DEF Next

\* The invariant behind the theorems below holds of everything Writer, an
\* encoder and the Reader of chunk.rs do.
THEOREM ChunkInvariant == Spec => []ChunkInv
<1>1. Init => ChunkInv
  BY ChunkInit DEF ChunkInv, Init
<1>2. ChunkInv /\ [Next]_vars => ChunkInv'
  <2> SUFFICES ASSUME ChunkInv, [Next]_vars  PROVE ChunkInv'
    OBVIOUS
  <2>1. CASE Next
    <3>1. who' = who /\ (omitted => omitted') /\ (who = "encoder" => omitted' = omitted)
      BY <2>1, OmittedStays
    <3>2. ~omitted' => Kept'
      BY <2>1, <3>1, StepKeeps DEF ChunkInv
    <3> QED
      BY <3>1, <3>2 DEF ChunkInv
  <2>2. CASE UNCHANGED vars
    <3>1. /\ who' = who /\ written' = written /\ unsent' = unsent /\ size' = size
          /\ begun' = begun /\ wire' = wire /\ arrived' = arrived /\ streams' = streams
          /\ chunk_size' = chunk_size /\ status' = status /\ expected' = expected
          /\ right' = right /\ omitted' = omitted
      BY <2>2 DEF vars
    <3> QED
      BY <3>1, Zenon DEF ChunkInv, Kept, TypeOK, Reading, WriterOK, SideOK, InProgress, InStep,
                         Now, Mine
  <2> QED
    BY <2>1, <2>2
<1> QED
  BY <1>1, <1>2, PTL DEF Spec

\* What the Reader keeps is of its types as long as no extended timestamp was
\* left out (chunk.rs, Reader and State).
THEOREM ChunkTypes == Spec => [](omitted \/ TypeOK)
<1>1. ChunkInv => omitted \/ TypeOK
  BY DEF ChunkInv, Kept
<1> QED
  BY <1>1, ChunkInvariant, PTL

\* The messages read are those written, in their order, and none is refused,
\* unless Writer left out an extended timestamp (Reader::read_chunk).
THEOREM ReadsBack == Spec => []ReadsWhatWasWritten
<1>1. ChunkInv => ReadsWhatWasWritten
  BY DEF ChunkInv, Kept, Reading, ReadsWhatWasWritten
<1> QED
  BY <1>1, ChunkInvariant, PTL

\* Whatever an encoder sends that RTMP allows is read as what it meant, with
\* no exception (Reader::read_chunk, Reader::apply).
THEOREM EncoderIsRead == Spec => [](who = "encoder" => ReadsItsOwn)
<1>1. ChunkInv => (who = "encoder" => ReadsItsOwn)
  BY DEF ChunkInv, Kept, Reading, ReadsItsOwn
<1> QED
  BY <1>1, ChunkInvariant, PTL

\* With nothing on the wire the Reader is where the other side is.
LEMMA ReadUp ==
  ASSUME ChunkInv, wire = <<>>, ~omitted
  PROVE  Now = Mine
<1>1. LeadsTo(<<>>, Now, <<>>, Mine)
  BY DEF ChunkInv, Kept, InStep
<1>2. ASSUME Now # Mine  PROVE FALSE
  <2>1. <<<<>>, Now>> # <<<<>>, Mine>>
    BY <1>2
  <2>2. GoodChunk(<<>>, Now)
    BY <1>1, <2>1, LeadsRest
  <2> QED
    BY <2>2 DEF GoodChunk
<1> QED
  BY <1>2

\* Whenever everything was read, both sides carry forward the same on every
\* chunk stream and agree on the chunk size (chunk.rs, State on both sides).
THEOREM BothAgree == Spec => []SidesAgree
<1>1. ChunkInv => SidesAgree
  <2> SUFFICES ASSUME ChunkInv, wire = <<>>, ~omitted
               PROVE  /\ chunk_size = size
                      /\ \A c \in AllCsids :
                           /\ streams[c] = None <=> written[c] = None
                           /\ written[c] # None =>
                                /\ streams[c].state = written[c]
                                /\ Pending(c) = IF unsent[c] = 0 THEN 0
                                                ELSE written[c].length - unsent[c]
    BY DEF SidesAgree
  <2>1. Now = Mine /\ TypeOK /\ WriterOK
    BY ReadUp DEF ChunkInv, Kept
  <2>2. chunk_size = size
    BY <2>1 DEF Now, Mine, MineOf
  <2>3. ASSUME NEW c \in AllCsids
        PROVE  /\ streams[c] = None <=> written[c] = None
               /\ written[c] # None =>
                    /\ streams[c].state = written[c]
                    /\ Pending(c) = IF unsent[c] = 0 THEN 0 ELSE written[c].length - unsent[c]
    <3> DEFINE s == written[c]
               left == unsent[c]
               pl == IF left = 0 THEN <<>> ELSE Payload(MessageOf(c, s), 0, s.length - left)
    <3>1. s \in States \union {None} /\ left \in Nat /\ SideOK(c, s, left)
      BY <2>1 DEF TypeOK, WriterOK
    <3>2. Mine.streams[c] = StreamOf(c, s, left) /\ Now.streams = streams
      <4>1. <<>> \in Seq(Messages)
        OBVIOUS
      <4> QED
        BY <2>1, <4>1, MineTyped DEF Now
    <3>3. streams[c] = StreamOf(c, s, left)
      BY <2>1, <3>2
    <3> HIDE DEF s, left
    <3>4. streams[c] = None <=> s = None
      BY <3>1, <3>3, StreamIs
    <3>5. ASSUME s # None
          PROVE  streams[c].state = s /\ Pending(c) = IF left = 0 THEN 0 ELSE s.length - left
      <4>1. streams[c] = [state |-> s, payload |-> pl]
        BY <3>3, <3>5, Zenon DEF StreamOf
      <4>2. Len(pl) = IF left = 0 THEN 0 ELSE s.length - left
        <5>1. CASE left = 0
          BY <5>1
        <5>2. CASE left # 0
          <6>1. c \in Csids /\ MessageOf(c, s) \in MediaOn(c) /\ left < s.length
            BY <3>1, <5>2 DEF SideOK, InProgress
          <6>2. MessageOf(c, s) \in Messages
            BY <6>1, MediaAreMessages
          <6>3. s.length \in Nat
            BY <3>1, <3>5 DEF States
          <6>4. s.length - left \in Nat /\ 0 \in Nat
            BY <3>1, <6>1, <6>3
          <6>5. Len(Payload(MessageOf(c, s), 0, s.length - left)) = s.length - left
            BY <6>2, <6>4, PayloadIs
          <6> QED
            BY <5>2, <6>5
        <5> QED
          BY <5>1, <5>2
      <4> HIDE DEF pl
      <4>3. streams[c].state = s /\ streams[c].payload = pl
        BY <4>1
      <4>4. Pending(c) = Len(pl)
        BY <3>4, <3>5, <4>3 DEF Pending
      <4> QED
        BY <4>2, <4>3, <4>4
    <3> QED
      BY <3>4, <3>5 DEF s, left
  <2> QED
    BY <2>2, <2>3
<1> QED
  BY <1>1, ChunkInvariant, PTL

\* A message whose last chunk was read is one that the Reader has given out:
\* with nothing left on the wire none is owed (Reader::read_chunk).
THEOREM NoneIsOwed == Spec => [](wire = <<>> /\ ~omitted => expected = <<>>)
<1>1. ChunkInv => (wire = <<>> /\ ~omitted => expected = <<>>)
  BY ReadUp DEF Now, Mine, MineOf
<1> QED
  BY <1>1, ChunkInvariant, PTL

\* What is on the wire always begins with a whole chunk that the Reader takes
\* as it was meant: it never waits for more than was written, and what
\* NothingIsHeldBack says follows once all of it has arrived.
THEOREM NoneIsHalfWritten == Spec => [](~omitted /\ wire # <<>> => GoodChunk(wire, Now))
<1>1. ChunkInv => (~omitted /\ wire # <<>> => GoodChunk(wire, Now))
  <2> SUFFICES ASSUME ChunkInv, ~omitted, wire # <<>>  PROVE GoodChunk(wire, Now)
    OBVIOUS
  <2>1. LeadsTo(wire, Now, <<>>, Mine)
    BY DEF ChunkInv, Kept, InStep
  <2>2. <<wire, Now>> # <<<<>>, Mine>>
    OBVIOUS
  <2> QED
    BY <2>1, <2>2, LeadsRest
<1> QED
  BY <1>1, ChunkInvariant, PTL
=============================================================================
