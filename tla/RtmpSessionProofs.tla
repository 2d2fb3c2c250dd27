-------------------------- MODULE RtmpSessionProofs --------------------------
(***************************************************************************)
(* Proofs about RtmpSession: what holds of one publishing connection for   *)
(* every set of names and parameters and every size of read and window;    *)
(* and, at the end, about RtmpTimeline, the times that its units are given *)
(* from, for a counter of any width.                                       *)
(***************************************************************************)
EXTENDS RtmpSession, RtmpTimeline, TLAPS

\* Only a connection that drains a batch has something left to do.
OnlyDrainingDoes == todo # <<>> => pc = "draining"

\* What was settled is what the headers say, and the path is taken or about
\* to be.
SettledAsStated ==
  Settled =>
    /\ published = pending
    /\ pc \notin {"leaving", "closed"} =>
         publisher # Unset \/ (todo # <<>> /\ todo[1].do = "publish")

\* A Publisher is held for what was settled.
HeldAsSettled == publisher # Unset => Settled /\ publisher.tracks = published

\* A path is taken first of all, once, for what was settled.
TakenFirst ==
  \A i \in 1..Len(todo) :
    todo[i].do = "publish" =>
      /\ i = 1
      /\ publisher = Unset
      /\ Settled
      /\ todo[i].stream.tracks = published

\* A unit is of a settled track, and follows the taking of its path.
UnitsAreSettled ==
  \A i \in 1..Len(todo) :
    todo[i].do = "unit" =>
      /\ todo[i].params = published[todo[i].kind]
      /\ todo[i].params # Unset
      /\ publisher # Unset \/ (i > 1 /\ todo[1].do = "publish")

\* publish named the path a session publishes to.
PathOncePublishing == state = "Publishing" => path # Unset

Announces(i) == todo[i].do = "send" /\ todo[i].what = "setChunkSize"
Resizes(i) == todo[i].do = "setChunkSize"

\* The size changes right after the message that announces it.
ResizedOnceAnnounced ==
  /\ \A i \in 1..Len(todo) : Announces(i) => i < Len(todo) /\ Resizes(i + 1)
  /\ \A i \in 2..Len(todo) : Resizes(i) => Announces(i - 1)

\* The Writer is at the size the encoder will read at, but for the instant
\* between the announcement and the change.
WriterInStep ==
  pc # "closed" =>
    IF todo # <<>> /\ Resizes(1) THEN ReadsAt = "announced" ELSE chunk = ReadsAt

IInv ==
  /\ TypeOK
  /\ OnlyDrainingDoes
  /\ SettledAsStated
  /\ HeldAsSettled
  /\ TakenFirst
  /\ UnitsAreSettled
  /\ PathOncePublishing
  /\ ResizedOnceAnnounced
  /\ WriterInStep
  /\ EncoderCanReadReplies

LEMMA Bounds == WINDOW_SIZE \in Nat \ {0} /\ MaxBatch \in Nat
BY SessionAssumption

LEMMA UnsetIsNoName == Unset \notin Paths /\ Unset \notin Params /\ Unset \notin Streams
BY SessionAssumption DEF Paths, Streams, Tracks, Kinds

LEMMA NothingStands == NoTracks \in Tracks /\ "opening" \in Sizes
BY DEF NoTracks, Tracks, Sizes

LEMMA InitEstablishes == Init => IInv
PROOF
  <1> SUFFICES ASSUME Init PROVE IInv
    OBVIOUS
  <1>1. TypeOK
    <2>1. SessionOK
      BY NothingStands DEF Init, SessionOK
    <2>2. CountsOK
      BY Bounds DEF Init, CountsOK
    <2>3. DriverOK
      BY NothingStands DEF Init, DriverOK
    <2>4. FlagsOK
      BY NothingStands DEF Init, FlagsOK
    <2> QED
      BY <2>1, <2>2, <2>3, <2>4 DEF TypeOK
  <1>2. Len(todo) = 0 /\ Len(out) = 0
    BY DEF Init
  <1> QED
    BY <1>1, <1>2 DEF Init, IInv, OnlyDrainingDoes, SettledAsStated, HeldAsSettled,
       TakenFirst, UnitsAreSettled, PathOncePublishing, ResizedOnceAnnounced, WriterInStep,
       EncoderCanReadReplies, Settled, ReadsAt

\* A connection that closes forgets what it had to do and write.
LEMMA ClosingKeeps ==
  ASSUME IInv, Closes, peer' \in Sizes
  PROVE  IInv'
PROOF
  <1>1. TypeOK'
    <2>1. SessionOK'
      BY DEF IInv, TypeOK, Closes, session, SessionOK
    <2>2. CountsOK'
      BY Bounds DEF IInv, TypeOK, Closes, CountsOK
    <2>3. DriverOK'
      BY DEF IInv, TypeOK, Closes, DriverOK
    <2>4. FlagsOK'
      BY DEF IInv, TypeOK, Closes, FlagsOK
    <2> QED
      BY <2>1, <2>2, <2>3, <2>4 DEF TypeOK
  <1>2. Len(todo') = 0 /\ Len(out') = 0
    BY DEF Closes
  <1> QED
    BY <1>1, <1>2 DEF IInv, Closes, session, OnlyDrainingDoes, SettledAsStated, HeldAsSettled,
       TakenFirst, UnitsAreSettled, PathOncePublishing, ResizedOnceAnnounced, WriterInStep,
       EncoderCanReadReplies, Settled

\* What handle() returns is one of these lists, and each is in order.
LEMMA AskedForAreActions ==
  /\ \A what \in Replies : Send(what) \in Actions
  /\ SetChunkSize \in Actions
  /\ Unpublish \in Actions
  /\ \A stream \in Streams : Publish(stream) \in Actions
  /\ \A k \in Kinds, params \in Params : Unit(k, params) \in Actions
BY DEF Send, SetChunkSize, Unpublish, Publish, Unit, Actions

\* A message that changes none of what was settled, and whose actions are
\* replies and an Unpublish only.
LEMMA RepliesKeep ==
  ASSUME IInv, Handling,
         NEW actions \in Seq(Actions), Asks(actions),
         state' \in {"New", "Connected", "Publishing"},
         app' \in Apps \union {Unset},
         path' \in Paths \union {Unset},
         state' = "Publishing" => path' # Unset,
         finished' \in BOOLEAN,
         pending' \in Tracks,
         UNCHANGED published,
         Settled => UNCHANGED pending,
         \A i \in 1..Len(actions) :
           /\ actions[i].do \in {"send", "unpublish", "setChunkSize"}
           /\ actions[i].do = "send" /\ actions[i].what = "setChunkSize" =>
                i < Len(actions) /\ actions[i + 1].do = "setChunkSize"
           /\ actions[i].do = "setChunkSize" =>
                i > 1 /\ actions[i - 1].do = "send" /\ actions[i - 1].what = "setChunkSize"
  PROVE  IInv'
PROOF
  <1>1. TypeOK'
    <2>1. SessionOK'
      BY DEF IInv, TypeOK, SessionOK
    <2>2. CountsOK'
      BY Bounds DEF IInv, TypeOK, Asks, Handling, CountsOK
    <2>3. DriverOK'
      BY DEF IInv, TypeOK, Asks, DriverOK
    <2>4. FlagsOK'
      BY DEF IInv, TypeOK, Asks, FlagsOK
    <2> QED
      BY <2>1, <2>2, <2>3, <2>4 DEF TypeOK
  <1>2. OnlyDrainingDoes'
    BY DEF Asks, Handling, OnlyDrainingDoes
  <1>3. SettledAsStated' /\ HeldAsSettled'
    BY DEF IInv, Asks, Handling, SettledAsStated, HeldAsSettled, Settled
  <1>4. TakenFirst' /\ UnitsAreSettled'
    BY DEF Asks, TakenFirst, UnitsAreSettled
  <1>5. ResizedOnceAnnounced'
    BY DEF Asks, ResizedOnceAnnounced, Announces, Resizes
  <1>6. WriterInStep'
    <2>1. chunk = ReadsAt
      BY DEF IInv, WriterInStep, Handling
    <2>2. actions # <<>> => actions[1].do # "setChunkSize"
      OBVIOUS
    <2> QED
      BY <2>1, <2>2 DEF Asks, WriterInStep, Resizes, ReadsAt, Handling
  <1>7. EncoderCanReadReplies'
    BY DEF IInv, Asks, EncoderCanReadReplies
  <1> QED
    BY <1>1, <1>2, <1>3, <1>4, <1>5, <1>6, <1>7 DEF IInv, PathOncePublishing

LEMMA ConnectKeeps ==
  ASSUME IInv, Handling, NEW m \in Messages, ~Refused(m), Connect(m)
  PROVE  IInv'
PROOF
  <1> DEFINE actions == <<Send("windowAckSize"), Send("setPeerBandwidth"),
                          Send("setChunkSize"), SetChunkSize, Send("result")>>
  <1>1. actions \in Seq(Actions) /\ Len(actions) = 5
    BY AskedForAreActions DEF Replies
  <1>2. \A i \in 1..5 :
           /\ actions[i].do \in {"send", "unpublish", "setChunkSize"}
           /\ actions[i].do = "send" /\ actions[i].what = "setChunkSize" =>
                i < 5 /\ actions[i + 1].do = "setChunkSize"
           /\ actions[i].do = "setChunkSize" =>
                i > 1 /\ actions[i - 1].do = "send" /\ actions[i - 1].what = "setChunkSize"
    BY DEF Send, SetChunkSize
  <1>3. m.app \in Apps \union {Unset}
    BY DEF Connect, Messages
  <1>4. Asks(actions)
    BY DEF Connect
  <1> HIDE DEF actions
  <1>a. /\ state' \in {"New", "Connected", "Publishing"}
        /\ app' \in Apps \union {Unset}
        /\ path' \in Paths \union {Unset}
        /\ state' = "Publishing" => path' # Unset
    BY <1>3 DEF Connect, IInv, TypeOK, SessionOK, PathOncePublishing
  <1>b. finished' \in BOOLEAN
    BY DEF Connect, IInv, TypeOK, FlagsOK
  <1>c. /\ pending' \in Tracks
        /\ UNCHANGED published
        /\ Settled => UNCHANGED pending
    BY DEF Connect, IInv, TypeOK, SessionOK
  <1>5. \A i \in 1..Len(actions) :
           /\ actions[i].do \in {"send", "unpublish", "setChunkSize"}
           /\ actions[i].do = "send" /\ actions[i].what = "setChunkSize" =>
                i < Len(actions) /\ actions[i + 1].do = "setChunkSize"
           /\ actions[i].do = "setChunkSize" =>
                i > 1 /\ actions[i - 1].do = "send" /\ actions[i - 1].what = "setChunkSize"
    BY <1>1, <1>2
  <1> QED
    BY <1>1, <1>4, <1>5, <1>a, <1>b, <1>c, RepliesKeep

LEMMA CreateStreamKeeps ==
  ASSUME IInv, Handling, NEW m \in Messages, CreateStream(m)
  PROVE  IInv'
PROOF
  <1> DEFINE actions == <<Send("result")>>
  <1>1. actions \in Seq(Actions) /\ Len(actions) = 1 /\ actions[1] = Send("result")
    BY AskedForAreActions DEF Replies
  <1>2. Asks(actions)
    BY DEF CreateStream
  <1> HIDE DEF actions
  <1>a. /\ state' \in {"New", "Connected", "Publishing"}
        /\ app' \in Apps \union {Unset}
        /\ path' \in Paths \union {Unset}
        /\ state' = "Publishing" => path' # Unset
    BY DEF CreateStream, session, IInv, TypeOK, SessionOK, PathOncePublishing
  <1>b. finished' \in BOOLEAN
    BY DEF CreateStream, session, IInv, TypeOK, FlagsOK
  <1>c. /\ pending' \in Tracks
        /\ UNCHANGED published
        /\ Settled => UNCHANGED pending
    BY DEF CreateStream, session, IInv, TypeOK, SessionOK
  <1> QED
    BY <1>1, <1>2, <1>a, <1>b, <1>c, RepliesKeep DEF Send

LEMMA NamePathKeeps ==
  ASSUME IInv, Handling, NEW m \in Messages, ~Refused(m), NamePath(m)
  PROVE  IInv'
PROOF
  <1> DEFINE actions == <<Send("streamBegin"), Send("onStatus")>>
  <1>1. actions \in Seq(Actions) /\ Len(actions) = 2
    BY AskedForAreActions DEF Replies
  <1>2. actions[1] = Send("streamBegin") /\ actions[2] = Send("onStatus")
    OBVIOUS
  <1>3. m.key \in Keys
    BY DEF NamePath, Messages, Refused
  <1>4. Asks(actions)
    BY DEF NamePath
  <1>5. <<app, m.key>> \in Paths
    BY <1>3 DEF IInv, TypeOK, SessionOK, Paths
  <1> HIDE DEF actions
  <1>a. /\ state' \in {"New", "Connected", "Publishing"}
        /\ app' \in Apps \union {Unset}
        /\ path' \in Paths \union {Unset}
        /\ state' = "Publishing" => path' # Unset
    BY <1>5, UnsetIsNoName DEF NamePath, IInv, TypeOK, SessionOK, PathOncePublishing
  <1>b. finished' \in BOOLEAN
    BY DEF NamePath, IInv, TypeOK, FlagsOK
  <1>c. /\ pending' \in Tracks
        /\ UNCHANGED published
        /\ Settled => UNCHANGED pending
    BY DEF NamePath, IInv, TypeOK, SessionOK
  <1> QED
    BY <1>1, <1>2, <1>4, <1>a, <1>b, <1>c, RepliesKeep DEF Send

LEMMA DoneKeeps ==
  ASSUME IInv, Handling, NEW m \in Messages, Done(m)
  PROVE  IInv'
PROOF
  <1> DEFINE actions == IF state = "Publishing" THEN <<Unpublish>> ELSE <<>>
  <1>1. actions \in Seq(Actions) /\ \A i \in 1..Len(actions) : actions[i] = Unpublish
    BY AskedForAreActions
  <1>2. Asks(actions)
    BY DEF Done
  <1> HIDE DEF actions
  <1>a. /\ state' \in {"New", "Connected", "Publishing"}
        /\ app' \in Apps \union {Unset}
        /\ path' \in Paths \union {Unset}
        /\ state' = "Publishing" => path' # Unset
    BY DEF Done, IInv, TypeOK, SessionOK, PathOncePublishing
  <1>b. finished' \in BOOLEAN
    BY DEF Done, IInv, TypeOK, FlagsOK
  <1>c. /\ pending' \in Tracks
        /\ UNCHANGED published
        /\ Settled => UNCHANGED pending
    BY DEF Done, IInv, TypeOK, SessionOK
  <1> QED
    BY <1>1, <1>2, <1>a, <1>b, <1>c, RepliesKeep DEF Unpublish

LEMMA QuietKeeps ==
  ASSUME IInv, Handling, NEW m \in Messages, Quiet(m)
  PROVE  IInv'
PROOF
  <1> DEFINE nothing == <<>>
  <1>1. Asks(nothing) /\ nothing \in Seq(Actions) /\ \A i \in 1..Len(nothing) : FALSE
    BY DEF Quiet
  <1> HIDE DEF nothing
  <1>a. /\ state' \in {"New", "Connected", "Publishing"}
        /\ app' \in Apps \union {Unset}
        /\ path' \in Paths \union {Unset}
        /\ state' = "Publishing" => path' # Unset
    BY DEF Quiet, session, IInv, TypeOK, SessionOK, PathOncePublishing
  <1>b. finished' \in BOOLEAN
    BY DEF Quiet, session, IInv, TypeOK, FlagsOK
  <1>c. /\ pending' \in Tracks
        /\ UNCHANGED published
        /\ Settled => UNCHANGED pending
    BY DEF Quiet, session, IInv, TypeOK, SessionOK
  <1> QED
    BY <1>1, <1>a, <1>b, <1>c, RepliesKeep

LEMMA HeaderKeeps ==
  ASSUME IInv, Handling, NEW m \in Messages, ~Refused(m), Header(m)
  PROVE  IInv'
PROOF
  <1> DEFINE nothing == <<>>
  <1>1. Asks(nothing) /\ nothing \in Seq(Actions) /\ \A i \in 1..Len(nothing) : FALSE
    BY DEF Header
  <1> HIDE DEF nothing
  <1>2. m.kind \in Kinds /\ m.params \in Params
    BY DEF Header, Messages
  <1>3. ~Contradicts(m.kind, m.params)
    BY DEF Header, Refused
  <1>4. pending' \in Tracks
    BY <1>2 DEF Header, IInv, TypeOK, SessionOK, Tracks
  <1>5. Settled => pending' = pending
    BY <1>2, <1>3 DEF Header, Contradicts, IInv, TypeOK, SessionOK, Tracks
  <1>a. /\ state' \in {"New", "Connected", "Publishing"}
        /\ app' \in Apps \union {Unset}
        /\ path' \in Paths \union {Unset}
        /\ state' = "Publishing" => path' # Unset
    BY DEF Header, IInv, TypeOK, SessionOK, PathOncePublishing
  <1>b. finished' \in BOOLEAN
    BY DEF Header, IInv, TypeOK, FlagsOK
  <1>c. /\ pending' \in Tracks
        /\ UNCHANGED published
        /\ Settled => UNCHANGED pending
    BY <1>4, <1>5 DEF Header, IInv, TypeOK, SessionOK
  <1> QED
    BY <1>1, <1>a, <1>b, <1>c, RepliesKeep

LEMMA FrameKeeps ==
  ASSUME IInv, Handling, NEW m \in Messages, ~Refused(m), Frame(m)
  PROVE  IInv'
PROOF
  <1>1. m.kind \in Kinds
    BY DEF Frame, Messages
  <1>2. state = "Publishing" /\ SettledAs[m.kind] # Unset
    BY DEF Frame, Refused
  <1>3. published' = SettledAs /\ published' = pending /\ published' \in Tracks
    BY DEF Frame, SettledAs, IInv, TypeOK, SessionOK, SettledAsStated
  <1>4. published'[m.kind] \in Params
    BY <1>1, <1>2, <1>3 DEF Tracks
  <1>5. published' # NoTracks
    BY <1>1, <1>2, <1>3 DEF NoTracks
  <1>6. pc = "draining" /\ todo = <<>> /\ chunk = ReadsAt
    BY DEF Handling, IInv, WriterInStep
  <1> DEFINE unit == Unit(m.kind, published'[m.kind])
  <1>7. unit \in Actions /\ unit.do = "unit" /\ unit.kind = m.kind
          /\ unit.params = published'[m.kind] /\ unit.params # Unset
    BY <1>1, <1>2, <1>3, <1>4, AskedForAreActions DEF Unit
  <1>8. CASE Settled
    <2>1. Asks(<<unit>>) /\ published' = published /\ publisher # Unset
      BY <1>6, <1>8 DEF Frame, SettledAs, IInv, SettledAsStated
    <2>2. todo' = <<unit>> /\ <<unit>> \in Seq(Actions) /\ Len(<<unit>>) = 1 /\ <<unit>>[1] = unit
      BY <2>1, <1>7 DEF Asks
    <2> HIDE DEF unit
    <2>3. TypeOK'
      <3>1. SessionOK'
        BY <1>3 DEF Frame, IInv, TypeOK, SessionOK
      <3>2. CountsOK'
        BY <2>1, <2>2, Bounds DEF IInv, TypeOK, Asks, Handling, CountsOK
      <3>3. DriverOK'
        BY <2>1, <2>2 DEF IInv, TypeOK, Asks, DriverOK
      <3>4. FlagsOK'
        BY <2>1, <2>2 DEF Frame, IInv, TypeOK, Asks, FlagsOK
      <3> QED
        BY <3>1, <3>2, <3>3, <3>4 DEF TypeOK
    <2>4. OnlyDrainingDoes' /\ SettledAsStated' /\ HeldAsSettled'
      BY <2>1, <1>3, <1>6 DEF Frame, Asks, IInv, OnlyDrainingDoes, SettledAsStated, HeldAsSettled,
         Settled
    <2>5. TakenFirst' /\ UnitsAreSettled' /\ ResizedOnceAnnounced'
      BY <2>1, <2>2, <1>7 DEF Asks, TakenFirst, UnitsAreSettled, ResizedOnceAnnounced, Announces,
         Resizes
    <2>6. WriterInStep' /\ EncoderCanReadReplies'
      BY <2>1, <2>2, <1>6, <1>7 DEF Asks, WriterInStep, EncoderCanReadReplies, Resizes, ReadsAt, IInv
    <2>7. PathOncePublishing'
      BY DEF Frame, IInv, PathOncePublishing
    <2> QED
      BY <2>3, <2>4, <2>5, <2>6, <2>7 DEF IInv
  <1>9. CASE ~Settled
    <2> DEFINE stream == [path |-> path, tracks |-> published']
               taking == Publish(stream)
    <2>1. publisher = Unset
      BY <1>9 DEF IInv, HeldAsSettled
    <2>2. stream \in Streams
      BY <1>2, <1>3 DEF IInv, TypeOK, SessionOK, Streams, PathOncePublishing
    <2>3. taking \in Actions /\ taking.do = "publish" /\ taking.stream.tracks = published'
      BY <2>2, AskedForAreActions DEF Publish
    <2>4. Asks(<<taking, unit>>)
      BY <1>9 DEF Frame
    <2>5. /\ todo' = <<taking, unit>>
          /\ <<taking, unit>> \in Seq(Actions)
          /\ Len(<<taking, unit>>) = 2
          /\ <<taking, unit>>[1] = taking
          /\ <<taking, unit>>[2] = unit
      BY <2>3, <2>4, <1>7 DEF Asks
    <2> HIDE DEF unit, taking
    <2>6. TypeOK'
      <3>1. SessionOK'
        BY <1>3 DEF Frame, IInv, TypeOK, SessionOK
      <3>2. CountsOK'
        BY <2>4, <2>5, Bounds DEF IInv, TypeOK, Asks, Handling, CountsOK
      <3>3. DriverOK'
        BY <2>4, <2>5 DEF IInv, TypeOK, Asks, DriverOK
      <3>4. FlagsOK'
        BY <2>4, <2>5 DEF Frame, IInv, TypeOK, Asks, FlagsOK
      <3> QED
        BY <3>1, <3>2, <3>3, <3>4 DEF TypeOK
    <2>7. OnlyDrainingDoes' /\ SettledAsStated' /\ HeldAsSettled'
      BY <2>1, <2>3, <2>4, <2>5, <1>3, <1>6
         DEF Frame, Asks, OnlyDrainingDoes, SettledAsStated, HeldAsSettled, Settled
    <2>8. TakenFirst' /\ UnitsAreSettled' /\ ResizedOnceAnnounced'
      BY <2>1, <2>3, <2>4, <2>5, <1>5, <1>7
         DEF Asks, TakenFirst, UnitsAreSettled, ResizedOnceAnnounced, Announces, Resizes, Settled
    <2>9. WriterInStep' /\ EncoderCanReadReplies'
      BY <2>3, <2>4, <2>5, <1>6 DEF Asks, WriterInStep, EncoderCanReadReplies, Resizes, ReadsAt, IInv
    <2>10. PathOncePublishing'
      BY DEF Frame, IInv, PathOncePublishing
    <2> QED
      BY <2>6, <2>7, <2>8, <2>9, <2>10 DEF IInv
  <1> QED
    BY <1>8, <1>9
LEMMA TailOf ==
  ASSUME NEW S, NEW t \in Seq(S), t # <<>>
  PROVE  /\ Tail(t) \in Seq(S)
         /\ Len(t) \in Nat \ {0}
         /\ Len(Tail(t)) = Len(t) - 1
         /\ \A i \in 1..Len(Tail(t)) : Tail(t)[i] = t[i + 1]
         /\ Head(t) = t[1]
         /\ t[1] \in S
OBVIOUS

\* What taking the first action off the list keeps, whatever it was.
LEMMA DoingKeeps ==
  ASSUME IInv, todo # <<>>, todo' = Tail(todo),
         UNCHANGED <<session, owed, pc, batch, finished>>
  PROVE  /\ SessionOK' /\ CountsOK'
         /\ OnlyDrainingDoes'
         /\ PathOncePublishing'
         /\ ResizedOnceAnnounced'
         /\ todo' # <<>> => Len(todo) > 1 /\ todo'[1] = todo[2]
PROOF
  <1>1. /\ todo \in Seq(Actions) /\ todo' \in Seq(Actions)
        /\ Len(todo) \in Nat \ {0}
        /\ Len(todo') = Len(todo) - 1
        /\ \A i \in 1..Len(todo') : todo'[i] = todo[i + 1]
    BY TailOf DEF IInv, TypeOK, DriverOK
  <1>2. SessionOK' /\ PathOncePublishing' /\ OnlyDrainingDoes'
    BY DEF IInv, TypeOK, SessionOK, session, PathOncePublishing, OnlyDrainingDoes
  <1>3. CountsOK'
    BY DEF IInv, TypeOK, CountsOK
  <1>4. ResizedOnceAnnounced'
    <2>1. ASSUME NEW i \in 1..Len(todo'), Announces(i)'
          PROVE  i < Len(todo') /\ Resizes(i + 1)'
      <3>1. i + 1 \in 1..Len(todo) /\ Announces(i + 1)
        BY <2>1, <1>1 DEF Announces
      <3>2. i + 1 < Len(todo) /\ Resizes(i + 1 + 1)
        BY <3>1 DEF IInv, ResizedOnceAnnounced
      <3>3. i + 1 \in 1..Len(todo')
        BY <3>2, <1>1
      <3> QED
        BY <3>2, <3>3, <1>1 DEF Resizes
    <2>2. ASSUME NEW i \in 2..Len(todo'), Resizes(i)'
          PROVE  Announces(i - 1)'
      <3>1. i + 1 \in 2..Len(todo) /\ Resizes(i + 1)
        BY <2>2, <1>1 DEF Resizes
      <3>2. Announces(i + 1 - 1)
        BY <3>1 DEF IInv, ResizedOnceAnnounced
      <3>3. i - 1 \in 1..Len(todo') /\ (i - 1) + 1 = i /\ (i + 1) - 1 = i
        BY <1>1
      <3> QED
        BY <3>2, <3>3, <1>1 DEF Announces
    <2> QED
      BY <2>1, <2>2 DEF ResizedOnceAnnounced
  <1>5. todo' # <<>> => Len(todo) > 1 /\ todo'[1] = todo[2]
    BY <1>1
  <1> QED
    BY <1>2, <1>3, <1>4, <1>5

\* The first action was neither the taking of a path nor a change of size.
LEMMA SameStreamKeeps ==
  ASSUME IInv, todo # <<>>, todo' = Tail(todo), todo[1].do # "publish",
         UNCHANGED <<session, pc, publisher>>
  PROVE  SettledAsStated' /\ HeldAsSettled' /\ TakenFirst' /\ UnitsAreSettled'
PROOF
  <1>1. /\ Len(todo) \in Nat \ {0}
        /\ Len(todo') = Len(todo) - 1
        /\ \A i \in 1..Len(todo') : todo'[i] = todo[i + 1]
    BY TailOf DEF IInv, TypeOK, DriverOK
  <1>2. Settled' = Settled /\ UNCHANGED <<published, pending>>
    BY DEF Settled, session
  <1>3. pc = "draining"
    BY DEF IInv, OnlyDrainingDoes
  <1>4. SettledAsStated' /\ HeldAsSettled'
    BY <1>2, <1>3 DEF IInv, SettledAsStated, HeldAsSettled
  <1>5. TakenFirst'
    BY <1>1 DEF IInv, TakenFirst
  <1>6. UnitsAreSettled'
    BY <1>1, <1>2 DEF IInv, UnitsAreSettled
  <1> QED
    BY <1>4, <1>5, <1>6

LEMMA ReplyKeeps ==
  ASSUME IInv, Reply
  PROVE  IInv'
PROOF
  <1> DEFINE written == [what |-> todo[1].what, size |-> chunk]
  <1>1. /\ todo # <<>> /\ todo' = Tail(todo) /\ Head(todo) = todo[1] /\ todo[1] \in Actions
        /\ todo[1].do = "send" /\ pc = "draining" /\ Len(todo) \in Nat \ {0}
    BY TailOf DEF Reply, Doing, IInv, TypeOK, DriverOK
  <1>2. out' = Append(out, written) /\ out \in Seq(Writes)
    BY <1>1 DEF Reply, Written, IInv, TypeOK, DriverOK
  <1>3. written \in Writes
    BY <1>1 DEF Actions, Writes, IInv, TypeOK, DriverOK
  <1>4. /\ SessionOK' /\ CountsOK' /\ OnlyDrainingDoes'
        /\ PathOncePublishing' /\ ResizedOnceAnnounced'
        /\ todo' # <<>> => Len(todo) > 1 /\ todo'[1] = todo[2]
    BY <1>1, DoingKeeps DEF Reply
  <1>5. SettledAsStated' /\ HeldAsSettled' /\ TakenFirst' /\ UnitsAreSettled'
    BY <1>1, SameStreamKeeps DEF Reply
  <1> HIDE DEF written
  <1>6. out' \in Seq(Writes)
    BY <1>2, <1>3
  <1>7. todo' \in Seq(Actions)
    BY <1>1, TailOf DEF IInv, TypeOK, DriverOK
  <1>8. TypeOK'
    BY <1>4, <1>6, <1>7 DEF Reply, IInv, TypeOK, DriverOK, FlagsOK
  <1>9. /\ Len(out) \in Nat /\ Len(out') = Len(out) + 1
        /\ \A i \in 1..Len(out) : out'[i] = out[i]
        /\ out'[Len(out) + 1] = written
    BY <1>2
  <1>10. chunk = ReadsAt
    BY <1>1 DEF IInv, WriterInStep, Resizes
  <1>11. written.size = chunk /\ written.what = todo[1].what
    BY DEF written
  <1>12. EncoderCanReadReplies'
    <2> SUFFICES ASSUME NEW i \in 1..Len(out')
                 PROVE  out'[i].size = IF \E j \in 1..(i - 1) : out'[j].what = "setChunkSize"
                                       THEN "announced" ELSE peer
      BY DEF EncoderCanReadReplies, Reply
    <2>1. CASE i \in 1..Len(out)
      BY <2>1, <1>9 DEF IInv, EncoderCanReadReplies
    <2>2. CASE i = Len(out) + 1
      BY <2>2, <1>9, <1>10, <1>11 DEF ReadsAt
    <2> QED
      BY <2>1, <2>2, <1>9
  <1>13. WriterInStep'
    <2>1. CASE Announces(1)
      <3>1. Resizes(2) /\ 1 < Len(todo)
        BY <2>1, <1>1 DEF IInv, ResizedOnceAnnounced
      <3>2. ReadsAt' = "announced"
        <4>1. Len(out) + 1 \in 1..Len(out')
          BY <1>9
        <4>2. out'[Len(out) + 1].what = "setChunkSize"
          BY <2>1, <1>9, <1>11 DEF Announces
        <4> QED
          BY <4>1, <4>2 DEF ReadsAt
      <3>3. todo' # <<>> /\ todo'[1] = todo[2]
        BY <3>1, <1>1, <1>4
      <3> QED
        BY <3>1, <3>2, <3>3 DEF WriterInStep, Resizes
    <2>2. CASE ~Announces(1)
      <3>1. written.what # "setChunkSize"
        BY <2>2, <1>1, <1>11 DEF Announces
      <3>2. ReadsAt' = ReadsAt
        BY <3>1, <1>9 DEF ReadsAt, Reply
      <3>3. todo' # <<>> => ~Resizes(1)'
        <4> SUFFICES ASSUME todo' # <<>>, todo[2].do = "setChunkSize" PROVE FALSE
          BY <1>4 DEF Resizes
        <4>1. 2 \in 2..Len(todo) /\ Resizes(2)
          BY <1>1, <1>4 DEF Resizes
        <4>2. Announces(2 - 1)
          BY <4>1 DEF IInv, ResizedOnceAnnounced
        <4> QED
          BY <4>2, <2>2
      <3> QED
        BY <3>2, <3>3, <1>10 DEF WriterInStep, Reply
    <2> QED
      BY <2>1, <2>2
  <1> QED
    BY <1>4, <1>5, <1>8, <1>12, <1>13 DEF IInv

\* Any other action of the list: nothing is written.
LEMMA UnwrittenKeeps ==
  ASSUME IInv, todo # <<>>, todo' = Tail(todo), ~Announces(1),
         UNCHANGED <<session, owed, pc, batch, out, peer, finished>>,
         chunk' = IF Resizes(1) THEN "announced" ELSE chunk
  PROVE  /\ OnlyDrainingDoes' /\ PathOncePublishing' /\ ResizedOnceAnnounced'
         /\ WriterInStep' /\ EncoderCanReadReplies'
         /\ SessionOK' /\ CountsOK'
         /\ todo' \in Seq(Actions) /\ chunk' \in Sizes
PROOF
  <1>1. /\ OnlyDrainingDoes' /\ PathOncePublishing' /\ ResizedOnceAnnounced'
        /\ SessionOK' /\ CountsOK'
        /\ todo' # <<>> => Len(todo) > 1 /\ todo'[1] = todo[2]
    BY DoingKeeps
  <1>2. todo' \in Seq(Actions) /\ Len(todo) \in Nat
    BY TailOf DEF IInv, TypeOK, DriverOK
  <1>3. chunk' \in Sizes
    BY DEF IInv, TypeOK, DriverOK, Sizes
  <1>4. EncoderCanReadReplies' /\ ReadsAt' = ReadsAt
    BY DEF IInv, EncoderCanReadReplies, ReadsAt
  <1>5. todo' # <<>> => ~Resizes(1)'
    <2> SUFFICES ASSUME todo' # <<>>, todo[2].do = "setChunkSize" PROVE FALSE
      BY <1>1 DEF Resizes
    <2>1. 2 \in 2..Len(todo) /\ Resizes(2)
      BY <1>1, <1>2 DEF Resizes
    <2>2. Announces(2 - 1)
      BY <2>1 DEF IInv, ResizedOnceAnnounced
    <2> QED
      BY <2>2
  <1>6. pc = "draining"
    BY DEF IInv, OnlyDrainingDoes
  <1>7. chunk' = ReadsAt
    BY <1>6 DEF IInv, WriterInStep
  <1>8. WriterInStep'
    BY <1>4, <1>5, <1>7 DEF WriterInStep
  <1> QED
    BY <1>1, <1>2, <1>3, <1>4, <1>8

LEMMA ResizeKeeps ==
  ASSUME IInv, Resize
  PROVE  IInv'
PROOF
  <1>1. /\ todo # <<>> /\ todo' = Tail(todo)
        /\ todo[1].do = "setChunkSize" /\ chunk' = "announced"
    BY TailOf DEF Resize, Doing, IInv, TypeOK, DriverOK
  <1>2. /\ OnlyDrainingDoes' /\ PathOncePublishing' /\ ResizedOnceAnnounced'
        /\ WriterInStep' /\ EncoderCanReadReplies'
        /\ SessionOK' /\ CountsOK'
        /\ todo' \in Seq(Actions) /\ chunk' \in Sizes
    BY <1>1, UnwrittenKeeps DEF Resize, Announces, Resizes
  <1>3. SettledAsStated' /\ HeldAsSettled' /\ TakenFirst' /\ UnitsAreSettled'
    BY <1>1, SameStreamKeeps DEF Resize
  <1>4. TypeOK'
    BY <1>2 DEF Resize, IInv, TypeOK, DriverOK, FlagsOK
  <1> QED
    BY <1>2, <1>3, <1>4 DEF IInv

LEMMA PushUnitKeeps ==
  ASSUME IInv, PushUnit
  PROVE  IInv'
PROOF
  <1>1. todo # <<>> /\ todo' = Tail(todo) /\ todo[1].do = "unit"
    BY TailOf DEF PushUnit, Doing, IInv, TypeOK, DriverOK
  <1>2. /\ OnlyDrainingDoes' /\ PathOncePublishing' /\ ResizedOnceAnnounced'
        /\ WriterInStep' /\ EncoderCanReadReplies'
        /\ SessionOK' /\ CountsOK'
        /\ todo' \in Seq(Actions) /\ chunk' \in Sizes
    BY <1>1, UnwrittenKeeps DEF PushUnit, Announces, Resizes
  <1>3. SettledAsStated' /\ HeldAsSettled' /\ TakenFirst' /\ UnitsAreSettled'
    BY <1>1, SameStreamKeeps DEF PushUnit
  <1>4. TypeOK'
    BY <1>2 DEF PushUnit, IInv, TypeOK, DriverOK, FlagsOK
  <1> QED
    BY <1>2, <1>3, <1>4 DEF IInv

LEMMA TakePathKeeps ==
  ASSUME IInv, TakePath
  PROVE  IInv'
PROOF
  <1>1. /\ todo # <<>> /\ todo' = Tail(todo) /\ todo[1] \in Actions
        /\ todo[1].do = "publish" /\ publisher' = todo[1].stream
        /\ pc = "draining"
    BY TailOf DEF TakePath, Doing, IInv, TypeOK, DriverOK
  <1>2. /\ Len(todo) \in Nat \ {0}
        /\ Len(todo') = Len(todo) - 1
        /\ \A i \in 1..Len(todo') : todo'[i] = todo[i + 1]
    BY <1>1, TailOf DEF IInv, TypeOK, DriverOK
  <1>3. /\ OnlyDrainingDoes' /\ PathOncePublishing' /\ ResizedOnceAnnounced'
        /\ WriterInStep' /\ EncoderCanReadReplies'
        /\ SessionOK' /\ CountsOK'
        /\ todo' \in Seq(Actions) /\ chunk' \in Sizes
    BY <1>1, UnwrittenKeeps DEF TakePath, Announces, Resizes
  <1>4. /\ publisher' \in Streams /\ publisher' # Unset
        /\ publisher = Unset /\ Settled /\ publisher'.tracks = published
    <2>1. todo[1].stream \in Streams
      BY <1>1 DEF Actions
    <2>2. publisher = Unset /\ Settled /\ todo[1].stream.tracks = published
      BY <1>1, <1>2 DEF IInv, TakenFirst
    <2> QED
      BY <1>1, <2>1, <2>2, UnsetIsNoName
  <1>5. Settled' = Settled /\ UNCHANGED <<published, pending, pc>>
    BY DEF Settled, session, TakePath
  <1>6. SettledAsStated' /\ HeldAsSettled'
    BY <1>4, <1>5 DEF IInv, SettledAsStated, HeldAsSettled
  <1>7. TakenFirst'
    BY <1>2 DEF IInv, TakenFirst
  <1>8. UnitsAreSettled'
    BY <1>2, <1>4, <1>5 DEF IInv, UnitsAreSettled
  <1>9. DriverOK'
    BY <1>3, <1>4, <1>5 DEF TakePath, IInv, TypeOK, DriverOK
  <1>10. FlagsOK'
    BY DEF TakePath, IInv, TypeOK, FlagsOK
  <1> QED
    BY <1>3, <1>6, <1>7, <1>8, <1>9, <1>10 DEF IInv, TypeOK

LEMMA PeerKeepsReading == IInv => ReadsAt \in Sizes
BY DEF IInv, TypeOK, DriverOK, ReadsAt, Sizes

\* The loop: nothing is left to do, and what changes is what is written.
LEMMA FlushKeeps ==
  ASSUME IInv, Flush
  PROVE  IInv'
PROOF
  <1>1. todo = <<>> /\ todo' = todo /\ out' = <<>> /\ Len(out') = 0 /\ Len(todo) = 0
    BY DEF Flush, BatchDone
  <1>2. TypeOK'
    <2>1. SessionOK'
      BY DEF Flush, session, IInv, TypeOK, SessionOK
    <2>2. CountsOK'
      BY DEF Flush, IInv, TypeOK, CountsOK
    <2>3. DriverOK'
      BY <1>1, PeerKeepsReading DEF Flush, IInv, TypeOK, DriverOK
    <2>4. FlagsOK'
      BY DEF Flush, IInv, TypeOK, FlagsOK
    <2> QED
      BY <2>1, <2>2, <2>3, <2>4 DEF TypeOK
  <1>3. chunk = ReadsAt /\ ReadsAt' = peer' /\ peer' = ReadsAt
    BY <1>1 DEF Flush, BatchDone, IInv, WriterInStep, ReadsAt
  <1>4. WriterInStep' /\ EncoderCanReadReplies'
    BY <1>1, <1>3 DEF Flush, WriterInStep, EncoderCanReadReplies
  <1>5. /\ OnlyDrainingDoes' /\ TakenFirst' /\ UnitsAreSettled' /\ ResizedOnceAnnounced'
        /\ PathOncePublishing'
    BY <1>1 DEF Flush, session, IInv, OnlyDrainingDoes, TakenFirst, UnitsAreSettled,
       ResizedOnceAnnounced, PathOncePublishing
  <1>6. SettledAsStated' /\ HeldAsSettled'
    BY <1>1 DEF Flush, BatchDone, session, IInv, SettledAsStated, HeldAsSettled, Settled
  <1> QED
    BY <1>2, <1>4, <1>5, <1>6 DEF IInv

LEMMA ReadKeeps ==
  ASSUME IInv, Read
  PROVE  IInv'
PROOF
  <1> DEFINE written == [what |-> "acknowledgement", size |-> chunk]
  <1>1. todo = <<>> /\ todo' = todo /\ Len(todo) = 0 /\ pc = "waiting" /\ pc' = "draining"
    BY DEF Read, IInv, OnlyDrainingDoes
  <1>2. written \in Writes /\ written.size = chunk /\ written.what # "setChunkSize"
    BY DEF Writes, Replies, IInv, TypeOK, DriverOK
  <1>3. out' = out \/ out' = Append(out, written)
    BY DEF Read, Written
  <1>4. out \in Seq(Writes)
    BY DEF IInv, TypeOK, DriverOK
  <1> HIDE DEF written
  <1>5. /\ out' \in Seq(Writes)
        /\ \A i \in 1..Len(out') : i \in 1..Len(out) \/ (i = Len(out) + 1 /\ out'[i] = written)
        /\ \A i \in 1..Len(out) : i \in 1..Len(out') /\ out'[i] = out[i]
        /\ Len(out) \in Nat
    BY <1>2, <1>3, <1>4
  <1>6. TypeOK'
    <2>1. SessionOK'
      BY DEF Read, session, IInv, TypeOK, SessionOK
    <2>2. CountsOK'
      BY Bounds DEF Read, AckIsOwed, IInv, TypeOK, CountsOK
    <2>3. DriverOK'
      BY <1>1, <1>5 DEF Read, IInv, TypeOK, DriverOK
    <2>4. FlagsOK'
      BY DEF Read, IInv, TypeOK, FlagsOK
    <2> QED
      BY <2>1, <2>2, <2>3, <2>4 DEF TypeOK
  <1>7. chunk = ReadsAt
    BY <1>1 DEF IInv, WriterInStep
  <1>8. ReadsAt' = ReadsAt
    BY <1>2, <1>5 DEF ReadsAt, Read
  <1>9. WriterInStep'
    BY <1>1, <1>7, <1>8 DEF WriterInStep, Read
  <1>10. EncoderCanReadReplies'
    <2> SUFFICES ASSUME NEW i \in 1..Len(out')
                 PROVE  out'[i].size = IF \E j \in 1..(i - 1) : out'[j].what = "setChunkSize"
                                       THEN "announced" ELSE peer
      BY DEF EncoderCanReadReplies, Read
    <2>1. CASE i \in 1..Len(out)
      BY <2>1, <1>5 DEF IInv, EncoderCanReadReplies
    <2>2. CASE i = Len(out) + 1 /\ out'[i] = written
      BY <2>2, <1>2, <1>5, <1>7 DEF ReadsAt
    <2> QED
      BY <2>1, <2>2, <1>5
  <1>11. /\ OnlyDrainingDoes' /\ TakenFirst' /\ UnitsAreSettled' /\ ResizedOnceAnnounced'
         /\ PathOncePublishing'
    BY <1>1 DEF Read, session, IInv, OnlyDrainingDoes, TakenFirst, UnitsAreSettled,
       ResizedOnceAnnounced, PathOncePublishing
  <1>12. SettledAsStated' /\ HeldAsSettled'
    BY <1>1 DEF Read, session, IInv, SettledAsStated, HeldAsSettled, Settled
  <1> QED
    BY <1>6, <1>9, <1>10, <1>11, <1>12 DEF IInv

\* A connection that gives its path up keeps only what it has built up to write.
LEMMA LetGoKeeps ==
  ASSUME IInv, LetGo
  PROVE  IInv'
PROOF
  <1>1. /\ todo # <<>> /\ todo[1].do = "unpublish" /\ pc = "draining"
        /\ todo' = <<>> /\ Len(todo') = 0 /\ publisher' = Unset /\ pc' = "leaving"
        /\ UNCHANGED <<state, app, path, pending, published, owed, out, chunk, peer>>
    BY TailOf DEF LetGo, Doing, session, IInv, TypeOK, DriverOK
  <1>2. TypeOK'
    <2>1. SessionOK'
      BY <1>1 DEF IInv, TypeOK, SessionOK
    <2>2. CountsOK'
      BY Bounds DEF LetGo, IInv, TypeOK, CountsOK
    <2>3. DriverOK'
      BY <1>1 DEF IInv, TypeOK, DriverOK
    <2>4. FlagsOK'
      BY DEF LetGo, IInv, TypeOK, FlagsOK
    <2> QED
      BY <2>1, <2>2, <2>3, <2>4 DEF TypeOK
  <1>3. chunk = ReadsAt /\ ReadsAt' = ReadsAt
    BY <1>1 DEF IInv, WriterInStep, Resizes, ReadsAt
  <1>4. WriterInStep' /\ EncoderCanReadReplies'
    BY <1>1, <1>3 DEF IInv, WriterInStep, EncoderCanReadReplies
  <1>5. /\ OnlyDrainingDoes' /\ TakenFirst' /\ UnitsAreSettled' /\ ResizedOnceAnnounced'
        /\ PathOncePublishing'
    BY <1>1 DEF IInv, OnlyDrainingDoes, TakenFirst, UnitsAreSettled, ResizedOnceAnnounced,
       PathOncePublishing
  <1>6. SettledAsStated' /\ HeldAsSettled'
    BY <1>1 DEF IInv, SettledAsStated, HeldAsSettled, Settled
  <1> QED
    BY <1>2, <1>4, <1>5, <1>6 DEF IInv

LEMMA StopsOrResumesKeeps ==
  ASSUME IInv, StopsOrResumes
  PROVE  IInv'
PROOF
  <1>1. UNCHANGED <<state, app, path, pending, published, owed, pc, batch, todo, out, chunk,
                    publisher, displaced, peer, finished>> /\ reading' = ~reading
    BY DEF StopsOrResumes, session
  <1>2. SessionOK' /\ CountsOK' /\ DriverOK' /\ FlagsOK'
    BY <1>1 DEF IInv, TypeOK, SessionOK, CountsOK, DriverOK, FlagsOK
  <1>3. /\ OnlyDrainingDoes' /\ SettledAsStated' /\ HeldAsSettled' /\ TakenFirst'
        /\ UnitsAreSettled' /\ PathOncePublishing'
    BY <1>1 DEF IInv, OnlyDrainingDoes, SettledAsStated, HeldAsSettled, TakenFirst,
       UnitsAreSettled, PathOncePublishing, Settled
  <1>4. ResizedOnceAnnounced' /\ WriterInStep' /\ EncoderCanReadReplies'
    BY <1>1 DEF IInv, ResizedOnceAnnounced, WriterInStep, EncoderCanReadReplies, ReadsAt,
       Announces, Resizes
  <1> QED
    BY <1>2, <1>3, <1>4 DEF IInv, TypeOK

LEMMA DisplaceKeeps ==
  ASSUME IInv, Displace
  PROVE  IInv'
PROOF
  <1>1. UNCHANGED <<state, app, path, pending, published, owed, pc, batch, todo, out, chunk,
                    publisher, reading, peer, finished>> /\ displaced' = TRUE
    BY DEF Displace, session
  <1>2. FlagsOK'
    BY <1>1 DEF IInv, TypeOK, FlagsOK
  <1>3. SessionOK' /\ CountsOK' /\ DriverOK'
    BY <1>1 DEF IInv, TypeOK, SessionOK, CountsOK, DriverOK
  <1>4. /\ OnlyDrainingDoes' /\ SettledAsStated' /\ HeldAsSettled' /\ TakenFirst'
        /\ UnitsAreSettled' /\ PathOncePublishing'
    BY <1>1 DEF IInv, OnlyDrainingDoes, SettledAsStated, HeldAsSettled, TakenFirst,
       UnitsAreSettled, PathOncePublishing, Settled
  <1>5. ResizedOnceAnnounced' /\ WriterInStep' /\ EncoderCanReadReplies'
    BY <1>1 DEF IInv, ResizedOnceAnnounced, WriterInStep, EncoderCanReadReplies, ReadsAt,
       Announces, Resizes
  <1> QED
    BY <1>2, <1>3, <1>4, <1>5 DEF IInv, TypeOK

LEMMA StutterKeeps ==
  ASSUME IInv, UNCHANGED vars
  PROVE  IInv'
BY DEF IInv, TypeOK, SessionOK, CountsOK, DriverOK, FlagsOK, OnlyDrainingDoes, SettledAsStated,
   HeldAsSettled, TakenFirst, UnitsAreSettled, PathOncePublishing, ResizedOnceAnnounced,
   WriterInStep, EncoderCanReadReplies, ReadsAt, Announces, Resizes, Settled, vars

\* Every step of the session and its driver keeps the invariant.
LEMMA NextKeeps ==
  ASSUME IInv, Next
  PROVE  IInv'
PROOF
  <1>1. CASE Handle
    <2>1. PICK m \in Messages : ~Refused(m) /\ Answers(m)
      BY <1>1 DEF Handle
    <2>2. Handling
      BY <1>1 DEF Handle
    <2> QED
      BY <2>1, <2>2, ConnectKeeps, CreateStreamKeeps, NamePathKeeps, DoneKeeps, HeaderKeeps,
         FrameKeeps, QuietKeeps DEF Answers
  <1>2. CASE Apply
    <2>1. CASE Reply
      BY <2>1, ReplyKeeps
    <2>2. CASE Resize
      BY <2>2, ResizeKeeps
    <2>3. CASE TakePath
      BY <2>3, TakePathKeeps
    <2>4. CASE PushUnit
      BY <2>4, PushUnitKeeps
    <2>5. CASE LetGo
      BY <2>5, LetGoKeeps
    <2> QED
      BY <1>2, <2>1, <2>2, <2>3, <2>4, <2>5 DEF Apply
  <1>3. CASE Fail \/ Hangup \/ Evicted
    <2>1. Closes /\ peer' = peer
      BY <1>3 DEF Fail, Hangup, Evicted
    <2> QED
      BY <2>1, ClosingKeeps DEF IInv, TypeOK, DriverOK
  <1>4. CASE Write
    BY <1>4, FlushKeeps, ClosingKeeps, PeerKeepsReading DEF Write, Leave
  <1>5. CASE Read
    BY <1>5, ReadKeeps
  <1>6. CASE Displace \/ StopsOrResumes
    BY <1>6, DisplaceKeeps, StopsOrResumesKeeps
  <1> QED
    BY <1>1, <1>2, <1>3, <1>4, <1>5, <1>6 DEF Next

\* The whole invariant, of every state the connection reaches.
THEOREM SessionInvariant == Spec => []IInv
PROOF
  <1>1. IInv /\ [Next]_vars => IInv'
    BY NextKeeps, StutterKeeps
  <1> QED
    BY <1>1, InitEstablishes, PTL DEF Spec

\* The session, its driver and what they exchange have their types.
THEOREM SessionTypes == Spec => []TypeOK
PROOF
  <1>1. IInv => TypeOK
    BY DEF IInv
  <1> QED
    BY <1>1, SessionInvariant, PTL

\* Replies are chunked as the encoder reads them, in whatever order it asks.
THEOREM RepliesAreReadable == Spec => []EncoderCanReadReplies
PROOF
  <1>1. IInv => EncoderCanReadReplies
    BY DEF IInv
  <1> QED
    BY <1>1, SessionInvariant, PTL

\* The description a stream was published with stays the one its headers say.
THEOREM DescriptionsHold == Spec => []DescriptionHolds
PROOF
  <1>1. IInv => DescriptionHolds
    BY DEF IInv, DescriptionHolds, HeldAsSettled, SettledAsStated
  <1> QED
    BY <1>1, SessionInvariant, PTL

\* Units are of the stream that was published, and come after it was.
THEOREM UnitsBelong == Spec => []UnitsBelongToTheStream
PROOF
  <1>1. ASSUME IInv PROVE UnitsBelongToTheStream
    <2> SUFFICES ASSUME NEW i \in 1..Len(todo), todo[i].do = "unit"
                 PROVE  LET k == todo[i].kind
                            stream == IF publisher # Unset THEN publisher ELSE todo[1].stream
                        IN /\ publisher # Unset \/ (todo[1].do = "publish" /\ i > 1)
                           /\ stream.tracks[k] = todo[i].params
                           /\ stream.tracks[k] # Unset
      BY DEF UnitsBelongToTheStream
    <2>1. /\ todo[i].params = published[todo[i].kind]
          /\ todo[i].params # Unset
          /\ publisher # Unset \/ (i > 1 /\ todo[1].do = "publish")
      BY <1>1 DEF IInv, UnitsAreSettled
    <2>2. publisher # Unset => publisher.tracks = published
      BY <1>1 DEF IInv, HeldAsSettled
    <2>3. todo \in Seq(Actions)
      BY <1>1 DEF IInv, TypeOK, DriverOK
    <2>4. publisher = Unset => todo[1].stream.tracks = published
      BY <1>1, <2>1, <2>3 DEF IInv, TakenFirst
    <2> QED
      BY <2>1, <2>2, <2>4
  <1> QED
    BY <1>1, SessionInvariant, PTL

\* A session that settled keeps its path for as long as the connection runs.
THEOREM SettledStaysPublished == Spec => []SettledIsPublished
PROOF
  <1>1. IInv => SettledIsPublished
    BY DEF IInv, SettledIsPublished, SettledAsStated
  <1> QED
    BY <1>1, SessionInvariant, PTL

\* A connection never takes a second path.
THEOREM PublishesOneStream == Spec => OneStreamPerConnection
PROOF
  <1>1. ASSUME IInv, Next
        PROVE  publisher # Unset => publisher' \in {publisher, Unset}
    <2>1. CASE Handle
      BY <2>1 DEF Handle, Answers, Connect, CreateStream, NamePath, Done, Header, Frame, Quiet, Asks
    <2>2. CASE TakePath
      <3>1. todo \in Seq(Actions) /\ todo # <<>> /\ todo[1].do = "publish"
        BY <1>1, <2>2, TailOf DEF TakePath, Doing, IInv, TypeOK, DriverOK
      <3>2. 1 \in 1..Len(todo)
        BY <3>1
      <3> QED
        BY <1>1, <3>1, <3>2 DEF IInv, TakenFirst
    <2>3. CASE Fail \/ LetGo \/ Leave \/ Hangup \/ Evicted
      BY <2>3 DEF Fail, LetGo, Leave, Hangup, Evicted, Closes
    <2>4. CASE Reply \/ Resize \/ PushUnit \/ Flush \/ Read \/ Displace \/ StopsOrResumes
      BY <2>4 DEF Reply, Resize, PushUnit, Flush, Read, Displace, StopsOrResumes
    <2> QED
      BY <1>1, <2>1, <2>2, <2>3, <2>4 DEF Next, Apply, Write
  <1>2. IInv /\ [Next]_vars => [publisher # Unset => publisher' \in {publisher, Unset}]_vars
    BY <1>1
  <1> QED
    BY <1>2, SessionInvariant, PTL DEF Spec, OneStreamPerConnection

(***************************************************************************)
(* The timeline, for a counter of any width: it is right unless a frame    *)
(* comes from behind a wrap, and no track's times go back.                 *)
(*                                                                         *)
(* The invariant says by how much a time may be off: every unit's time is  *)
(* the encoder's, some whole number of counters ahead, as many as frames   *)
(* had come from behind a wrap by the time the unit was made.  What turns  *)
(* the encoder's steps into the right count is Lemma CountsTheWraps.       *)
(***************************************************************************)

\* Both tracks' clocks and units are kept together, and every unit's time is
\* the encoder's, ahead by the wraps that were counted twice.
TracksInStep == \A k \in Media : (units[k] = NoUnit) <=> (clock[k] = NoUnit)

AheadByWraps ==
  \A k \in Media : units[k] # NoUnit =>
    \E b \in 0..back : units[k].dts = Elapsed(clock[k].turn + b, clock[k].stamp, origin)

\* Nothing is counted before the first frame.
NothingBefore == ~Started => wraps = 0 /\ turn = 0 /\ back = 0 /\ last = 0

TInv == TimelineOK /\ WrapsAreCounted /\ TracksInStep /\ AheadByWraps /\ NothingBefore

\* A larger count of a counter's width is at least as much.
LEMMA MoreWraps ==
  ASSUME NEW m \in Int, NEW n \in Int, m <= n
  PROVE  m * W <= n * W /\ (m < n => m * W + W <= n * W)
<1>1. W \in Nat /\ W > 0
  BY TimelineAssumption
<1>2. PICK d \in Nat : n = m + d
  <2>1. n - m \in Nat /\ n = m + (n - m)
    OBVIOUS
  <2> QED
    BY <2>1
<1>3. n * W = m * W + d * W
  BY <1>1, <1>2
<1>4. d * W >= 0
  BY <1>1, <1>2
<1>5. m < n => d * W >= W
  <2>1. SUFFICES ASSUME m < n PROVE d * W >= W
    OBVIOUS
  <2>2. d - 1 \in Nat
    BY <1>2, <2>1
  <2>3. d * W = (d - 1) * W + W
    BY <1>1, <1>2, <2>2
  <2>4. (d - 1) * W >= 0
    BY <1>1, <2>2
  <2> QED
    BY <1>1, <1>2, <2>2, <2>3, <2>4
<1>6. m * W \in Int /\ n * W \in Int /\ d * W \in Int
  BY <1>1, <1>2
<1> QED
  BY <1>1, <1>3, <1>4, <1>5, <1>6

\* Elapsed is a number, and grows with the time it is asked for.
LEMMA ElapsedIsNat ==
  ASSUME NEW n \in Int, NEW s \in Stamps, NEW o \in Stamps
  PROVE  Elapsed(n, s, o) \in Nat
<1>1. W \in Nat
  BY TimelineAssumption
<1>2. n * W \in Int
  BY <1>1
<1> QED
  BY <1>1, <1>2 DEF Elapsed, AtLeastZero, Stamps

LEMMA ElapsedGrows ==
  ASSUME NEW m \in Int, NEW n \in Int, NEW s \in Stamps, NEW r \in Stamps, NEW o \in Stamps,
         m < n \/ (m = n /\ s <= r)
  PROVE  Elapsed(m, s, o) <= Elapsed(n, r, o)
<1>1. W \in Nat
  BY TimelineAssumption
<1>2. m * W \in Int /\ n * W \in Int
  BY <1>1
<1>3. m * W + s <= n * W + r
  <2>1. CASE m < n
    <3>1. m * W + W <= n * W
      BY <2>1, MoreWraps
    <3> QED
      BY <1>1, <1>2, <3>1 DEF Stamps
  <2>2. CASE m = n /\ s <= r
    BY <1>1, <1>2, <2>2 DEF Stamps
  <2> QED
    BY <2>1, <2>2
<1> QED
  BY <1>1, <1>2, <1>3 DEF Elapsed, AtLeastZero, Stamps

\* A step the encoder can take is counted as a wrap exactly when its counter
\* wrapped.
LEMMA CountsTheWraps ==
  ASSUME NEW t \in Times, Near(t), last \in Stamps, turn \in Int
  PROVE  /\ t.turn = turn + 1 <=> Wrapped(t.stamp)
         /\ t.turn \in {turn - 1, turn, turn + 1}
<1> DEFINE low == (W - 1) \div 2
           high == W \div 2
<1>1. W \in Nat /\ W > 1 /\ Step \in 0..high /\ Skew \in 0..low
  BY TimelineAssumption
<1>2. low \in Nat /\ high \in Nat /\ low + high = W - 1
  BY <1>1
<1>3. t.turn \in Int /\ t.stamp \in 0..(W - 1) /\ last \in 0..(W - 1)
  BY DEF Times, Stamps
<1>4. Wrapped(t.stamp) <=> t.stamp < last /\ last - t.stamp > low
  BY DEF Wrapped
<1>5. \/ t.turn = turn /\ t.stamp - last >= -Skew
      \/ t.turn = turn + 1 /\ W - last + t.stamp <= Step
      \/ t.turn = turn - 1 /\ W - t.stamp + last <= Skew
  BY <1>1, <1>3 DEF Near
<1> HIDE DEF low, high
<1> QED
  BY <1>1, <1>2, <1>3, <1>4, <1>5

\* What at() read a unit at, given that the count of wraps is the encoder's
\* turn and the wraps counted twice.
LEMMA ArrivesInStep ==
  ASSUME TInv, NEW k \in Media, NEW t \in Times, NEW by \in Int, NEW counted \in Nat,
         Arrives(k, t, by, counted),
         counted = t.turn + back',
         clock[k] # NoUnit => ~Earlier(t, clock[k])
  PROVE  TInv'
<1> DEFINE from == IF Started THEN origin ELSE t.stamp
           dts == Elapsed(counted, t.stamp, from)
           unit == [dts |-> dts, pts |-> Offset(dts, by)]
<1>1. t.turn \in Int /\ t.stamp \in Stamps
  BY DEF Times
<1>2. from \in Stamps
  BY <1>1 DEF TInv, TimelineOK, CountersOK
<1>3. dts \in Nat
  BY <1>1, <1>2, ElapsedIsNat
<1>4. unit \in UnitTimes
  <2>1. Offset(dts, by) \in Nat
    BY <1>3 DEF Offset, AtLeastZero
  <2> HIDE DEF dts
  <2> QED
    BY <1>3, <2>1 DEF UnitTimes
<1>5. unit # NoUnit /\ t # NoUnit
  BY <1>4, TimelineAssumption DEF UnitTimes, Times, Stamps
<1>6. /\ origin' = from /\ last' = t.stamp /\ wraps' = counted /\ turn' = t.turn
      /\ units' = [units EXCEPT ![k] = unit]
      /\ clock' = [clock EXCEPT ![k] = t]
  BY DEF Arrives
<1>7. back' \in Nat /\ back' >= back
  <2>1. back \in Nat /\ turn \in Int
    BY DEF TInv, TimelineOK, CountersOK
  <2>2. back' = IF t.turn < turn THEN back + 1 ELSE back
    BY DEF Arrives
  <2> QED
    BY <2>1, <2>2
<1>8. CountersOK'
  BY <1>1, <1>2, <1>6, <1>7 DEF CountersOK
<1> HIDE DEF unit, from, dts
<1>9. TracksOK'
  BY <1>4, <1>6 DEF TInv, TimelineOK, TracksOK
<1>10. WrapsAreCounted'
  BY <1>6 DEF WrapsAreCounted
<1>11. units \in [Media -> UnitTimes \union {NoUnit}] /\ clock \in [Media -> Times \union {NoUnit}]
  BY DEF TInv, TimelineOK, TracksOK
<1>12. TracksInStep'
  BY <1>5, <1>6, <1>11 DEF TInv, TracksInStep
<1>13. units'[k] = unit /\ clock'[k] = t
  BY <1>6, <1>11
<1>14. AheadByWraps'
  <2>1. SUFFICES ASSUME NEW j \in Media, units'[j] # NoUnit
                 PROVE  \E b \in 0..back' :
                          units'[j].dts = Elapsed(clock'[j].turn + b, clock'[j].stamp, origin')
    BY DEF AheadByWraps, Elapsed
  <2>2. CASE j = k
    <3>1. units'[j].dts = dts
      BY <1>13, <2>2 DEF unit
    <3>2. dts = Elapsed(clock'[j].turn + back', clock'[j].stamp, origin')
      BY <1>6, <1>13, <2>2 DEF dts
    <3>3. back' \in 0..back'
      BY <1>7
    <3> QED
      BY <3>1, <3>2, <3>3
  <2>3. CASE j # k
    <3>1. units'[j] = units[j] /\ clock'[j] = clock[j]
      BY <1>6, <1>11, <2>3
    <3>2. Started
      BY <2>1, <3>1 DEF Started
    <3>3. origin' = origin
      BY <1>6, <3>2 DEF from
    <3>4. PICK b \in 0..back : units[j].dts = Elapsed(clock[j].turn + b, clock[j].stamp, origin)
      BY <2>1, <3>1 DEF TInv, AheadByWraps
    <3>5. b \in 0..back'
      <4>1. back \in Nat
        BY DEF TInv, TimelineOK, CountersOK
      <4> QED
        BY <1>7, <4>1
    <3> QED
      BY <3>1, <3>3, <3>4, <3>5
  <2> QED
    BY <2>2, <2>3
<1>15. NothingBefore'
  <2>1. Started'
    BY <1>5, <1>13 DEF Started
  <2> QED
    BY <2>1 DEF NothingBefore
<1> QED
  BY <1>8, <1>9, <1>10, <1>12, <1>14, <1>15 DEF TInv, TimelineOK

\* The first frame reads a timeline nothing has been counted on.
LEMMA FirstFrameInStep ==
  ASSUME TInv, NEW k \in Media, NEW stamp \in Stamps, NEW by \in Int, FirstFrame(k, stamp, by)
  PROVE  TInv'
<1> DEFINE t == [turn |-> 0, stamp |-> stamp]
<1>1. t \in Times /\ t.turn = 0
  BY DEF Times
<1>2. Arrives(k, t, by, wraps) /\ ~Started
  BY DEF FirstFrame
<1>3. wraps = 0 /\ turn = 0 /\ back = 0
  BY <1>2 DEF TInv, NothingBefore
<1> HIDE DEF t
<1>4. back' = 0
  BY <1>1, <1>2, <1>3 DEF Arrives
<1>5. clock[k] = NoUnit
  BY <1>2 DEF Started, TInv, TracksInStep
<1>6. wraps \in Nat /\ wraps = t.turn + back'
  BY <1>1, <1>3, <1>4
<1> QED
  BY <1>1, <1>2, <1>5, <1>6, ArrivesInStep

\* Every later frame counts a wrap exactly when the counter turned, and a
\* frame from behind one adds the wrap that will be counted a second time.
LEMMA FrameInStep ==
  ASSUME TInv, NEW k \in Media, NEW stamp \in Stamps, NEW by \in Int, NextFrame(k, stamp, by)
  PROVE  TInv'
<1>1. turn \in Int /\ last \in Stamps /\ wraps \in Nat /\ back \in Nat /\ wraps = turn + back
  BY DEF TInv, TimelineOK, CountersOK, WrapsAreCounted
<1>2. PICK t \in {[turn |-> turn + d, stamp |-> stamp] : d \in {-1, 0, 1}} :
        /\ Near(t)
        /\ clock[k] # NoUnit => ~Earlier(t, clock[k])
        /\ Arrives(k, t, by, IF Wrapped(stamp) THEN wraps + 1 ELSE wraps)
  BY DEF NextFrame
<1>3. t \in Times /\ t.stamp = stamp
  BY <1>1, <1>2 DEF Times
<1> DEFINE counted == IF Wrapped(stamp) THEN wraps + 1 ELSE wraps
<1>4. counted \in Nat
  BY <1>1
<1>5. t.turn = turn + 1 <=> Wrapped(stamp)
  BY <1>1, <1>2, <1>3, CountsTheWraps
<1>6. t.turn \in {turn - 1, turn, turn + 1}
  BY <1>1, <1>2, <1>3, CountsTheWraps
<1>7. back' = IF t.turn < turn THEN back + 1 ELSE back
  BY <1>2 DEF Arrives
<1>8. counted = t.turn + back'
  BY <1>1, <1>5, <1>6, <1>7
<1>9. Arrives(k, t, by, counted)
  BY <1>2
<1> HIDE DEF counted
<1> QED
  BY <1>2, <1>3, <1>4, <1>8, <1>9, ArrivesInStep

\* Every step is a frame of a track, whatever offset it carries.
LEMMA StepIsFrame ==
  ASSUME TimelineNext
  PROVE  \E k \in Media, stamp \in Stamps, by \in Int :
           FirstFrame(k, stamp, by) \/ NextFrame(k, stamp, by)
<1>1. PICK k \in Media, stamp \in Stamps :
        \E by \in (IF k = "video" THEN CompositionTimes ELSE {0}) :
          FirstFrame(k, stamp, by) \/ NextFrame(k, stamp, by)
  BY Zenon DEF TimelineNext
<1>2. PICK by \in (IF k = "video" THEN CompositionTimes ELSE {0}) :
        FirstFrame(k, stamp, by) \/ NextFrame(k, stamp, by)
  BY <1>1
<1>3. by \in Int
  BY TimelineAssumption
<1> QED
  BY <1>2, <1>3

\* The invariant of the timeline, for a counter of any width.
THEOREM TimelineInvariant == TimelineSpec => []TInv
<1>1. TimelineInit => TInv
  <2> SUFFICES ASSUME TimelineInit PROVE TInv
    OBVIOUS
  <2>2. W \in Nat /\ W > 1
    BY TimelineAssumption
  <2>3. CountersOK
    BY <2>2 DEF TimelineInit, CountersOK, Stamps
  <2>4. TracksOK
    BY DEF TimelineInit, TracksOK
  <2>5. WrapsAreCounted /\ TracksInStep /\ NothingBefore
    BY DEF TimelineInit, WrapsAreCounted, TracksInStep, NothingBefore
  <2>6. AheadByWraps
    BY DEF TimelineInit, AheadByWraps
  <2> QED
    BY <2>3, <2>4, <2>5, <2>6 DEF TInv, TimelineOK
<1>2. TInv /\ [TimelineNext]_timeline => TInv'
  <2>1. ASSUME TInv, TimelineNext PROVE TInv'
    <3>1. PICK k \in Media, stamp \in Stamps, by \in Int :
            FirstFrame(k, stamp, by) \/ NextFrame(k, stamp, by)
      BY <2>1, StepIsFrame
    <3> QED
      BY <2>1, <3>1, FirstFrameInStep, FrameInStep
  <2>2. ASSUME TInv, UNCHANGED timeline PROVE TInv'
    BY <2>2 DEF timeline, TInv, TimelineOK, CountersOK, TracksOK, WrapsAreCounted, TracksInStep,
                AheadByWraps, NothingBefore, Started, Elapsed
  <2> QED
    BY <2>1, <2>2
<1> QED
  BY <1>1, <1>2, PTL DEF TimelineSpec

\* The counters stay numbers, and no time is ever negative.
THEOREM TimelineTypes == TimelineSpec => []TimelineOK
<1>1. TInv => TimelineOK
  BY DEF TInv
<1> QED
  BY <1>1, TimelineInvariant, PTL

\* As long as no frame came from behind a wrap, every unit's time is the
\* encoder's, however often the counter wrapped (session.rs:549-563).
THEOREM TimesAreRight == TimelineSpec => []TimeIsRight
<1>1. TInv => TimeIsRight
  <2>1. SUFFICES ASSUME TInv, back = 0, NEW k \in Media, units[k] # NoUnit
                 PROVE  units[k].dts = Elapsed(clock[k].turn, clock[k].stamp, origin)
    BY DEF TimeIsRight
  <2>2. PICK b \in 0..back : units[k].dts = Elapsed(clock[k].turn + b, clock[k].stamp, origin)
    BY <2>1 DEF TInv, AheadByWraps
  <2>3. b = 0
    BY <2>1, <2>2
  <2>4. clock[k] \in Times
    BY <2>1 DEF TInv, TimelineOK, TracksOK, TracksInStep
  <2>5. clock[k].turn + b = clock[k].turn
    BY <2>3, <2>4 DEF Times
  <2> QED
    BY <2>2, <2>5
<1> QED
  BY <1>1, TimelineInvariant, PTL

\* No track's times go back, whatever frames of the other track come between
\* and however many of them came from behind a wrap.
LEMMA ArrivesForwards ==
  ASSUME TInv, TInv', NEW k \in Media, NEW t \in Times, NEW by \in Int, NEW counted \in Nat,
         Arrives(k, t, by, counted),
         clock[k] # NoUnit => ~Earlier(t, clock[k]),
         NEW j \in Media, units[j] # NoUnit
  PROVE  units'[j].dts >= units[j].dts
<1>1. units \in [Media -> UnitTimes \union {NoUnit}] /\ clock \in [Media -> Times \union {NoUnit}]
  BY DEF TInv, TimelineOK, TracksOK
<1>2. units[j].dts \in Nat
  BY <1>1 DEF UnitTimes
<1>3. CASE j # k
  <2>1. units'[j] = units[j]
    BY <1>1, <1>3 DEF Arrives
  <2> QED
    BY <1>2, <2>1
<1>4. CASE j = k
  <2>1. Started /\ origin \in Stamps
    BY DEF Started, TInv, TimelineOK, CountersOK
  <2>2. units'[k].dts = Elapsed(counted, t.stamp, origin)
    BY <1>1, <2>1 DEF Arrives
  <2>3. PICK b \in 0..back : units[j].dts = Elapsed(clock[j].turn + b, clock[j].stamp, origin)
    BY DEF TInv, AheadByWraps
  <2>4. counted = t.turn + back' /\ back' >= back /\ back \in Nat /\ back' \in Nat
    <3>1. back \in Nat /\ turn \in Int
      BY DEF TInv, TimelineOK, CountersOK
    <3>2. back' = IF t.turn < turn THEN back + 1 ELSE back
      BY DEF Arrives
    <3>3. wraps' = counted /\ turn' = t.turn
      BY DEF Arrives
    <3>4. wraps' = turn' + back'
      BY DEF TInv, WrapsAreCounted
    <3> QED
      BY <3>1, <3>2, <3>3, <3>4
  <2>5. clock[j] \in Times
    BY <1>1 DEF TInv, TracksInStep
  <2>6. ~Earlier(t, clock[j])
    BY <1>4, <2>5, TimelineAssumption DEF Times, Stamps
  <2>7. /\ t.turn \in Int /\ t.stamp \in Stamps /\ clock[j].turn \in Int /\ clock[j].stamp \in Stamps
        /\ b \in Int
    BY <2>3, <2>4, <2>5 DEF Times
  <2>8. \/ clock[j].turn < t.turn
        \/ clock[j].turn = t.turn /\ clock[j].stamp <= t.stamp
    <3>1. W \in Nat
      BY TimelineAssumption
    <3> QED
      BY <2>6, <2>7, <3>1 DEF Earlier, Stamps
  <2>9. \/ clock[j].turn + b < counted
        \/ clock[j].turn + b = counted /\ clock[j].stamp <= t.stamp
    BY <2>3, <2>4, <2>7, <2>8
  <2>10. Elapsed(clock[j].turn + b, clock[j].stamp, origin) <= Elapsed(counted, t.stamp, origin)
    BY <2>1, <2>7, <2>9, ElapsedGrows
  <2>11. units[j].dts <= units'[j].dts
    BY <1>4, <2>2, <2>3, <2>10
  <2>12. units'[j].dts \in Nat
    BY <1>4, <2>1, <2>2, <2>7, ElapsedIsNat
  <2> QED
    BY <1>2, <2>11, <2>12
<1> QED
  BY <1>3, <1>4

\* A track whose frames are in order has units in order, across any number of
\* wraps and whatever the other track does (session.rs:535-536).
THEOREM TimesGoForwards == TimelineSpec => GoesForwards
<1>1. TInv /\ [TimelineNext]_timeline
        => [\A k \in Media : units[k] # NoUnit => units'[k].dts >= units[k].dts]_timeline
  <2>1. SUFFICES ASSUME TInv, TimelineNext, NEW j \in Media, units[j] # NoUnit
                 PROVE  units'[j].dts >= units[j].dts
    OBVIOUS
  <2>2. PICK k \in Media, stamp \in Stamps, by \in Int :
          FirstFrame(k, stamp, by) \/ NextFrame(k, stamp, by)
    BY <2>1, StepIsFrame
  <2>3. NextFrame(k, stamp, by)
    BY <2>1, <2>2 DEF FirstFrame, Started
  <2>4. PICK t \in {[turn |-> turn + d, stamp |-> stamp] : d \in {-1, 0, 1}} :
          /\ clock[k] # NoUnit => ~Earlier(t, clock[k])
          /\ Arrives(k, t, by, IF Wrapped(stamp) THEN wraps + 1 ELSE wraps)
    BY <2>3 DEF NextFrame
  <2>5. t \in Times /\ wraps \in Nat
    BY <2>1, <2>4 DEF Times, TInv, TimelineOK, CountersOK
  <2>6. (IF Wrapped(stamp) THEN wraps + 1 ELSE wraps) \in Nat
    BY <2>5
  <2>7. TInv'
    BY <2>1, <2>3, FrameInStep
  <2> QED
    BY <2>1, <2>4, <2>5, <2>6, <2>7, ArrivesForwards
<1> QED
  BY <1>1, TimelineInvariant, PTL DEF TimelineSpec, GoesForwards
=============================================================================
