------------------------ MODULE RtspConnectionProofs ------------------------
(***************************************************************************)
(* RtspConnection, proved for every set of paths, descriptions, channels   *)
(* and codecs, tracks and requests in a read without bound.                *)
(*                                                                         *)
(* Session and driver are changed by different steps, so that between the  *)
(* answer to a PLAY or PAUSE and the step that follows it they disagree:   *)
(* InStep says by how much.  That a SETUP finds nothing playing, which is  *)
(* why packets keep to the channels agreed, is a consequence of it.        *)
(***************************************************************************)
EXTENDS RtspConnection, TLAPS

\* An act is pending only while draining, and it is what the session just did.
ActsWhileDraining ==
  /\ act # "none" => pc = "draining"
  /\ act = "play" => state = "Playing" /\ path # None
  /\ act = "pause" => state = "Ready"

\* But for a pending act and a connection about to close, the session plays
\* exactly while the driver is attached.
InStep ==
  act = "none" /\ (pc \in {"draining", "waiting"} \/ (pc = "writing" /\ then = "waiting"))
    => (state = "Playing" <=> playing # None)

\* Every track that is set up is so as it was last agreed.
TracksAsAgreed ==
  \A s \in tracks : agreed[s.track] # None /\ agreed[s.track].channel = s.channel

\* What is bound was set up.
BoundIsSetUp ==
  playing # None => \A b \in playing.bound : \E s \in tracks : s.track = b.track /\ s.channel = b.channel

\* Packets are built up only to be written at once.
PacketsAreWritten == pc = "draining" => \A n \in 1..Len(out) : out[n].is = "answer"

\* A read's requests are either still to be handled or answered.
RequestsAddUp == pc = "draining" => batch + unanswered <= MaxBatch

CInv ==
  /\ TypeOK
  /\ ActsWhileDraining /\ InStep
  /\ TracksAsAgreed /\ BoundIsSetUp
  /\ PacketsAreWritten /\ PacketsGoWhereAgreed
  /\ RequestsAddUp /\ AnsweredBeforeWaiting

LEMMA ConstantsAre ==
  /\ MaxTracks \in Nat /\ MaxBatch \in Nat
  /\ None \notin Paths /\ None \notin Channels /\ None \notin Plays /\ None \notin Agreements
BY ConnectionAssumption

LEMMA DescriptionsAre ==
  ASSUME NEW d \in Descriptions
  PROVE  /\ d # None /\ d \in Seq(Codecs) /\ Len(d) \in 1..MaxTracks
         /\ \A i \in Tracks : i <= Len(d) => d[i] \in Codecs
<1>1. d # None /\ d \in Seq(Codecs) /\ Len(d) \in 1..MaxTracks
  BY ConnectionAssumption
<1>2. \A i \in Tracks : i <= Len(d) => d[i] \in Codecs
  BY <1>1, ConstantsAre DEF Tracks
<1> QED
  BY <1>1, <1>2

\* What is appended to what was built up, and where.
LEMMA Appended ==
  ASSUME NEW w \in Writes, out \in Seq(Writes), out' = Append(out, w)
  PROVE  /\ out' \in Seq(Writes) /\ Len(out') = Len(out) + 1 /\ Len(out) \in Nat
         /\ out'[Len(out) + 1] = w
         /\ \A n \in 1..Len(out) : out'[n] = out[n]
OBVIOUS

\* An answer, given what the request did to the session: the session may only
\* change what is set up while nothing plays, and asks the driver for what
\* brings it in step again.
LEMMA AnswersKeep ==
  ASSUME CInv, NEW next \in {"none", "play", "pause", "teardown"}, Answers(next),
         SessionOK', agreed' \in [Tracks -> Agreements \union {None}], TracksAsAgreed',
         next = "play" => state' = "Playing" /\ path' # None,
         next = "pause" => state' = "Ready",
         next = "none" => (state' = "Playing" <=> state = "Playing"),
         playing # None => tracks' = tracks
  PROVE  CInv'
<1>1. /\ pc = "draining" /\ act = "none" /\ batch > 0
      /\ batch' = batch - 1 /\ out' = Append(out, Answer) /\ unanswered' = unanswered + 1
      /\ act' = next
      /\ pc' = pc /\ then' = then /\ playing' = playing /\ on' = on
      /\ source' = source /\ reading' = reading
  BY DEF Answers
<1>2. Answer \in Writes /\ Answer.is = "answer"
  BY DEF Answer, Writes
<1>3. out \in Seq(Writes)
  BY DEF CInv, TypeOK, DriverOK
<1>4. /\ out' \in Seq(Writes) /\ Len(out') = Len(out) + 1 /\ Len(out) \in Nat
      /\ out'[Len(out) + 1] = Answer
      /\ \A n \in 1..Len(out) : out'[n] = out[n]
  BY <1>1, <1>2, <1>3, Appended
<1>5. DriverOK'
  BY <1>1, <1>4 DEF CInv, TypeOK, DriverOK
<1>6. CountsOK' /\ RequestsAddUp'
  BY <1>1, ConstantsAre DEF CInv, TypeOK, CountsOK, RequestsAddUp
<1>7. PlayingOK' /\ AroundOK' /\ FlagOK'
  BY <1>1 DEF CInv, TypeOK, PlayingOK, AroundOK, FlagOK
<1>8. ActsWhileDraining'
  BY <1>1 DEF ActsWhileDraining
<1>9. InStep'
  BY <1>1 DEF CInv, InStep
<1>10. BoundIsSetUp'
  BY <1>1 DEF CInv, BoundIsSetUp
<1>11. \A n \in 1..Len(out') : out'[n].is = "answer"
  <2>1. \A n \in 1..Len(out) : out[n].is = "answer"
    BY <1>1 DEF CInv, PacketsAreWritten
  <2>2. ASSUME NEW n \in 1..Len(out') PROVE out'[n].is = "answer"
    <3>1. CASE n = Len(out) + 1
      BY <1>2, <1>4, <3>1
    <3>2. CASE n # Len(out) + 1
      <4>1. n \in 1..Len(out)
        BY <1>4, <3>2
      <4> QED
        BY <1>4, <2>1, <4>1
    <3> QED
      BY <3>1, <3>2
  <2> QED
    BY <2>2
<1>12. PacketsAreWritten' /\ PacketsGoWhereAgreed'
  BY <1>11 DEF PacketsAreWritten, PacketsGoWhereAgreed
<1>13. AnsweredBeforeWaiting'
  BY <1>1 DEF AnsweredBeforeWaiting
<1> QED
  BY <1>5, <1>6, <1>7, <1>8, <1>9, <1>10, <1>12, <1>13 DEF CInv, TypeOK

LEMMA RemarkKeeps ==
  ASSUME CInv, NEW next \in {"none", "teardown"}, Answers(next), Unmoved
  PROVE  CInv'
<1>1. state' = state /\ path' = path /\ tracks' = tracks /\ agreed' = agreed
  BY DEF Unmoved
<1>2. SessionOK' /\ TracksAsAgreed' /\ agreed' \in [Tracks -> Agreements \union {None}]
  BY <1>1 DEF CInv, TypeOK, SessionOK, AroundOK, TracksAsAgreed
<1> QED
  BY <1>1, <1>2, AnswersKeep

LEMMA DescribeKeeps ==
  ASSUME CInv, NEW p \in Paths, Describe(p)
  PROVE  CInv'
<1>1. /\ Answers("none") /\ state' = state /\ tracks' = tracks /\ agreed' = agreed
      /\ path' \in {p, path}
  BY DEF Describe
<1>2. SessionOK' /\ TracksAsAgreed' /\ agreed' \in [Tracks -> Agreements \union {None}]
  BY <1>1 DEF CInv, TypeOK, SessionOK, AroundOK, TracksAsAgreed
<1> QED
  BY <1>1, <1>2, AnswersKeep

\* A SETUP is accepted only while nothing plays.
LEMMA SetupKeeps ==
  ASSUME CInv, NEW p \in Paths, NEW i \in Tracks \union {None}, NEW c \in Channels \union {None},
         Setup(p, i, c)
  PROVE  CInv'
<1>1. CASE ~Accepts(p, i, c)
  <2>1. Answers("none") /\ Unmoved
    BY <1>1 DEF Setup, Remark
  <2> QED
    BY <2>1, RemarkKeeps
<1>2. CASE Accepts(p, i, c)
  <2> DEFINE agreement == [path |-> p, channel |-> c, codec |-> source[p][i], fresh |-> TRUE]
             s == [track |-> i, channel |-> c]
  <2>1. /\ Answers("none") /\ path' = p /\ state' = "Ready" /\ tracks' = SetUp(s)
        /\ agreed' = [agreed EXCEPT ![i] = agreement]
    BY <1>2 DEF Setup
  <2>2. state # "Playing" /\ source[p] # None /\ i # None /\ i <= Len(source[p]) /\ c # None
    BY <1>2 DEF Accepts
  <2>3. i \in Tracks /\ c \in Channels /\ source[p] \in Descriptions
    BY <2>2 DEF CInv, TypeOK, AroundOK
  <2>4. source[p][i] \in Codecs
    BY <2>2, <2>3, DescriptionsAre
  <2>5. agreement \in Agreements /\ agreement.channel = c
    BY <2>3, <2>4 DEF Agreements
  <2>6. agreement # None
    BY <2>5, ConstantsAre
  <2>7. s \in Setups /\ s.track = i /\ s.channel = c
    BY <2>3 DEF Setups
  <2> HIDE DEF s, agreement
  <2>8. agreed \in [Tracks -> Agreements \union {None}] /\ tracks \subseteq Setups
    BY DEF CInv, TypeOK, AroundOK, SessionOK
  <2>9. agreed' \in [Tracks -> Agreements \union {None}]
    BY <2>1, <2>3, <2>5, <2>8
  <2>10. tracks' = {o \in tracks : o.track # s.track} \union {s}
    BY <2>1 DEF SetUp
  <2>11. SessionOK'
    BY <2>1, <2>7, <2>8, <2>10 DEF SessionOK
  <2>12. TracksAsAgreed'
    <3>1. SUFFICES ASSUME NEW o \in tracks'
                   PROVE  agreed'[o.track] # None /\ agreed'[o.track].channel = o.channel
      BY DEF TracksAsAgreed
    <3>2. CASE o = s
      BY <2>1, <2>3, <2>5, <2>6, <2>7, <2>8, <3>2
    <3>3. CASE o # s
      <4>1. o \in tracks /\ o.track # i
        BY <2>7, <2>10, <3>1, <3>3
      <4>2. agreed'[o.track] = agreed[o.track]
        <5>1. o.track \in Tracks
          BY <2>8, <4>1 DEF Setups
        <5> QED
          BY <2>1, <2>8, <4>1, <5>1
      <4> QED
        BY <4>1, <4>2 DEF CInv, TracksAsAgreed
    <3> QED
      BY <3>2, <3>3
  <2>13. playing = None
    BY <2>1, <2>2 DEF Answers, CInv, InStep
  <2> QED
    BY <2>1, <2>2, <2>9, <2>11, <2>12, <2>13, AnswersKeep
<1> QED
  BY <1>1, <1>2

LEMMA PlayKeeps ==
  ASSUME CInv, Play
  PROVE  CInv'
<1>1. CASE ~MayPlay
  <2>1. Answers("none") /\ Unmoved
    BY <1>1 DEF Play, Remark
  <2> QED
    BY <2>1, RemarkKeeps
<1>2. CASE MayPlay
  <2>1. /\ Answers("play") /\ state' = "Playing" /\ path' = path /\ path # None
        /\ tracks' = tracks /\ agreed' = agreed
    BY <1>2 DEF Play, MayPlay
  <2>2. SessionOK' /\ TracksAsAgreed' /\ agreed' \in [Tracks -> Agreements \union {None}]
    BY <2>1 DEF CInv, TypeOK, SessionOK, AroundOK, TracksAsAgreed
  <2> QED
    BY <2>1, <2>2, AnswersKeep
<1> QED
  BY <1>1, <1>2

LEMMA PauseKeeps ==
  ASSUME CInv, Pause
  PROVE  CInv'
<1>1. CASE state # "Playing"
  <2>1. Answers("none") /\ Unmoved
    BY <1>1 DEF Pause, Remark
  <2> QED
    BY <2>1, RemarkKeeps
<1>2. CASE state = "Playing"
  <2>1. /\ Answers("pause") /\ state' = "Ready" /\ path' = path
        /\ tracks' = tracks /\ agreed' = agreed
    BY <1>2 DEF Pause
  <2>2. SessionOK' /\ TracksAsAgreed' /\ agreed' \in [Tracks -> Agreements \union {None}]
    BY <2>1 DEF CInv, TypeOK, SessionOK, AroundOK, TracksAsAgreed
  <2> QED
    BY <2>1, <2>2, AnswersKeep
<1> QED
  BY <1>1, <1>2

\* A connection that returns leaves nothing behind.
LEMMA CloseKeeps ==
  ASSUME CInv, Close
  PROVE  CInv'
<1>1. /\ pc' = "closed" /\ out' = <<>> /\ batch' = 0 /\ act' = "none"
      /\ playing' = None /\ on' = None /\ unanswered' = 0
      /\ state' = state /\ path' = path /\ tracks' = tracks /\ then' = then
      /\ source' = source /\ reading' = reading /\ agreed' = agreed
  BY DEF Close
<1>2. SessionOK' /\ AroundOK' /\ FlagOK' /\ PlayingOK' /\ TracksAsAgreed'
  BY <1>1 DEF CInv, TypeOK, SessionOK, AroundOK, FlagOK, PlayingOK, TracksAsAgreed
<1>3. DriverOK'
  BY <1>1 DEF CInv, TypeOK, DriverOK
<1>4. CountsOK'
  BY <1>1, ConstantsAre DEF CountsOK
<1>5. ActsWhileDraining' /\ InStep' /\ BoundIsSetUp' /\ PacketsAreWritten' /\ RequestsAddUp'
      /\ AnsweredBeforeWaiting'
  BY <1>1 DEF ActsWhileDraining, InStep, BoundIsSetUp, PacketsAreWritten, RequestsAddUp,
              AnsweredBeforeWaiting
<1>6. PacketsGoWhereAgreed'
  BY <1>1 DEF PacketsGoWhereAgreed
<1> QED
  BY <1>2, <1>3, <1>4, <1>5, <1>6 DEF CInv, TypeOK

\* What a step of the driver that builds nothing up has to show.
LEMMA DriverKeeps ==
  ASSUME CInv, out' = out,
         UNCHANGED <<state, path, tracks, source, reading, agreed>>,
         DriverOK', CountsOK', PlayingOK', ActsWhileDraining', InStep', BoundIsSetUp',
         PacketsAreWritten', RequestsAddUp', AnsweredBeforeWaiting'
  PROVE  CInv'
<1>1. SessionOK' /\ AroundOK' /\ FlagOK' /\ TracksAsAgreed'
  BY DEF CInv, TypeOK, SessionOK, AroundOK, FlagOK, TracksAsAgreed
<1>2. PacketsGoWhereAgreed'
  BY DEF CInv, PacketsGoWhereAgreed
<1> QED
  BY <1>1, <1>2 DEF CInv, TypeOK

LEMMA InterleavedKeeps ==
  ASSUME CInv, Interleaved
  PROVE  CInv'
<1>1. DriverOK' /\ PlayingOK'
  BY DEF Interleaved, CInv, TypeOK, DriverOK, PlayingOK
<1>2. CountsOK' /\ RequestsAddUp'
  BY ConstantsAre DEF Interleaved, CInv, TypeOK, CountsOK, RequestsAddUp
<1>3. ActsWhileDraining' /\ InStep' /\ BoundIsSetUp' /\ PacketsAreWritten' /\ AnsweredBeforeWaiting'
  BY DEF Interleaved, CInv, ActsWhileDraining, InStep, BoundIsSetUp, PacketsAreWritten,
         AnsweredBeforeWaiting
<1> QED
  BY <1>1, <1>2, <1>3, DriverKeeps DEF Interleaved

\* What attach() binds is of the description it read, and was set up.
LEMMA AttachKeeps ==
  ASSUME CInv, Attach
  PROVE  CInv'
<1>1. /\ pc = "draining" /\ act = "play" /\ act' = "none" /\ out' = out /\ batch' = batch
      /\ unanswered' = unanswered
      /\ UNCHANGED <<state, path, tracks, source, reading, agreed>>
  BY DEF Attach
<1>2. state = "Playing" /\ path \in Paths
  BY <1>1 DEF CInv, ActsWhileDraining, TypeOK, SessionOK
<1>3. CountsOK' /\ ActsWhileDraining'
  BY <1>1 DEF CInv, TypeOK, CountsOK, ActsWhileDraining
<1>4. CASE source[path] = None
  <2>1. playing' = None /\ on' = None /\ pc' = "writing" /\ then' = "closed"
    BY <1>4 DEF Attach, WriteThen
  <2>2. DriverOK' /\ PlayingOK'
    BY <1>1, <2>1 DEF CInv, TypeOK, DriverOK, PlayingOK
  <2>3. InStep' /\ BoundIsSetUp' /\ PacketsAreWritten' /\ RequestsAddUp' /\ AnsweredBeforeWaiting'
    BY <1>1, <2>1 DEF InStep, BoundIsSetUp, PacketsAreWritten, RequestsAddUp, AnsweredBeforeWaiting
  <2> QED
    BY <1>1, <1>3, <2>2, <2>3, DriverKeeps
<1>5. CASE source[path] # None
  <2> DEFINE d == source[path]
             play == [desc |-> d, bound |-> Bound(d), ended |-> FALSE]
  <2>1. playing' = play /\ on' = path /\ pc' = pc /\ then' = then
    BY <1>5 DEF Attach
  <2>2. d \in Descriptions /\ tracks \subseteq Setups
    BY <1>2, <1>5 DEF CInv, TypeOK, AroundOK, SessionOK
  <2>3. Bound(d) \subseteq Bounds
    <3>1. SUFFICES ASSUME NEW s \in tracks, s.track <= Len(d)
                   PROVE  [track |-> s.track, channel |-> s.channel, codec |-> d[s.track]] \in Bounds
      BY DEF Bound
    <3>2. s.track \in Tracks /\ s.channel \in Channels
      BY <2>2 DEF Setups
    <3>3. d[s.track] \in Codecs
      BY <2>2, <3>1, <3>2, DescriptionsAre
    <3> QED
      BY <3>2, <3>3 DEF Bounds
  <2>4. \A b \in Bound(d) : \E s \in tracks : s.track = b.track /\ s.channel = b.channel
    BY DEF Bound
  <2>5. play \in Plays
    BY <2>2, <2>3 DEF Plays
  <2>6. play.bound = Bound(d) /\ play # None
    BY <2>5, ConstantsAre
  <2> HIDE DEF play, d
  <2>7. DriverOK' /\ PlayingOK'
    BY <1>1, <1>2, <2>1, <2>5 DEF CInv, TypeOK, DriverOK, PlayingOK
  <2>8. InStep' /\ PacketsAreWritten' /\ RequestsAddUp' /\ AnsweredBeforeWaiting'
    BY <1>1, <1>2, <2>1, <2>6 DEF CInv, InStep, PacketsAreWritten, RequestsAddUp, AnsweredBeforeWaiting
  <2>9. BoundIsSetUp'
    BY <1>1, <2>1, <2>4, <2>6 DEF BoundIsSetUp
  <2> QED
    BY <1>1, <1>3, <2>7, <2>8, <2>9, DriverKeeps
<1> QED
  BY <1>4, <1>5

LEMMA DetachKeeps ==
  ASSUME CInv, Detach
  PROVE  CInv'
<1>1. DriverOK' /\ PlayingOK'
  BY DEF Detach, CInv, TypeOK, DriverOK, PlayingOK
<1>2. CountsOK' /\ RequestsAddUp'
  BY DEF Detach, CInv, TypeOK, CountsOK, RequestsAddUp
<1>3. ActsWhileDraining' /\ InStep' /\ BoundIsSetUp' /\ PacketsAreWritten' /\ AnsweredBeforeWaiting'
  BY DEF Detach, CInv, ActsWhileDraining, InStep, BoundIsSetUp, PacketsAreWritten,
         AnsweredBeforeWaiting
<1> QED
  BY <1>1, <1>2, <1>3, DriverKeeps DEF Detach

LEMMA TearDownKeeps ==
  ASSUME CInv, TearDown
  PROVE  CInv'
<1>1. DriverOK' /\ PlayingOK'
  BY DEF TearDown, WriteThen, CInv, TypeOK, DriverOK, PlayingOK
<1>2. CountsOK' /\ RequestsAddUp'
  BY DEF TearDown, WriteThen, CInv, TypeOK, CountsOK, RequestsAddUp
<1>3. ActsWhileDraining' /\ InStep' /\ BoundIsSetUp' /\ PacketsAreWritten' /\ AnsweredBeforeWaiting'
  BY DEF TearDown, WriteThen, CInv, ActsWhileDraining, InStep, BoundIsSetUp, PacketsAreWritten,
         AnsweredBeforeWaiting
<1> QED
  BY <1>1, <1>2, <1>3, DriverKeeps DEF TearDown

LEMMA DrainedKeeps ==
  ASSUME CInv, Drained
  PROVE  CInv'
<1>1. DriverOK' /\ PlayingOK'
  BY DEF Drained, WriteThen, CInv, TypeOK, DriverOK, PlayingOK
<1>2. CountsOK' /\ RequestsAddUp'
  BY DEF Drained, WriteThen, CInv, TypeOK, CountsOK, RequestsAddUp
<1>3. ActsWhileDraining' /\ InStep' /\ BoundIsSetUp' /\ PacketsAreWritten' /\ AnsweredBeforeWaiting'
  BY DEF Drained, WriteThen, CInv, ActsWhileDraining, InStep, BoundIsSetUp, PacketsAreWritten,
         AnsweredBeforeWaiting
<1> QED
  BY <1>1, <1>2, <1>3, DriverKeeps DEF Drained

LEMMA WrittenKeeps ==
  ASSUME CInv, Written
  PROVE  CInv'
<1>1. CASE then = "closed" /\ Close
  BY <1>1, CloseKeeps
<1>2. CASE /\ pc = "writing" /\ then = "waiting" /\ pc' = "waiting" /\ out' = <<>> /\ unanswered' = 0
           /\ UNCHANGED <<state, path, tracks, then, batch, act, playing, on, source, reading, agreed>>
  <2>1. SessionOK' /\ AroundOK' /\ FlagOK' /\ PlayingOK' /\ TracksAsAgreed'
    BY <1>2 DEF CInv, TypeOK, SessionOK, AroundOK, FlagOK, PlayingOK, TracksAsAgreed
  <2>2. DriverOK'
    BY <1>2 DEF CInv, TypeOK, DriverOK
  <2>3. CountsOK'
    BY <1>2, ConstantsAre DEF CInv, TypeOK, CountsOK
  <2>4. act = "none"
    BY <1>2 DEF CInv, ActsWhileDraining
  <2>5. ActsWhileDraining' /\ InStep' /\ BoundIsSetUp' /\ PacketsAreWritten' /\ RequestsAddUp'
        /\ AnsweredBeforeWaiting'
    BY <1>2, <2>4 DEF CInv, ActsWhileDraining, InStep, BoundIsSetUp, PacketsAreWritten, RequestsAddUp,
                AnsweredBeforeWaiting
  <2>6. PacketsGoWhereAgreed'
    BY <1>2 DEF PacketsGoWhereAgreed
  <2> QED
    BY <2>1, <2>2, <2>3, <2>5, <2>6 DEF CInv, TypeOK
<1> QED
  BY <1>1, <1>2 DEF Written

LEMMA ReadKeeps ==
  ASSUME CInv, NEW n \in 0..MaxBatch, Read(n)
  PROVE  CInv'
<1>1. pc = "waiting" /\ unanswered = 0 /\ out = <<>>
  BY DEF Read, CInv, AnsweredBeforeWaiting
<1>2. DriverOK' /\ PlayingOK'
  BY DEF Read, CInv, TypeOK, DriverOK, PlayingOK
<1>3. CountsOK' /\ RequestsAddUp'
  BY <1>1, ConstantsAre DEF Read, CInv, TypeOK, CountsOK, RequestsAddUp
<1>4. ActsWhileDraining' /\ InStep' /\ BoundIsSetUp' /\ AnsweredBeforeWaiting'
  BY DEF Read, CInv, ActsWhileDraining, InStep, BoundIsSetUp, AnsweredBeforeWaiting
<1>5. PacketsAreWritten'
  BY <1>1 DEF Read, PacketsAreWritten
<1> QED
  BY <1>2, <1>3, <1>4, <1>5, DriverKeeps DEF Read

\* A packet goes out on the channel it was bound to, which is the one agreed.
LEMMA UnitKeeps ==
  ASSUME CInv, NEW i \in Tracks, Unit(i)
  PROVE  CInv'
<1>1. /\ pc = "waiting" /\ playing # None /\ pc' = "writing" /\ then' = "waiting"
      /\ UNCHANGED <<state, path, tracks, batch, act, playing, on, source, reading, agreed, unanswered>>
  BY DEF Unit, WriteThen
<1>2. out = <<>> /\ unanswered = 0
  BY <1>1 DEF CInv, AnsweredBeforeWaiting
<1>3. SessionOK' /\ AroundOK' /\ FlagOK' /\ PlayingOK' /\ TracksAsAgreed'
  BY <1>1 DEF CInv, TypeOK, SessionOK, AroundOK, FlagOK, PlayingOK, TracksAsAgreed
<1>4. CountsOK'
  BY <1>1 DEF CInv, TypeOK, CountsOK
<1>5. ActsWhileDraining' /\ InStep' /\ BoundIsSetUp' /\ PacketsAreWritten' /\ RequestsAddUp'
      /\ AnsweredBeforeWaiting'
  BY <1>1 DEF CInv, ActsWhileDraining, InStep, BoundIsSetUp, PacketsAreWritten, RequestsAddUp,
              AnsweredBeforeWaiting
<1>6. CASE out' = out
  <2>1. DriverOK'
    BY <1>1, <1>6 DEF CInv, TypeOK, DriverOK
  <2>2. PacketsGoWhereAgreed'
    BY <1>2, <1>6 DEF PacketsGoWhereAgreed
  <2> QED
    BY <1>3, <1>4, <1>5, <2>1, <2>2 DEF CInv, TypeOK
<1>7. ASSUME NEW b \in playing.bound, out' = Append(out, Packet(b)) PROVE CInv'
  <2>1. playing \in Plays
    BY <1>1 DEF CInv, TypeOK, PlayingOK
  <2>2. b \in Bounds
    BY <1>7, <2>1 DEF Plays
  <2>3. Packet(b) \in Writes /\ Packet(b).from = b
    BY <2>2 DEF Packet, Writes
  <2>4. out \in Seq(Writes)
    BY DEF CInv, TypeOK, DriverOK
  <2>5. out' \in Seq(Writes) /\ Len(out') = 1 /\ out'[1] = Packet(b)
    <3>1. Len(out) = 0
      BY <1>2
    <3> QED
      BY <1>7, <2>3, <2>4, <3>1, Appended
  <2>6. DriverOK'
    BY <1>1, <2>5 DEF CInv, TypeOK, DriverOK
  <2>7. PICK s \in tracks : s.track = b.track /\ s.channel = b.channel
    BY <1>1, <1>7 DEF CInv, BoundIsSetUp
  <2>8. agreed[b.track] # None /\ agreed[b.track].channel = b.channel
    BY <2>7 DEF CInv, TracksAsAgreed
  <2>9. PacketsGoWhereAgreed'
    <3>1. SUFFICES ASSUME NEW n \in 1..Len(out')
                   PROVE  /\ agreed'[out'[n].from.track] # None
                          /\ out'[n].from.channel = agreed'[out'[n].from.track].channel
      BY DEF PacketsGoWhereAgreed
    <3>2. n = 1
      BY <2>5
    <3>3. out'[n].from = b
      BY <2>3, <2>5, <3>2
    <3> QED
      BY <1>1, <2>8, <3>3
  <2> QED
    BY <1>3, <1>4, <1>5, <2>6, <2>9 DEF CInv, TypeOK
<1> QED
  BY <1>6, <1>7 DEF Unit

\* What happens around the connection: the stream played may be marked ended,
\* and what was agreed be of a stream that is over.
LEMMA AroundKeeps ==
  ASSUME CInv, AroundOK', FlagOK', PlayingOK', BoundIsSetUp',
         playing' = None <=> playing = None,
         \A i \in Tracks : /\ agreed'[i] = None <=> agreed[i] = None
                           /\ agreed[i] # None => agreed'[i].channel = agreed[i].channel,
         UNCHANGED <<state, path, tracks, pc, then, batch, act, out, on, unanswered>>
  PROVE  CInv'
<1>1. SessionOK' /\ DriverOK' /\ CountsOK'
  BY DEF CInv, TypeOK, SessionOK, DriverOK, CountsOK
<1>2. /\ ActsWhileDraining' /\ InStep' /\ PacketsAreWritten' /\ RequestsAddUp'
      /\ AnsweredBeforeWaiting'
  BY DEF CInv, ActsWhileDraining, InStep, PacketsAreWritten, RequestsAddUp, AnsweredBeforeWaiting
<1>3. TracksAsAgreed'
  <2>1. SUFFICES ASSUME NEW s \in tracks
                 PROVE  agreed'[s.track] # None /\ agreed'[s.track].channel = s.channel
    BY DEF TracksAsAgreed
  <2>2. s.track \in Tracks
    BY DEF CInv, TypeOK, SessionOK, Setups
  <2>3. agreed[s.track] # None /\ agreed[s.track].channel = s.channel
    BY DEF CInv, TracksAsAgreed
  <2> QED
    BY <2>2, <2>3
<1>4. PacketsGoWhereAgreed'
  <2>1. SUFFICES ASSUME NEW n \in 1..Len(out), out[n].is = "packet"
                 PROVE  /\ agreed'[out[n].from.track] # None
                        /\ out[n].from.channel = agreed'[out[n].from.track].channel
    BY DEF PacketsGoWhereAgreed
  <2>2. out[n] \in Writes
    BY <2>1 DEF CInv, TypeOK, DriverOK
  <2>3. out[n].from.track \in Tracks
    BY <2>1, <2>2 DEF Writes, Bounds
  <2>4. agreed[out[n].from.track] # None
        /\ out[n].from.channel = agreed[out[n].from.track].channel
    BY <2>1 DEF CInv, PacketsGoWhereAgreed
  <2> QED
    BY <2>3, <2>4
<1> QED
  BY <1>1, <1>2, <1>3, <1>4 DEF CInv, TypeOK

\* Stale changes what was agreed in nothing else.
LEMMA StaleIs ==
  ASSUME AroundOK, NEW p \in Paths, NEW i \in Tracks
  PROVE  /\ Stale(p)[i] \in Agreements \union {None}
         /\ Stale(p)[i] = None <=> agreed[i] = None
         /\ agreed[i] # None =>
              /\ Stale(p)[i].channel = agreed[i].channel
              /\ Stale(p)[i].path = agreed[i].path
              /\ Stale(p)[i].codec = agreed[i].codec
              /\ Stale(p)[i].fresh => agreed[i].fresh /\ agreed[i].path # p
<1>1. agreed[i] \in Agreements \union {None}
  BY DEF AroundOK
<1>2. CASE agreed[i] # None /\ agreed[i].path = p
  <2>1. agreed[i] \in Agreements /\ Stale(p)[i] = [agreed[i] EXCEPT !.fresh = FALSE]
    BY <1>1, <1>2 DEF Stale
  <2>2. Stale(p)[i] \in Agreements /\ ~Stale(p)[i].fresh
        /\ Stale(p)[i].channel = agreed[i].channel /\ Stale(p)[i].path = agreed[i].path
        /\ Stale(p)[i].codec = agreed[i].codec
    BY <2>1 DEF Agreements
  <2> QED
    BY <1>2, <2>2, ConstantsAre
<1>3. CASE ~(agreed[i] # None /\ agreed[i].path = p)
  BY <1>1, <1>3 DEF Stale
<1> QED
  BY <1>2, <1>3

LEMMA RepublishKeeps ==
  ASSUME CInv, NEW p \in Paths, NEW d \in Descriptions \union {None}, Republish(p, d)
  PROVE  CInv'
<1>1. /\ source' = [source EXCEPT ![p] = d]
      /\ playing' = IF playing # None /\ on = p THEN [playing EXCEPT !.ended = TRUE] ELSE playing
      /\ agreed' = Stale(p)
      /\ UNCHANGED <<state, path, tracks, pc, then, batch, act, out, on, reading, unanswered>>
  BY DEF Republish
<1>6. AroundOK
  BY DEF CInv, TypeOK
<1>7. agreed' \in [Tracks -> Agreements \union {None}]
  BY <1>1, <1>6, StaleIs DEF Stale
<1>8. \A i \in Tracks : /\ agreed'[i] = None <=> agreed[i] = None
                        /\ agreed[i] # None => agreed'[i].channel = agreed[i].channel
  BY <1>1, <1>6, StaleIs
<1>2. AroundOK' /\ FlagOK'
  BY <1>1, <1>7 DEF CInv, TypeOK, AroundOK, FlagOK
<1>3. playing \in Plays \union {None}
  BY DEF CInv, TypeOK, PlayingOK
<1>4. CASE playing' = playing
  <2>1. PlayingOK' /\ BoundIsSetUp'
    BY <1>1, <1>3, <1>4 DEF CInv, PlayingOK, BoundIsSetUp
  <2> QED
    BY <1>1, <1>2, <1>4, <1>8, <2>1, AroundKeeps
<1>5. CASE playing # None /\ playing' = [playing EXCEPT !.ended = TRUE]
  <2>1. playing \in Plays
    BY <1>3, <1>5
  <2>2. playing' \in Plays /\ playing'.bound = playing.bound
    BY <1>5, <2>1 DEF Plays
  <2>3. playing' # None
    BY <2>2, ConstantsAre
  <2>4. PlayingOK' /\ BoundIsSetUp'
    BY <1>1, <1>5, <2>2 DEF CInv, PlayingOK, BoundIsSetUp
  <2> QED
    BY <1>1, <1>2, <1>5, <1>8, <2>3, <2>4, AroundKeeps
<1> QED
  BY <1>1, <1>4, <1>5

LEMMA StopsOrResumesKeeps ==
  ASSUME CInv, StopsOrResumes
  PROVE  CInv'
<1>1. AroundOK' /\ FlagOK' /\ PlayingOK' /\ BoundIsSetUp'
  BY DEF StopsOrResumes, CInv, TypeOK, AroundOK, FlagOK, PlayingOK, BoundIsSetUp
<1> QED
  BY <1>1, AroundKeeps DEF StopsOrResumes

(***************************************************************************)
(* The theorems                                                            *)
(***************************************************************************)

LEMMA StartsRight == Init => CInv
<1> SUFFICES ASSUME Init PROVE CInv
  OBVIOUS
<1>1. SessionOK /\ DriverOK /\ PlayingOK /\ FlagOK
  BY DEF Init, SessionOK, DriverOK, PlayingOK, FlagOK
<1>2. AroundOK /\ CountsOK
  BY ConstantsAre DEF Init, AroundOK, CountsOK
<1>3. /\ ActsWhileDraining /\ InStep /\ TracksAsAgreed /\ BoundIsSetUp /\ PacketsAreWritten
      /\ RequestsAddUp /\ AnsweredBeforeWaiting
  BY DEF Init, ActsWhileDraining, InStep, TracksAsAgreed, BoundIsSetUp, PacketsAreWritten,
         RequestsAddUp, AnsweredBeforeWaiting
<1>4. PacketsGoWhereAgreed
  BY DEF Init, PacketsGoWhereAgreed
<1> QED
  BY <1>1, <1>2, <1>3, <1>4 DEF CInv, TypeOK

LEMMA HandleKeeps ==
  ASSUME CInv, Handle
  PROVE  CInv'
<1>1. CASE Interleaved
  BY <1>1, InterleavedKeeps
<1>2. CASE Remark \/ Teardown
  BY <1>2, RemarkKeeps DEF Remark, Teardown
<1>3. CASE Play \/ Pause
  BY <1>3, PlayKeeps, PauseKeeps
<1>4. CASE NotRtsp
  BY <1>4, CloseKeeps DEF NotRtsp
<1>5. CASE \E p \in Paths : Describe(p)
  BY <1>5, DescribeKeeps
<1>6. CASE \E p \in Paths, i \in Tracks \union {None}, c \in Channels \union {None} : Setup(p, i, c)
  BY <1>6, SetupKeeps
<1> QED
  BY <1>1, <1>2, <1>3, <1>4, <1>5, <1>6 DEF Handle

\* The invariant of the connection.
THEOREM ConnectionInvariant == Spec => []CInv
<1>1. ASSUME CInv, Next PROVE CInv'
  <2>1. CASE Drain
    BY <1>1, <2>1, HandleKeeps, AttachKeeps, DetachKeeps, TearDownKeeps, DrainedKeeps DEF Drain
  <2>2. CASE Write \/ Hangup \/ StreamEnded
    BY <1>1, <2>2, WrittenKeeps, CloseKeeps DEF Write, Stalled, Hangup, StreamEnded
  <2>3. CASE StopsOrResumes
    BY <1>1, <2>3, StopsOrResumesKeeps
  <2>4. CASE \E n \in 0..MaxBatch : Read(n)
    BY <1>1, <2>4, ReadKeeps
  <2>5. CASE \E i \in Tracks : Unit(i)
    BY <1>1, <2>5, UnitKeeps
  <2>6. CASE \E p \in Paths, d \in Descriptions \union {None} : Republish(p, d)
    BY <1>1, <2>6, RepublishKeeps
  <2> QED
    BY <1>1, <2>1, <2>2, <2>3, <2>4, <2>5, <2>6 DEF Next
<1>2. ASSUME CInv, UNCHANGED vars PROVE CInv'
  <2>1. TypeOK'
    BY <1>2 DEF vars, CInv, TypeOK, SessionOK, DriverOK, CountsOK, PlayingOK, AroundOK, FlagOK
  <2>2. /\ ActsWhileDraining' /\ InStep' /\ TracksAsAgreed' /\ BoundIsSetUp' /\ PacketsAreWritten'
        /\ PacketsGoWhereAgreed' /\ RequestsAddUp' /\ AnsweredBeforeWaiting'
    BY <1>2 DEF vars, CInv, ActsWhileDraining, InStep, TracksAsAgreed, BoundIsSetUp,
                PacketsAreWritten, PacketsGoWhereAgreed, RequestsAddUp, AnsweredBeforeWaiting
  <2> QED
    BY <2>1, <2>2 DEF CInv
<1>3. CInv /\ [Next]_vars => CInv'
  BY <1>1, <1>2
<1> QED
  BY <1>3, StartsRight, PTL DEF Spec

\* Every part of the connection keeps its type.
THEOREM ConnectionTypes == Spec => []TypeOK
<1>1. CInv => TypeOK
  BY DEF CInv
<1> QED
  BY <1>1, ConnectionInvariant, PTL

\* Whenever the connection waits, the session says it plays exactly if the
\* driver is attached to a stream (session.rs:274-309, server.rs:115-136).
THEOREM TheyAgree == Spec => []SessionAndDriverAgree
<1>1. CInv => SessionAndDriverAgree
  <2> SUFFICES ASSUME CInv, pc = "waiting" PROVE state = "Playing" <=> playing # None
    BY DEF SessionAndDriverAgree
  <2>1. act = "none"
    BY DEF CInv, ActsWhileDraining
  <2> QED
    BY <2>1 DEF CInv, InStep
<1> QED
  BY <1>1, ConnectionInvariant, PTL

\* No packet is sent on a channel other than the one its track was last set
\* up on (session.rs:258-262, server.rs:186-222).
THEOREM PacketsKeepToChannels == Spec => []PacketsGoWhereAgreed
<1>1. CInv => PacketsGoWhereAgreed
  BY DEF CInv
<1> QED
  BY <1>1, ConnectionInvariant, PTL

\* The connection never waits with an answer unwritten (server.rs:138).
THEOREM AnswersComeFirst == Spec => []AnsweredBeforeWaiting
<1>1. CInv => AnsweredBeforeWaiting
  BY DEF CInv
<1> QED
  BY <1>1, ConnectionInvariant, PTL

(***************************************************************************)
(* What is played is what was set up                                       *)
(***************************************************************************)

\* What was agreed and not published anew since is what is published.
FreshIsPublished ==
  \A i \in Tracks :
    agreed[i] # None /\ agreed[i].fresh =>
      /\ source[agreed[i].path] # None
      /\ i <= Len(source[agreed[i].path])
      /\ source[agreed[i].path][i] = agreed[i].codec

PInv == FreshIsPublished /\ PlaysWhatWasSetUp

\* Steps that leave tracks, agreements and streams alone, and attach to none.
LEMMA LeavesAsAgreed ==
  ASSUME PInv, UNCHANGED <<tracks, source, agreed>>,
         playing' = None \/ (playing' = playing /\ on' = on)
  PROVE  PInv'
BY DEF PInv, FreshIsPublished, PlaysWhatWasSetUp

LEMMA SetupAsAgreed ==
  ASSUME CInv, PInv, NEW p \in Paths, NEW i \in Tracks \union {None},
         NEW c \in Channels \union {None}, Setup(p, i, c)
  PROVE  PInv'
<1>1. CASE ~Accepts(p, i, c)
  BY <1>1, LeavesAsAgreed DEF Setup, Remark, Answers, Unmoved
<1>2. CASE Accepts(p, i, c)
  <2> DEFINE agreement == [path |-> p, channel |-> c, codec |-> source[p][i], fresh |-> TRUE]
  <2>1. /\ act = "none" /\ pc = "draining" /\ playing' = playing /\ source' = source
        /\ agreed' = [agreed EXCEPT ![i] = agreement]
    BY <1>2 DEF Setup, Answers
  <2>2. state # "Playing" /\ source[p] # None /\ i # None /\ i <= Len(source[p])
    BY <1>2 DEF Accepts
  <2>3. playing' = None
    BY <2>1, <2>2 DEF CInv, InStep
  <2>4. agreed \in [Tracks -> Agreements \union {None}] /\ i \in Tracks
    BY <2>2 DEF CInv, TypeOK, AroundOK
  <2>5. agreement.path = p /\ agreement.codec = source[p][i]
    OBVIOUS
  <2> HIDE DEF agreement
  <2>6. FreshIsPublished'
    <3>1. SUFFICES ASSUME NEW j \in Tracks, agreed'[j] # None, agreed'[j].fresh
                   PROVE  /\ source[agreed'[j].path] # None
                          /\ j <= Len(source[agreed'[j].path])
                          /\ source[agreed'[j].path][j] = agreed'[j].codec
      BY <2>1 DEF FreshIsPublished
    <3>2. CASE j = i
      <4>1. agreed'[j] = agreement
        BY <2>1, <2>4, <3>2
      <4> QED
        BY <2>2, <2>5, <3>2, <4>1
    <3>3. CASE j # i
      <4>1. agreed'[j] = agreed[j]
        BY <2>1, <2>4, <3>3
      <4> QED
        BY <3>1, <4>1 DEF PInv, FreshIsPublished
    <3> QED
      BY <3>2, <3>3
  <2> QED
    BY <2>3, <2>6 DEF PInv, PlaysWhatWasSetUp
<1> QED
  BY <1>1, <1>2

\* What attach() reads is what was agreed, as long as that is fresh.
LEMMA AttachAsAgreed ==
  ASSUME CInv, PInv, Attach
  PROVE  PInv'
<1>1. UNCHANGED <<path, tracks, source, agreed>>
  BY DEF Attach
<1>2. CASE source[path] = None
  BY <1>1, <1>2, LeavesAsAgreed DEF Attach
<1>3. CASE source[path] # None
  <2> DEFINE d == source[path]
             play == [desc |-> d, bound |-> Bound(d), ended |-> FALSE]
  <2>1. playing' = play /\ on' = path
    BY <1>3 DEF Attach
  <2>2. playing'.bound = Bound(d)
    BY <2>1
  <2>3. ASSUME NEW s \in tracks, agreed[s.track].fresh, agreed[s.track].path = path
        PROVE  [track |-> s.track, channel |-> agreed[s.track].channel,
                codec |-> agreed[s.track].codec] \in Bound(d)
    <3>1. s.track \in Tracks
      BY DEF CInv, TypeOK, SessionOK, Setups
    <3>2. agreed[s.track] # None /\ agreed[s.track].channel = s.channel
      BY DEF CInv, TracksAsAgreed
    <3>3. s.track <= Len(d) /\ d[s.track] = agreed[s.track].codec
      BY <2>3, <3>1, <3>2 DEF PInv, FreshIsPublished
    <3> QED
      BY <3>2, <3>3 DEF Bound
  <2> HIDE DEF play, d
  <2>4. PlaysWhatWasSetUp'
    BY <1>1, <2>1, <2>2, <2>3 DEF PlaysWhatWasSetUp
  <2> QED
    BY <1>1, <2>4 DEF PInv, FreshIsPublished
<1> QED
  BY <1>2, <1>3

LEMMA RepublishAsAgreed ==
  ASSUME CInv, PInv, NEW p \in Paths, NEW d \in Descriptions \union {None}, Republish(p, d)
  PROVE  PInv'
<1>1. /\ source' = [source EXCEPT ![p] = d]
      /\ playing' = IF playing # None /\ on = p THEN [playing EXCEPT !.ended = TRUE] ELSE playing
      /\ agreed' = Stale(p)
      /\ tracks' = tracks /\ on' = on
  BY DEF Republish
<1>2. AroundOK /\ tracks \subseteq Setups /\ playing \in Plays \union {None}
  BY DEF CInv, TypeOK, SessionOK, PlayingOK
<1>3. FreshIsPublished'
  <2>1. SUFFICES ASSUME NEW i \in Tracks, agreed'[i] # None, agreed'[i].fresh
                 PROVE  /\ source'[agreed'[i].path] # None
                        /\ i <= Len(source'[agreed'[i].path])
                        /\ source'[agreed'[i].path][i] = agreed'[i].codec
    BY DEF FreshIsPublished
  <2>2. /\ agreed[i] # None /\ agreed[i].fresh /\ agreed[i].path # p
        /\ agreed'[i].path = agreed[i].path /\ agreed'[i].codec = agreed[i].codec
    BY <1>1, <1>2, <2>1, StaleIs
  <2>3. agreed[i].path \in Paths
    BY <1>2, <2>2 DEF AroundOK, Agreements
  <2>4. source'[agreed[i].path] = source[agreed[i].path]
    BY <1>1, <1>2, <2>2, <2>3 DEF AroundOK
  <2> QED
    BY <2>2, <2>4 DEF PInv, FreshIsPublished
<1>4. PlaysWhatWasSetUp'
  <2>1. SUFFICES ASSUME playing' # None, NEW s \in tracks,
                        agreed'[s.track].fresh, agreed'[s.track].path = on
                 PROVE  [track |-> s.track, channel |-> agreed'[s.track].channel,
                         codec |-> agreed'[s.track].codec] \in playing'.bound
    BY <1>1 DEF PlaysWhatWasSetUp
  <2>2. s.track \in Tracks /\ agreed[s.track] # None
    BY <1>2 DEF Setups, CInv, TracksAsAgreed
  <2>3. /\ agreed[s.track].fresh /\ agreed[s.track].path # p
        /\ agreed'[s.track].path = agreed[s.track].path
        /\ agreed'[s.track].channel = agreed[s.track].channel
        /\ agreed'[s.track].codec = agreed[s.track].codec
    BY <1>1, <1>2, <2>1, <2>2, StaleIs
  <2>4. playing' = playing
    BY <1>1, <2>1, <2>3
  <2> QED
    BY <2>1, <2>3, <2>4 DEF PInv, PlaysWhatWasSetUp
<1> QED
  BY <1>3, <1>4 DEF PInv

LEMMA HandleAsAgreed ==
  ASSUME CInv, PInv, Handle
  PROVE  PInv'
<1>1. CASE Interleaved \/ NotRtsp
  BY <1>1, LeavesAsAgreed DEF Interleaved, NotRtsp, Close
<1>2. CASE Remark \/ Teardown
  BY <1>2, LeavesAsAgreed DEF Remark, Teardown, Answers, Unmoved
<1>3. CASE Play \/ Pause
  BY <1>3, LeavesAsAgreed DEF Play, Pause, Remark, Answers, Unmoved
<1>4. CASE \E p \in Paths : Describe(p)
  BY <1>4, LeavesAsAgreed DEF Describe, Answers
<1>5. CASE \E p \in Paths, i \in Tracks \union {None}, c \in Channels \union {None} : Setup(p, i, c)
  BY <1>5, SetupAsAgreed
<1> QED
  BY <1>1, <1>2, <1>3, <1>4, <1>5 DEF Handle

\* A track that was agreed on the stream still published is sent on its
\* channel as the codec it was agreed to have (session.rs:258-262,
\* server.rs:186-222): no order of SETUP, PLAY, PAUSE and DESCRIBE breaks it.
THEOREM PlaysAsSetUp == Spec => []PlaysWhatWasSetUp
<1>1. ASSUME CInv, PInv, Next PROVE PInv'
  <2>1. CASE Drain
    <3>1. CASE Detach \/ TearDown \/ Drained
      BY <1>1, <3>1, LeavesAsAgreed DEF Detach, TearDown, Drained
    <3> QED
      BY <1>1, <2>1, <3>1, HandleAsAgreed, AttachAsAgreed DEF Drain
  <2>2. CASE Write \/ Hangup \/ StreamEnded
    BY <1>1, <2>2, LeavesAsAgreed DEF Write, Written, Stalled, Hangup, StreamEnded, Close
  <2>3. CASE StopsOrResumes
    BY <1>1, <2>3, LeavesAsAgreed DEF StopsOrResumes
  <2>4. CASE \E n \in 0..MaxBatch : Read(n)
    BY <1>1, <2>4, LeavesAsAgreed DEF Read
  <2>5. CASE \E i \in Tracks : Unit(i)
    BY <1>1, <2>5, LeavesAsAgreed DEF Unit
  <2>6. CASE \E p \in Paths, d \in Descriptions \union {None} : Republish(p, d)
    BY <1>1, <2>6, RepublishAsAgreed
  <2> QED
    BY <1>1, <2>1, <2>2, <2>3, <2>4, <2>5, <2>6 DEF Next
<1>2. ASSUME PInv, UNCHANGED vars PROVE PInv'
  BY <1>2, LeavesAsAgreed DEF vars
<1>3. Init => PInv
  BY DEF Init, PInv, FreshIsPublished, PlaysWhatWasSetUp
<1>4. CInv /\ PInv /\ [Next]_vars => PInv'
  BY <1>1, <1>2
<1>5. PInv => PlaysWhatWasSetUp
  BY DEF PInv
<1> QED
  BY <1>3, <1>4, <1>5, ConnectionInvariant, PTL DEF Spec
=============================================================================
