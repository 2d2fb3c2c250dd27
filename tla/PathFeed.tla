------------------------------ MODULE PathFeed ------------------------------
(***************************************************************************)
(* One published stream and the readers attached to it: the Source of      *)
(* src/src/path.rs (its keyframe cache and its bounded broadcast channel), *)
(* Publisher::push under the source's lock, Registry::read's attachment,   *)
(* and Reader::next with the resynchronisation of a reader that lagged.    *)
(*                                                                         *)
(* A unit is its position in `sent`.  The broadcast channel (tokio, not in *)
(* the repository) is the last BACKLOG positions of `sent`, and a receiver *)
(* is a cursor into it.  One step is one acquisition of a lock: a push, an *)
(* attachment, or one poll of the receiver, so every interleaving of a     *)
(* push with the awaits inside next() is a behaviour.                      *)
(***************************************************************************)
EXTENDS Integers, Sequences

CONSTANTS
  Readers,      \* the readers that may attach
  Selecting,    \* those polling next() in a select!, which may drop the future
  Lens,         \* the unit sizes in bytes a publisher may send
  BACKLOG,      \* units the channel retains
  CACHE_LIMIT,  \* bytes the cache retains
  MaxUnits      \* bound: units one publisher sends

ASSUMPTION FeedAssumption ==
  /\ Selecting \subseteq Readers
  /\ Lens \subseteq Nat
  /\ BACKLOG \in Nat \ {0}
  /\ CACHE_LIMIT \in Nat
  /\ MaxUnits \in Nat

VARIABLES
  sent,     \* every unit pushed, in order: [kind, upto], upto counting bytes
  open,     \* whether the source, and so the channel's sender, still exists
  cache,    \* Source::cache: [units, bytes, overflowed, pictures]
  phase,    \* how far each reader's call of next() has come
  backlog,  \* Reader::backlog
  cursor,   \* Reader::feed: the next unit its receiver will look at
  skipped   \* Reader::skipped

\* History, for the properties.
VARIABLES
  first,    \* the first unit each reader was offered
  last,     \* the last one handed over, first - 1 before any
  got,      \* how many were handed over
  thrown,   \* how many resync() read past
  torn      \* a resync() was dropped half way and nothing handed over since

source == <<sent, open, cache>>
history == <<first, last, got, thrown, torn>>
vars == <<sent, open, cache, phase, backlog, cursor, skipped,
          first, last, got, thrown, torn>>

(***************************************************************************)
(* Units                                                                   *)
(***************************************************************************)

Kinds == {"key", "delta", "sound"}
Units == [kind : Kinds, upto : Nat]

\* Bytes of the first n units of a stream, and of its units a to b.
UpTo(stream, n) == IF n = 0 THEN 0 ELSE stream[n].upto
Bytes(stream, a, b) == UpTo(stream, b) - UpTo(stream, a - 1)

\* Mutant: asks Unit::is_keyframe, true of sound, where a group is cut.
IsKeyframe(unit) == unit.kind # "delta"

\* Unit::opens_a_stream: a video keyframe, never sound.
OpensAStream(unit) == unit.kind = "key"

\* The oldest unit the channel still holds.
Oldest == IF Len(sent) > BACKLOG THEN Len(sent) - BACKLOG + 1 ELSE 1

(***************************************************************************)
(* The keyframe cache                                                      *)
(***************************************************************************)

Caches == [units : Seq(Nat), bytes : Nat, overflowed : BOOLEAN, pictures : BOOLEAN]

EmptyCache == [units |-> <<>>, bytes |-> 0, overflowed |-> FALSE, pictures |-> FALSE]
NewGroup == [units |-> <<>>, bytes |-> 0, overflowed |-> FALSE, pictures |-> TRUE]
TooLong == [units |-> <<>>, bytes |-> 0, overflowed |-> TRUE, pictures |-> TRUE]

\* Units go from the front until the rest fits.
DropOldest(c, stream) ==
  LET Left(k) == c.bytes - Bytes(stream, c.units[1], c.units[k])
      gone == CHOOSE k \in 1..Len(c.units) :
                /\ Left(k) <= CACHE_LIMIT
                /\ \A j \in 1..(k - 1) : Left(j) > CACHE_LIMIT
  IN [c EXCEPT !.units = SubSeq(@, gone + 1, Len(@)), !.bytes = Left(gone)]

\* `base` and one more unit, the last of `stream`.
Grown(base, stream) ==
  LET n == Len(stream)
  IN [units |-> Append(base.units, n), bytes |-> base.bytes + Bytes(stream, n, n),
      overflowed |-> FALSE, pictures |-> base.pictures]

\* Mutant: a keyframe does not clear `overflowed`.
CachePushStaysOverflowed(stream) ==
  LET base == IF OpensAStream(stream[Len(stream)])
              THEN [NewGroup EXCEPT !.overflowed = cache.overflowed] ELSE cache
      grown == Grown(base, stream)
  IN IF base.overflowed THEN base
     ELSE IF grown.bytes <= CACHE_LIMIT THEN grown
     ELSE IF base.pictures THEN TooLong
     ELSE DropOldest(grown, stream)

\* Cache::push of the last unit of `stream`.
CachePush(stream) ==
  LET base == IF OpensAStream(stream[Len(stream)]) THEN NewGroup ELSE cache
      grown == Grown(base, stream)
  IN IF base.overflowed THEN base
     ELSE IF grown.bytes <= CACHE_LIMIT THEN grown
     ELSE IF base.pictures THEN TooLong
     ELSE DropOldest(grown, stream)

(***************************************************************************)
(* State                                                                   *)
(***************************************************************************)

\* A reader not attached, between calls of next(), awaiting the feed in
\* next(), awaiting it in resync(), or told that the publisher has gone.
Phases == {"off", "idle", "recv", "resync", "ended"}

TypeOK ==
  /\ sent \in Seq(Units)
  /\ open \in BOOLEAN
  /\ cache \in Caches
  /\ phase \in [Readers -> Phases]
  /\ backlog \in [Readers -> Seq(Nat)]
  /\ cursor \in [Readers -> Nat \ {0}]
  /\ skipped \in [Readers -> Nat]
  /\ first \in [Readers -> Nat \ {0}]
  /\ last \in [Readers -> Nat]
  /\ got \in [Readers -> Nat]
  /\ thrown \in [Readers -> Nat]
  /\ torn \in [Readers -> BOOLEAN]

Init ==
  /\ sent = <<>>
  /\ open = TRUE
  /\ cache = EmptyCache
  /\ phase = [r \in Readers |-> "off"]
  /\ backlog = [r \in Readers |-> <<>>]
  /\ cursor = [r \in Readers |-> 1]
  /\ skipped = [r \in Readers |-> 0]
  /\ first = [r \in Readers |-> 1]
  /\ last = [r \in Readers |-> 0]
  /\ got = [r \in Readers |-> 0]
  /\ thrown = [r \in Readers |-> 0]
  /\ torn = [r \in Readers |-> FALSE]

(***************************************************************************)
(* The publisher                                                           *)
(***************************************************************************)

\* Publisher::push: the cache and the channel, under the source's lock.
Push(kind, len) ==
  LET stream == Append(sent, [kind |-> kind, upto |-> UpTo(sent, Len(sent)) + len])
  IN /\ open
     /\ Len(sent) < MaxUnits
     /\ sent' = stream
     /\ cache' = CachePush(stream)
     /\ UNCHANGED <<open, phase, backlog, cursor, skipped, history>>

\* The source is dropped: its publisher went, or another took the path.
Close ==
  /\ open
  /\ open' = FALSE
  /\ UNCHANGED <<sent, cache, phase, backlog, cursor, skipped, history>>

(***************************************************************************)
(* A reader                                                                *)
(***************************************************************************)

\* A Reader made with this backlog, its receiver at unit `from`.
Begin(r, units, from) ==
  /\ phase' = [phase EXCEPT ![r] = "idle"]
  /\ backlog' = [backlog EXCEPT ![r] = units]
  /\ cursor' = [cursor EXCEPT ![r] = from]
  /\ skipped' = [skipped EXCEPT ![r] = 0]
  /\ first' = [first EXCEPT ![r] = Len(sent) - Len(units) + 1]
  /\ last' = [last EXCEPT ![r] = Len(sent) - Len(units)]
  /\ got' = [got EXCEPT ![r] = 0]
  /\ thrown' = [thrown EXCEPT ![r] = 0]
  /\ torn' = [torn EXCEPT ![r] = FALSE]
  /\ UNCHANGED source

\* Mutant: the receiver starts at the oldest unit held, not after the newest.
AttachAtOldest(r) == open /\ phase[r] = "off" /\ Begin(r, cache.units, Oldest)

\* Registry::read: the cache is copied and the feed subscribed to under one
\* lock; a subscription starts after what has been sent.
Attach(r) == open /\ phase[r] = "off" /\ Begin(r, cache.units, Len(sent) + 1)

\* The Reader is dropped.
Detach(r) ==
  /\ phase[r] # "off"
  /\ phase' = [phase EXCEPT ![r] = "off"]
  /\ backlog' = [backlog EXCEPT ![r] = <<>>]
  /\ cursor' = [cursor EXCEPT ![r] = 1]
  /\ skipped' = [skipped EXCEPT ![r] = 0]
  /\ first' = [first EXCEPT ![r] = 1]
  /\ last' = [last EXCEPT ![r] = 0]
  /\ got' = [got EXCEPT ![r] = 0]
  /\ thrown' = [thrown EXCEPT ![r] = 0]
  /\ torn' = [torn EXCEPT ![r] = FALSE]
  /\ UNCHANGED source

\* next() returns unit n.
HandOver(r, n) ==
  /\ phase' = [phase EXCEPT ![r] = "idle"]
  /\ last' = [last EXCEPT ![r] = n]
  /\ got' = [got EXCEPT ![r] = @ + 1]
  /\ torn' = [torn EXCEPT ![r] = FALSE]
  /\ UNCHANGED <<source, first, thrown>>

\* next() finds something in the backlog.
TakeBacklog(r) ==
  /\ phase[r] = "idle"
  /\ backlog[r] # <<>>
  /\ HandOver(r, Head(backlog[r]))
  /\ backlog' = [backlog EXCEPT ![r] = Tail(@)]
  /\ UNCHANGED <<cursor, skipped>>

\* next() finds the backlog empty and polls the feed.
Await(r) ==
  /\ phase[r] = "idle"
  /\ backlog[r] = <<>>
  /\ phase' = [phase EXCEPT ![r] = "recv"]
  /\ UNCHANGED <<source, backlog, cursor, skipped, history>>

Receiving(r) == phase[r] \in {"recv", "resync"}

\* broadcast::Receiver::recv gives Ok, Lagged or Closed.
HasUnit(r) == Oldest <= cursor[r] /\ cursor[r] <= Len(sent)
HasLagged(r) == cursor[r] < Oldest
HasClosed(r) == ~open /\ cursor[r] = Len(sent) + 1

RecvUnit(r) ==
  /\ phase[r] = "recv"
  /\ HasUnit(r)
  /\ HandOver(r, cursor[r])
  /\ cursor' = [cursor EXCEPT ![r] = @ + 1]
  /\ UNCHANGED <<backlog, skipped>>

\* Mutant: a lag inside resync() is not counted.
RecvLaggedUncounted(r) ==
  /\ Receiving(r) /\ HasLagged(r)
  /\ phase' = [phase EXCEPT ![r] = "resync"]
  /\ cursor' = [cursor EXCEPT ![r] = Oldest]
  /\ skipped' = IF phase[r] = "recv"
                THEN [skipped EXCEPT ![r] = @ + (Oldest - cursor[r])] ELSE skipped
  /\ UNCHANGED <<source, backlog, history>>

\* The first recv of next(), or a later one of resync(), finds the reader
\* overrun: the receiver moves to the oldest unit held.
RecvLagged(r) ==
  /\ Receiving(r) /\ HasLagged(r)
  /\ phase' = [phase EXCEPT ![r] = "resync"]
  /\ cursor' = [cursor EXCEPT ![r] = Oldest]
  /\ skipped' = [skipped EXCEPT ![r] = @ + (Oldest - cursor[r])]
  /\ UNCHANGED <<source, backlog, history>>

\* Mutant: next() gives the picture found a copy of, and leaves it where it was.
ResyncFoundKept(r) ==
  /\ phase[r] = "resync"
  /\ HasUnit(r)
  /\ OpensAStream(sent[cursor[r]])
  /\ backlog' = [backlog EXCEPT ![r] = Append(@, cursor[r])]
  /\ HandOver(r, Head(backlog'[r]))
  /\ cursor' = [cursor EXCEPT ![r] = @ + 1]
  /\ UNCHANGED skipped

\* resync() reaches a picture, pushes it to the backlog and next() pops it.
ResyncFound(r) ==
  /\ phase[r] = "resync"
  /\ HasUnit(r)
  /\ OpensAStream(sent[cursor[r]])
  /\ HandOver(r, Head(Append(backlog[r], cursor[r])))
  /\ backlog' = [backlog EXCEPT ![r] = Tail(Append(@, cursor[r]))]
  /\ cursor' = [cursor EXCEPT ![r] = @ + 1]
  /\ UNCHANGED skipped

\* resync() reads past a unit nothing can be started at.
ResyncPast(r) ==
  /\ phase[r] = "resync"
  /\ HasUnit(r)
  /\ ~OpensAStream(sent[cursor[r]])
  /\ cursor' = [cursor EXCEPT ![r] = @ + 1]
  /\ thrown' = [thrown EXCEPT ![r] = @ + 1]
  /\ UNCHANGED <<source, phase, backlog, skipped, first, last, got, torn>>

\* Mutant: resync() keeps waiting on a closed channel.
RecvClosedNotInResync(r) ==
  /\ phase[r] = "recv" /\ HasClosed(r)
  /\ phase' = [phase EXCEPT ![r] = "ended"]
  /\ UNCHANGED <<source, backlog, cursor, skipped, history>>

\* recv() in next() or in resync() finds the channel closed and empty.
RecvClosed(r) ==
  /\ Receiving(r) /\ HasClosed(r)
  /\ phase' = [phase EXCEPT ![r] = "ended"]
  /\ UNCHANGED <<source, backlog, cursor, skipped, history>>

\* The select! of rtsp::server took its other branch: the pending future is
\* dropped, and with it the fact that resync() was under way.  It may be
\* pending with units left to read: one poll spends a bounded budget.
Cancel(r) ==
  /\ r \in Selecting
  /\ Receiving(r)
  /\ phase' = [phase EXCEPT ![r] = "idle"]
  /\ torn' = [torn EXCEPT ![r] = @ \/ phase[r] = "resync"]
  /\ UNCHANGED <<source, backlog, cursor, skipped, first, last, got, thrown>>

Poll(r) ==
  \/ RecvUnit(r)
  \/ RecvLagged(r)
  \/ ResyncFound(r)
  \/ ResyncPast(r)
  \/ RecvClosed(r)

Read(r) == TakeBacklog(r) \/ Await(r) \/ Poll(r)

Next ==
  \/ \E kind \in Kinds, len \in Lens : Push(kind, len)
  \/ Close
  \/ \E r \in Readers : Attach(r) \/ Detach(r) \/ Cancel(r) \/ Read(r)

Spec == Init /\ [][Next]_vars

\* A reader's task keeps calling next().  The select! polls its branches in
\* random order, so a feed with something to give is polled again and again
\* until it is taken: strong fairness for the poll, which a Cancel disables.
\* Nothing makes the publisher send, stop, or a reader attach or detach.
Fairness ==
  \A r \in Readers :
    /\ WF_vars(TakeBacklog(r))
    /\ WF_vars(Await(r))
    /\ SF_vars(Poll(r))

FairSpec == Spec /\ Fairness

(***************************************************************************)
(* Properties                                                              *)
(***************************************************************************)

Attached(r) == phase[r] # "off"

\* The last n of the group a reader could start at, 0 if none was sent.
LastKey ==
  IF \E n \in 1..Len(sent) : OpensAStream(sent[n])
  THEN CHOOSE n \in 1..Len(sent) :
         OpensAStream(sent[n]) /\ \A m \in (n + 1)..Len(sent) : ~OpensAStream(sent[m])
  ELSE 0

\* Where the cache ought to begin: at the last keyframe, at nothing when that
\* group outgrew the limit, and with no picture yet as early as fits.
CacheStart ==
  IF LastKey > 0
  THEN IF Bytes(sent, LastKey, Len(sent)) <= CACHE_LIMIT THEN LastKey ELSE Len(sent) + 1
  ELSE CHOOSE n \in 1..(Len(sent) + 1) :
         /\ Bytes(sent, n, Len(sent)) <= CACHE_LIMIT
         /\ \A m \in 1..(n - 1) : Bytes(sent, m, Len(sent)) > CACHE_LIMIT

\* What the incremental cache holds is always the whole of what a joining
\* reader should get, from CacheStart to the last unit, no unit missing from
\* the middle, and its byte count is theirs: one group and never part of one
\* (path.rs, "What a reader gets before anything live").
CacheIsLastGroup ==
  /\ Len(cache.units) = Len(sent) + 1 - CacheStart
  /\ \A i \in 1..Len(cache.units) : cache.units[i] = CacheStart + i - 1
  /\ cache.bytes = Bytes(sent, CacheStart, Len(sent))

\* The seam between the copied backlog and the subscription: until a reader
\* lags, what it was handed, what waits in its backlog and what its receiver
\* will give are one run of units with nothing lost and nothing twice.
NothingLostUnlessBehind ==
  \A r \in Readers :
    Attached(r) /\ skipped[r] = 0 =>
      /\ cursor[r] = last[r] + Len(backlog[r]) + 1
      /\ \A i \in 1..Len(backlog[r]) : backlog[r][i] = last[r] + i

\* Units since the first one offered that were never handed over.
Missed(r) == cursor[r] - first[r] - got[r] - Len(backlog[r])

\* Every unit a reader missed is accounted for exactly once: overwritten
\* before it was read, and counted in skipped(), or read past by resync().
EveryUnitAccountedFor ==
  \A r \in Readers : Attached(r) => Missed(r) = skipped[r] + thrown[r]

\* Only falling behind costs a reader anything (path.rs:18, "everything up to
\* the next picture"): one that is at most BACKLOG units behind, however often
\* it lagged and whatever resync() it dropped before, will be given every unit
\* after the last one it had, once, and is told of the end after the last.
KeepingUpLosesNothing ==
  \A r \in Readers :
    Attached(r) /\ Len(sent) - last[r] <= BACKLOG =>
      /\ cursor[r] = last[r] + Len(backlog[r]) + 1
      /\ \A i \in 1..Len(backlog[r]) : backlog[r][i] = last[r] + i
      /\ phase[r] = "ended" => last[r] = Len(sent)

HandsOver(r) == got'[r] > got[r]

\* What next() returns only moves forward, and it leaves units out only right
\* before a picture a stream can be started at, except for the one unit that
\* follows a resync() whose future was dropped.
SkipsOnlyToKeyframes ==
  [][\A r \in Readers :
       HandsOver(r) =>
         /\ last'[r] > last[r]
         /\ \/ last'[r] = last[r] + 1
            \/ OpensAStream(sent[last'[r]])
            \/ torn[r]]_vars

\* Reader::next is documented as cancel-safe: "dropping the future loses
\* nothing, so this can sit in a select! beside a socket" (path.rs:289), and a
\* skip ends at the next picture the stream can be started at (path.rs:18).
NextIsCancelSafe ==
  [][\A r \in Readers :
       HandsOver(r) => last'[r] = last[r] + 1 \/ OpensAStream(sent[last'[r]])]_vars

\* skipped() is "how many units this reader has been made to skip past for
\* falling behind" (path.rs:280): every unit it missed.
SkippedCountsEveryUnitMissed ==
  \A r \in Readers : Attached(r) => skipped[r] = Missed(r)

\* "A stream with no pictures has nothing to cut a group at, so it drops its
\* oldest instead, which is right where every frame stands alone"
\* (path.rs:34): of such a stream no unit still held is thrown away.
SoundIsNotThrownAway ==
  (\A n \in 1..Len(sent) : sent[n].kind = "sound") => \A r \in Readers : thrown[r] = 0

\* A reader that joins before any keyframe "waits for the next keyframe
\* instead" of pictures that refer to one nobody has (path.rs:494): the first
\* unit handed over is not a picture that needs an earlier one.
FirstPictureIsAKeyframe ==
  [][\A r \in Readers :
       HandsOver(r) /\ got[r] = 0 => sent[last'[r]].kind # "delta"]_vars

\* A reader whose publisher has gone is told so, however far behind it was
\* and however often its select! took the other branch, unless it leaves.
EveryReaderIsTold ==
  \A r \in Readers : ~open /\ Attached(r) ~> phase[r] \in {"ended", "off"}

\* The readers that await next() to its end.
Patient == Readers \ Selecting

\* However far its call of next() has come, a reader that has not ended reads.
Seen(ph) == IF ph \in {"off", "ended"} THEN ph ELSE "reading"

\* What they may rely on, whatever readers do that drop it in a select!.
Promise == INSTANCE PathPromise WITH
  Readers <- Patient,
  kinds   <- [n \in 1..Len(sent) |-> sent[n].kind],
  at      <- [r \in Patient |-> last[r]],
  state   <- [r \in Patient |-> Seen(phase[r])]

\* The cache, the channel and resync() together keep the path's promise to a
\* reader that lets every next() finish, as an application reading a Registry
\* of its own does (examples/live.rs).
KeepsPromise == Promise!Spec
=============================================================================
