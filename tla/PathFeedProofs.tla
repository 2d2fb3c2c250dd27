--------------------------- MODULE PathFeedProofs ---------------------------
(***************************************************************************)
(* Theorems about PathFeed for every number of readers, channel size,      *)
(* cache limit and unit size.                                              *)
(***************************************************************************)
EXTENDS PathFeed, FiniteSetTheorems, SequenceTheorems, TLAPS

(***************************************************************************)
(* The inductive invariant.  A cache is spelled out as its four fields so  *)
(* that what is said of one stream can be said of the next.                *)
(***************************************************************************)

HasKey(s) == \E n \in 1..Len(s) : OpensAStream(s[n])

\* Bytes published never decrease along the stream.
Monotone(s) ==
  \A m, n \in 0..Len(s) : m <= n => UpTo(s, m) <= UpTo(s, n)

\* The cache is a run of positions that ends with the last unit...
IsRun(run, bytes, s) ==
  /\ Len(run) <= Len(s)
  /\ \A i \in 1..Len(run) : run[i] = Len(s) - Len(run) + i
  /\ bytes = UpTo(s, Len(s)) - UpTo(s, Len(s) - Len(run))
  /\ bytes <= CACHE_LIMIT

\* ...its flags say what has been sent...
FlagsAreRight(run, ovf, pic, s) ==
  /\ pic <=> HasKey(s)
  /\ ovf => pic /\ run = <<>>

\* ...with pictures it begins at the last keyframe or has outgrown the limit...
GroupIsWhole(run, ovf, pic, s) ==
  pic => \E k \in 1..Len(s) :
           /\ OpensAStream(s[k])
           /\ \A m \in (k + 1)..Len(s) : ~OpensAStream(s[m])
           /\ ovf => Bytes(s, k, Len(s)) > CACHE_LIMIT
           /\ ~ovf => Len(run) = Len(s) - k + 1

\* ...and without it begins as early as fits.
TailIsLongest(run, pic, s) ==
  ~pic => \A m \in 1..(Len(s) - Len(run)) : Bytes(s, m, Len(s)) > CACHE_LIMIT

GoodCache(run, bytes, ovf, pic, s) ==
  /\ IsRun(run, bytes, s)
  /\ FlagsAreRight(run, ovf, pic, s)
  /\ GroupIsWhole(run, ovf, pic, s)
  /\ TailIsLongest(run, pic, s)

\* A cache is right for a stream.
Holds(c, s) ==
  /\ c \in Caches
  /\ GoodCache(c.units, c.bytes, c.overflowed, c.pictures, s)

\* Where a reader stands, with n units sent: what it was handed, what waits
\* in its backlog and what its receiver will give make up all it was offered.
ReaderOK(ph, b, c, sk, f, l, g, th, to, n, up) ==
  /\ l < c
  /\ c <= n + 1
  /\ c - f = g + Len(b) + sk + th
  /\ \A i \in 1..Len(b) : b[i] = c - 1 - Len(b) + i
  /\ b # <<>> => ph = "idle" /\ sk = 0
  /\ sk = 0 => c = l + Len(b) + 1
  /\ ph = "resync" \/ to => sk > 0
  /\ ph \in {"idle", "recv"} /\ ~to => c = l + Len(b) + 1
  /\ ph = "ended" => ~up /\ c = n + 1

Stands(r) ==
  ReaderOK(phase[r], backlog[r], cursor[r], skipped[r],
           first[r], last[r], got[r], thrown[r], torn[r], Len(sent), open)

ReaderInv == \A r \in Readers : Attached(r) => Stands(r)

Inv == TypeOK /\ Monotone(sent) /\ Holds(cache, sent) /\ ReaderInv

-----------------------------------------------------------------------------
(***************************************************************************)
(* The stream                                                              *)
(***************************************************************************)

LEMMA UpToNat ==
  ASSUME NEW s \in Seq(Units), NEW n \in 0..Len(s)
  PROVE  UpTo(s, n) \in Nat
<1>1. CASE n = 0
  BY <1>1 DEF UpTo
<1>2. CASE n # 0
  <2>1. s[n] \in Units
    BY <1>2
  <2>2. s[n].upto \in Nat
    BY <2>1 DEF Units
  <2> QED
    BY <1>2, <2>2 DEF UpTo
<1> QED
  BY <1>1, <1>2

\* What a push does to the stream.
LEMMA PushStream ==
  ASSUME TypeOK, NEW kind \in Kinds, NEW len \in Lens, Push(kind, len)
  PROVE  /\ sent' \in Seq(Units)
         /\ Len(sent') = Len(sent) + 1
         /\ \A n \in 1..Len(sent) : sent'[n] = sent[n]
         /\ sent'[Len(sent) + 1].kind = kind
         /\ \A n \in 0..Len(sent) : UpTo(sent', n) = UpTo(sent, n)
         /\ UpTo(sent', Len(sent) + 1) = UpTo(sent, Len(sent)) + len
         /\ len \in Nat
         /\ UpTo(sent, Len(sent)) \in Nat
         /\ cache' = CachePush(sent')
<1>1. len \in Nat
  BY FeedAssumption
<1>2. Len(sent) \in Nat /\ UpTo(sent, Len(sent)) \in Nat
  BY UpToNat DEF TypeOK
<1> DEFINE u == [kind |-> kind, upto |-> UpTo(sent, Len(sent)) + len]
<1>3. u \in Units
  BY <1>1, <1>2 DEF Units
<1>4. sent' = Append(sent, u) /\ cache' = CachePush(sent')
  BY DEF Push
<1> HIDE DEF u
<1>5. /\ sent' \in Seq(Units)
      /\ Len(sent') = Len(sent) + 1
      /\ \A n \in 1..Len(sent) : sent'[n] = sent[n]
      /\ sent'[Len(sent) + 1] = u
  BY <1>3, <1>4 DEF TypeOK
<1>6. \A n \in 0..Len(sent) : UpTo(sent', n) = UpTo(sent, n)
  BY <1>5 DEF UpTo
<1>7. UpTo(sent', Len(sent) + 1) = u.upto
  BY <1>2, <1>5 DEF UpTo
<1> QED
  BY <1>1, <1>2, <1>4, <1>5, <1>6, <1>7 DEF u

LEMMA PushMonotone ==
  ASSUME TypeOK, Monotone(sent), NEW kind \in Kinds, NEW len \in Lens, Push(kind, len)
  PROVE  Monotone(sent')
<1> SUFFICES ASSUME NEW m \in 0..Len(sent'), NEW n \in 0..Len(sent'), m <= n
             PROVE  UpTo(sent', m) <= UpTo(sent', n)
  BY DEF Monotone
<1>1. Len(sent) \in Nat
  BY DEF TypeOK
<1>2. \A i, j \in 0..Len(sent) : i <= j => UpTo(sent, i) <= UpTo(sent, j)
  BY DEF Monotone
<1>3. \A i \in 0..Len(sent) : UpTo(sent, i) \in Nat
  BY UpToNat DEF TypeOK
<1>4. CASE n <= Len(sent)
  BY <1>1, <1>2, <1>4, PushStream
<1>5. CASE n = Len(sent) + 1 /\ m <= Len(sent)
  <2>1. UpTo(sent, m) <= UpTo(sent, Len(sent))
    BY <1>1, <1>2, <1>5
  <2> QED
    BY <1>1, <1>3, <1>5, <2>1, PushStream
<1>6. CASE n = Len(sent) + 1 /\ m = Len(sent) + 1
  BY <1>1, <1>6, PushStream
<1> QED
  BY <1>1, <1>4, <1>5, <1>6, PushStream

-----------------------------------------------------------------------------
(***************************************************************************)
(* Dropping the oldest                                                     *)
(***************************************************************************)

\* Every set of naturals that is not empty has a least element.
LEMMA LeastNatural ==
  ASSUME NEW G \in SUBSET Nat, G # {}
  PROVE  \E m \in G : \A k \in G : m <= k
<1> DEFINE T == {1..k : k \in G}
<1>1. T \subseteq FiniteSubsetsOf(Nat)
  <2> SUFFICES ASSUME NEW k \in G  PROVE 1..k \in SUBSET Nat /\ IsFiniteSet(1..k)
    BY DEF FiniteSubsetsOf
  <2> QED
    BY FS_Interval
<1>2. T # {}
  OBVIOUS
<1>3. PICK X \in T : \A Y \in T : <<Y, X>> \notin StrictSubsetOrdering(Nat)
  BY <1>1, <1>2, FS_StrictSubsetOrderingWellFounded, WFMin
<1>4. PICK m \in G : X = 1..m
  BY <1>3
<1>5. ASSUME NEW k \in G, k < m  PROVE FALSE
  <2>1. 1..k \in T
    BY <1>5
  <2>2. 1..k \subseteq 1..m /\ 1..k # 1..m
    BY <1>5
  <2>3. <<1..k, X>> \in StrictSubsetOrdering(Nat)
    BY <1>4, <2>2 DEF StrictSubsetOrdering
  <2> QED
    BY <1>3, <2>1, <2>3
<1> QED
  BY <1>4, <1>5

\* Units of a cache that is a run ending with the last of s: dropping from the
\* front leaves the longest run that fits.
LEMMA DropOldestFits ==
  ASSUME NEW s \in Seq(Units), NEW run \in Seq(Nat), NEW bytes,
         run # <<>>, Len(run) <= Len(s),
         \A i \in 1..Len(run) : run[i] = Len(s) - Len(run) + i,
         bytes = UpTo(s, Len(s)) - UpTo(s, Len(s) - Len(run)),
         NEW c, c = [units |-> run, bytes |-> bytes, overflowed |-> FALSE, pictures |-> FALSE]
  PROVE  \E g \in 1..Len(run) :
           /\ DropOldest(c, s) = [units |-> SubSeq(run, g + 1, Len(run)),
                                  bytes |-> UpTo(s, Len(s)) - UpTo(s, Len(s) - Len(run) + g),
                                  overflowed |-> FALSE, pictures |-> FALSE]
           /\ UpTo(s, Len(s)) - UpTo(s, Len(s) - Len(run) + g) <= CACHE_LIMIT
           /\ \A j \in 1..(g - 1) :
                UpTo(s, Len(s)) - UpTo(s, Len(s) - Len(run) + j) > CACHE_LIMIT
<1> DEFINE N == Len(run)
           L == Len(s)
           Left(k) == bytes - Bytes(s, run[1], run[k])
           First(k) == /\ Left(k) <= CACHE_LIMIT
                       /\ \A j \in 1..(k - 1) : Left(j) > CACHE_LIMIT
<1>1. N \in Nat \ {0} /\ L \in Nat /\ N <= L
  OBVIOUS
<1>2. \A k \in 0..L : UpTo(s, k) \in Nat
  BY UpToNat
<1>3. ASSUME NEW k \in 1..N  PROVE Left(k) = UpTo(s, L) - UpTo(s, L - N + k)
  <2>1. run[1] = L - N + 1 /\ run[k] = L - N + k
    BY <1>1
  <2>2. Bytes(s, run[1], run[k]) = UpTo(s, L - N + k) - UpTo(s, L - N)
    BY <1>1, <2>1 DEF Bytes
  <2>3. L - N + k \in 0..L /\ L - N \in 0..L /\ L \in 0..L
    BY <1>1
  <2>4. UpTo(s, L - N + k) \in Nat /\ UpTo(s, L - N) \in Nat /\ UpTo(s, L) \in Nat
    BY <1>2, <2>3
  <2>5. Left(k) = (UpTo(s, L) - UpTo(s, L - N)) - (UpTo(s, L - N + k) - UpTo(s, L - N))
    BY <2>2
  <2> HIDE DEF Left
  <2> QED
    BY <2>4, <2>5
<1>4. Left(N) = 0
  <2>1. L - N + N = L
    BY <1>1
  <2> QED
    BY <1>1, <1>2, <1>3, <2>1
<1> DEFINE G == {k \in 1..N : Left(k) <= CACHE_LIMIT}
<1>5. N \in G
  BY <1>1, <1>4, FeedAssumption
<1>6. PICK g \in G : \A k \in G : g <= k
  <2>1. G \in SUBSET Nat /\ G # {}
    <3>1. G \subseteq 1..N
      OBVIOUS
    <3>2. 1..N \subseteq Nat
      OBVIOUS
    <3> HIDE DEF G
    <3> QED
      BY <1>5, <3>1, <3>2
  <2> HIDE DEF G
  <2> QED
    BY <2>1, LeastNatural
<1>7. g \in 1..N /\ First(g)
  <2>1. ASSUME NEW j \in 1..(g - 1)  PROVE Left(j) > CACHE_LIMIT
    <3>1. j \in 1..N /\ j < g
      BY <1>1, <1>6
    <3>2. j \notin G
      BY <1>1, <1>6, <3>1
    <3>3. Left(j) \in Int
      <4>1. L - N + j \in 0..L /\ L \in 0..L
        BY <1>1, <3>1
      <4>2. UpTo(s, L - N + j) \in Nat /\ UpTo(s, L) \in Nat
        BY <1>2, <4>1
      <4>3. Left(j) = UpTo(s, L) - UpTo(s, L - N + j)
        BY <1>3, <3>1
      <4> HIDE DEF Left
      <4> QED
        BY <4>2, <4>3
    <3> HIDE DEF Left
    <3> QED
      BY <3>1, <3>2, <3>3, FeedAssumption
  <2> QED
    BY <1>6, <2>1
<1> DEFINE gone == CHOOSE k \in 1..N : First(k)
<1>8. gone \in 1..N /\ First(gone)
  <2> HIDE DEF First
  <2> QED
    BY <1>7
<1>9. DropOldest(c, s) = [c EXCEPT !.units = SubSeq(@, gone + 1, Len(@)), !.bytes = Left(gone)]
  BY DEF DropOldest
<1> HIDE DEF gone, Left
<1>10. DropOldest(c, s) = [units |-> SubSeq(run, gone + 1, N), bytes |-> Left(gone),
                           overflowed |-> FALSE, pictures |-> FALSE]
  BY <1>9
<1>11. \A j \in 1..(gone - 1) : j \in 1..N
  BY <1>1, <1>8
<1> QED
  BY <1>1, <1>3, <1>8, <1>10, <1>11

-----------------------------------------------------------------------------
(***************************************************************************)
(* What a push does to the cache                                           *)
(***************************************************************************)

\* One more unit on a stream, as far as the cache is concerned.
Grows(s, t) ==
  /\ s \in Seq(Units)
  /\ t \in Seq(Units)
  /\ Len(t) = Len(s) + 1
  /\ \A n \in 1..Len(s) : t[n] = s[n]
  /\ Monotone(t)

LEMMA GrowsFacts ==
  ASSUME NEW s, NEW t, Grows(s, t)
  PROVE  /\ Len(s) \in Nat /\ Len(t) = Len(s) + 1
         /\ \A n \in 0..Len(s) : UpTo(t, n) = UpTo(s, n)
         /\ \A n \in 0..Len(t) : UpTo(t, n) \in Nat
         /\ \A m, n \in 0..Len(t) : m <= n => UpTo(t, m) <= UpTo(t, n)
         /\ Bytes(t, Len(t), Len(t)) = UpTo(t, Len(t)) - UpTo(t, Len(s))
         /\ Bytes(t, Len(t), Len(t)) \in Nat
         /\ \A n \in 1..Len(s) : OpensAStream(t[n]) <=> OpensAStream(s[n])
<1>1. Len(s) \in Nat /\ Len(t) = Len(s) + 1
  BY DEF Grows
<1>2. \A n \in 0..Len(s) : UpTo(t, n) = UpTo(s, n)
  BY <1>1 DEF Grows, UpTo
<1>3. \A n \in 0..Len(t) : UpTo(t, n) \in Nat
  BY UpToNat DEF Grows
<1>4. \A m, n \in 0..Len(t) : m <= n => UpTo(t, m) <= UpTo(t, n)
  BY DEF Grows, Monotone
<1>5. Bytes(t, Len(t), Len(t)) = UpTo(t, Len(t)) - UpTo(t, Len(s))
  BY <1>1 DEF Bytes
<1>6. Bytes(t, Len(t), Len(t)) \in Nat
  <2>1. UpTo(t, Len(s)) <= UpTo(t, Len(t))
    BY <1>1, <1>4
  <2>2. UpTo(t, Len(s)) \in Nat /\ UpTo(t, Len(t)) \in Nat
    BY <1>1, <1>3
  <2> QED
    BY <1>5, <2>1, <2>2
<1>7. \A n \in 1..Len(s) : OpensAStream(t[n]) <=> OpensAStream(s[n])
  BY DEF Grows
<1> QED
  BY <1>1, <1>2, <1>3, <1>4, <1>5, <1>6, <1>7

\* A keyframe begins a group of its own.
LEMMA GroupBegins ==
  ASSUME NEW s, NEW t, Grows(s, t), OpensAStream(t[Len(t)])
  PROVE  LET len == Bytes(t, Len(t), Len(t)) IN
         /\ len <= CACHE_LIMIT => GoodCache(<<Len(t)>>, len, FALSE, TRUE, t)
         /\ len > CACHE_LIMIT => GoodCache(<<>>, 0, TRUE, TRUE, t)
<1> DEFINE n == Len(t)
           len == Bytes(t, n, n)
<1>1. n \in Nat \ {0} /\ Len(s) = n - 1
  BY GrowsFacts
<1>2. UpTo(t, n) \in Nat /\ UpTo(t, n - 1) \in Nat /\ len = UpTo(t, n) - UpTo(t, n - 1)
  BY <1>1, GrowsFacts
<1>3. HasKey(t)
  BY <1>1 DEF HasKey
<1>4. ASSUME len <= CACHE_LIMIT  PROVE GoodCache(<<n>>, len, FALSE, TRUE, t)
  <2>1. IsRun(<<n>>, len, t)
    BY <1>1, <1>2, <1>4 DEF IsRun
  <2>2. GroupIsWhole(<<n>>, FALSE, TRUE, t)
    BY <1>1 DEF GroupIsWhole
  <2> QED
    BY <1>3, <2>1, <2>2 DEF GoodCache, FlagsAreRight, TailIsLongest
<1>5. ASSUME len > CACHE_LIMIT  PROVE GoodCache(<<>>, 0, TRUE, TRUE, t)
  <2>1. IsRun(<<>>, 0, t)
    BY <1>1, <1>2, FeedAssumption DEF IsRun
  <2>2. GroupIsWhole(<<>>, TRUE, TRUE, t)
    BY <1>1, <1>5 DEF GroupIsWhole
  <2> QED
    BY <1>3, <2>1, <2>2 DEF GoodCache, FlagsAreRight, TailIsLongest
<1> QED
  BY <1>4, <1>5

\* A unit that opens nothing leaves the last keyframe where it was.
LEMMA GroupContinues ==
  ASSUME NEW s, NEW t, Grows(s, t), ~OpensAStream(t[Len(t)])
  PROVE  /\ HasKey(t) <=> HasKey(s)
         /\ \A k \in 1..Len(s) :
              (\A m \in (k + 1)..Len(s) : ~OpensAStream(s[m])) =>
              (\A m \in (k + 1)..Len(t) : ~OpensAStream(t[m]))
         /\ \A m \in 1..Len(s) :
              /\ Bytes(s, m, Len(s)) \in Int
              /\ Bytes(t, m, Len(t)) = Bytes(s, m, Len(s)) + Bytes(t, Len(t), Len(t))
<1>1. Len(s) \in Nat /\ Len(t) = Len(s) + 1
  BY GrowsFacts
<1>2. \A n \in 1..Len(s) : OpensAStream(t[n]) <=> OpensAStream(s[n])
  BY GrowsFacts
<1>3. HasKey(t) <=> HasKey(s)
  BY <1>1, <1>2 DEF HasKey
<1>4. ASSUME NEW k \in 1..Len(s), \A m \in (k + 1)..Len(s) : ~OpensAStream(s[m]),
             NEW m \in (k + 1)..Len(t)
      PROVE  ~OpensAStream(t[m])
  <2>1. CASE m = Len(t)
    BY <2>1
  <2>2. CASE m # Len(t)
    <3>1. m \in (k + 1)..Len(s) /\ m \in 1..Len(s)
      BY <1>1, <2>2
    <3> QED
      BY <1>2, <1>4, <3>1
  <2> QED
    BY <2>1, <2>2
<1>5. ASSUME NEW m \in 1..Len(s)
      PROVE  /\ Bytes(s, m, Len(s)) \in Int
             /\ Bytes(t, m, Len(t)) = Bytes(s, m, Len(s)) + Bytes(t, Len(t), Len(t))
  <2>1. m - 1 \in 0..Len(s) /\ Len(s) \in 0..Len(s) /\ Len(t) \in 0..Len(t)
        /\ m - 1 \in 0..Len(t) /\ Len(s) \in 0..Len(t)
    BY <1>1
  <2>2. UpTo(t, m - 1) = UpTo(s, m - 1) /\ UpTo(t, Len(s)) = UpTo(s, Len(s))
    BY <2>1, GrowsFacts
  <2>3. UpTo(t, m - 1) \in Nat /\ UpTo(t, Len(s)) \in Nat /\ UpTo(t, Len(t)) \in Nat
    BY <2>1, GrowsFacts
  <2>4. Bytes(t, Len(t), Len(t)) = UpTo(t, Len(t)) - UpTo(t, Len(s))
    BY GrowsFacts
  <2>5. Bytes(s, m, Len(s)) = UpTo(t, Len(s)) - UpTo(t, m - 1)
    BY <2>2 DEF Bytes
  <2>6. Bytes(t, m, Len(t)) = UpTo(t, Len(t)) - UpTo(t, m - 1)
    BY DEF Bytes
  <2> QED
    BY <2>3, <2>4, <2>5, <2>6
<1> QED
  BY <1>3, <1>4, <1>5

\* The byte count of a cache that is a run, against the stream it came from.
LEMMA RunBytes ==
  ASSUME NEW s, NEW t, Grows(s, t), NEW run \in Seq(Nat), NEW bytes, IsRun(run, bytes, s)
  PROVE  /\ Len(run) \in Nat /\ Len(run) <= Len(s)
         /\ Len(s) - Len(run) \in 0..Len(s)
         /\ bytes = UpTo(t, Len(s)) - UpTo(t, Len(s) - Len(run))
         /\ bytes \in Nat
         /\ bytes + Bytes(t, Len(t), Len(t)) = UpTo(t, Len(t)) - UpTo(t, Len(s) - Len(run))
<1>1. Len(s) \in Nat /\ Len(t) = Len(s) + 1
  BY GrowsFacts
<1>2. Len(run) \in Nat /\ Len(run) <= Len(s)
  BY DEF IsRun
<1>3. /\ Len(s) - Len(run) \in 0..Len(s) /\ Len(s) \in 0..Len(s)
      /\ Len(s) - Len(run) \in 0..Len(t) /\ Len(s) \in 0..Len(t) /\ Len(t) \in 0..Len(t)
  BY <1>1, <1>2
<1>4. bytes = UpTo(s, Len(s)) - UpTo(s, Len(s) - Len(run))
  BY DEF IsRun
<1>5. bytes = UpTo(t, Len(s)) - UpTo(t, Len(s) - Len(run))
  <2>1. UpTo(t, Len(s)) = UpTo(s, Len(s))
    BY <1>3, GrowsFacts
  <2>2. UpTo(t, Len(s) - Len(run)) = UpTo(s, Len(s) - Len(run))
    BY <1>3, GrowsFacts
  <2> QED
    BY <1>4, <2>1, <2>2
<1>6. /\ UpTo(t, Len(s)) \in Nat /\ UpTo(t, Len(s) - Len(run)) \in Nat
      /\ UpTo(t, Len(t)) \in Nat
  BY <1>3, GrowsFacts
<1>7. UpTo(t, Len(s) - Len(run)) <= UpTo(t, Len(s))
  BY <1>1, <1>2, <1>3, GrowsFacts
<1>8. Bytes(t, Len(t), Len(t)) = UpTo(t, Len(t)) - UpTo(t, Len(s))
  BY GrowsFacts
<1> QED
  BY <1>2, <1>3, <1>5, <1>6, <1>7, <1>8

\* While a group is too long nothing is kept of it.
LEMMA StaysOverflowed ==
  ASSUME NEW s, NEW t, Grows(s, t), ~OpensAStream(t[Len(t)]),
         NEW run \in Seq(Nat), NEW bytes, NEW pic, GoodCache(run, bytes, TRUE, pic, s)
  PROVE  GoodCache(run, bytes, TRUE, pic, t) /\ bytes = 0
<1>1. run = <<>> /\ pic /\ HasKey(s) /\ Len(run) = 0
  BY DEF GoodCache, FlagsAreRight
<1>2. Len(s) \in Nat /\ Len(t) = Len(s) + 1 /\ Bytes(t, Len(t), Len(t)) \in Nat
  BY GrowsFacts
<1>3. bytes = 0
  <2>1. bytes = UpTo(t, Len(s)) - UpTo(t, Len(s) - Len(run))
    BY RunBytes DEF GoodCache
  <2>2. UpTo(t, Len(s)) \in Nat /\ Len(s) - Len(run) = Len(s)
    BY <1>1, <1>2, GrowsFacts
  <2> QED
    BY <2>1, <2>2
<1>4. IsRun(run, bytes, t)
  <2>1. UpTo(t, Len(t)) \in Nat /\ Len(t) - Len(run) = Len(t)
    BY <1>1, <1>2, GrowsFacts
  <2> QED
    BY <1>1, <1>2, <1>3, <2>1, FeedAssumption DEF IsRun
<1>5. PICK k \in 1..Len(s) :
        /\ OpensAStream(s[k])
        /\ \A m \in (k + 1)..Len(s) : ~OpensAStream(s[m])
        /\ Bytes(s, k, Len(s)) > CACHE_LIMIT
  BY <1>1 DEF GoodCache, GroupIsWhole
<1>6. GroupIsWhole(run, TRUE, pic, t)
  <2>1. OpensAStream(t[k]) /\ \A m \in (k + 1)..Len(t) : ~OpensAStream(t[m])
    BY <1>5, GroupContinues, GrowsFacts
  <2>2. Bytes(t, k, Len(t)) > CACHE_LIMIT
    <3>1. /\ Bytes(s, k, Len(s)) \in Int
          /\ Bytes(t, k, Len(t)) = Bytes(s, k, Len(s)) + Bytes(t, Len(t), Len(t))
      BY GroupContinues
    <3> QED
      BY <1>2, <1>5, <3>1, FeedAssumption
  <2>3. k \in 1..Len(t)
    BY <1>2
  <2> QED
    BY <2>1, <2>2, <2>3 DEF GroupIsWhole
<1>7. HasKey(t)
  BY <1>1, GroupContinues
<1> QED
  BY <1>1, <1>3, <1>4, <1>6, <1>7 DEF GoodCache, FlagsAreRight, TailIsLongest

\* A unit that fits is added to what is held.
LEMMA UnitIsAdded ==
  ASSUME NEW s, NEW t, Grows(s, t), ~OpensAStream(t[Len(t)]),
         NEW run \in Seq(Nat), NEW bytes, NEW pic, GoodCache(run, bytes, FALSE, pic, s),
         bytes + Bytes(t, Len(t), Len(t)) <= CACHE_LIMIT
  PROVE  GoodCache(Append(run, Len(t)), bytes + Bytes(t, Len(t), Len(t)), FALSE, pic, t)
<1> DEFINE n == Len(t)
           longer == Append(run, n)
<1>1. Len(s) \in Nat /\ n = Len(s) + 1 /\ n \in Nat
  BY GrowsFacts
<1>2. /\ Len(run) \in Nat /\ Len(run) <= Len(s)
      /\ bytes + Bytes(t, n, n) = UpTo(t, n) - UpTo(t, Len(s) - Len(run))
      /\ \A i \in 1..Len(run) : run[i] = Len(s) - Len(run) + i
  BY RunBytes DEF GoodCache, IsRun
<1>3. /\ Len(longer) = Len(run) + 1
      /\ \A i \in 1..Len(run) : longer[i] = run[i]
      /\ longer[Len(run) + 1] = n
  BY <1>1
<1> HIDE DEF longer
<1>4. n - Len(longer) = Len(s) - Len(run)
  BY <1>1, <1>2, <1>3
<1>5. IsRun(longer, bytes + Bytes(t, n, n), t)
  <2>1. ASSUME NEW i \in 1..Len(longer)  PROVE longer[i] = n - Len(longer) + i
    <3>1. CASE i = Len(run) + 1
      BY <1>1, <1>2, <1>3, <3>1
    <3>2. CASE i # Len(run) + 1
      <4>1. i \in 1..Len(run)
        BY <1>2, <1>3, <3>2
      <4>2. longer[i] = Len(s) - Len(run) + i
        BY <1>2, <1>3, <4>1
      <4> QED
        BY <1>4, <4>2
    <3> QED
      BY <3>1, <3>2
  <2>2. Len(longer) <= n
    BY <1>1, <1>2, <1>3
  <2>3. bytes + Bytes(t, n, n) = UpTo(t, n) - UpTo(t, n - Len(longer))
    BY <1>2, <1>4
  <2> QED
    BY <2>1, <2>2, <2>3 DEF IsRun
<1>6. FlagsAreRight(longer, FALSE, pic, t)
  BY GroupContinues DEF GoodCache, FlagsAreRight
<1>7. GroupIsWhole(longer, FALSE, pic, t)
  <2> SUFFICES ASSUME pic
               PROVE  \E k \in 1..n : /\ OpensAStream(t[k])
                                      /\ \A m \in (k + 1)..n : ~OpensAStream(t[m])
                                      /\ Len(longer) = n - k + 1
    BY DEF GroupIsWhole
  <2>1. PICK k \in 1..Len(s) : /\ OpensAStream(s[k])
                               /\ \A m \in (k + 1)..Len(s) : ~OpensAStream(s[m])
                               /\ Len(run) = Len(s) - k + 1
    BY DEF GoodCache, GroupIsWhole
  <2>2. k \in 1..n /\ Len(longer) = n - k + 1
    BY <1>1, <1>3, <2>1
  <2>3. OpensAStream(t[k]) /\ \A m \in (k + 1)..n : ~OpensAStream(t[m])
    BY <2>1, GroupContinues, GrowsFacts
  <2> QED
    BY <2>2, <2>3
<1>8. TailIsLongest(longer, pic, t)
  <2> SUFFICES ASSUME ~pic, NEW m \in 1..(n - Len(longer))
               PROVE  Bytes(t, m, n) > CACHE_LIMIT
    BY DEF TailIsLongest
  <2>1. m \in 1..(Len(s) - Len(run)) /\ m \in 1..Len(s)
    BY <1>1, <1>2, <1>4
  <2>2. Bytes(s, m, Len(s)) > CACHE_LIMIT
    BY <2>1 DEF GoodCache, TailIsLongest
  <2>3. /\ Bytes(s, m, Len(s)) \in Int
        /\ Bytes(t, m, n) = Bytes(s, m, Len(s)) + Bytes(t, n, n)
    BY <2>1, GroupContinues
  <2>4. Bytes(t, n, n) \in Nat
    BY GrowsFacts
  <2> QED
    BY <2>2, <2>3, <2>4, FeedAssumption
<1> QED
  BY <1>5, <1>6, <1>7, <1>8 DEF GoodCache, longer

\* A group that has become too long goes whole.
LEMMA GroupOutgrown ==
  ASSUME NEW s, NEW t, Grows(s, t), ~OpensAStream(t[Len(t)]),
         NEW run \in Seq(Nat), NEW bytes, GoodCache(run, bytes, FALSE, TRUE, s),
         bytes + Bytes(t, Len(t), Len(t)) > CACHE_LIMIT
  PROVE  GoodCache(<<>>, 0, TRUE, TRUE, t)
<1> DEFINE n == Len(t)
<1>1. Len(s) \in Nat /\ n = Len(s) + 1 /\ n \in Nat
  BY GrowsFacts
<1>2. HasKey(t)
  BY GroupContinues DEF GoodCache, FlagsAreRight
<1>3. PICK k \in 1..Len(s) : /\ OpensAStream(s[k])
                             /\ \A m \in (k + 1)..Len(s) : ~OpensAStream(s[m])
                             /\ Len(run) = Len(s) - k + 1
  BY DEF GoodCache, GroupIsWhole
<1>4. OpensAStream(t[k]) /\ \A m \in (k + 1)..n : ~OpensAStream(t[m])
  BY <1>3, GroupContinues, GrowsFacts
<1>5. Bytes(t, k, n) > CACHE_LIMIT
  <2>1. bytes + Bytes(t, n, n) = UpTo(t, n) - UpTo(t, Len(s) - Len(run))
    BY RunBytes DEF GoodCache
  <2>2. Len(s) - Len(run) = k - 1
    BY <1>1, <1>3
  <2>3. Bytes(t, k, n) = bytes + Bytes(t, n, n)
    BY <2>1, <2>2 DEF Bytes
  <2> QED
    BY <2>3
<1>6. IsRun(<<>>, 0, t)
  <2>1. UpTo(t, n) \in Nat
    BY <1>1, GrowsFacts
  <2> QED
    BY <1>1, <2>1, FeedAssumption DEF IsRun
<1>7. GroupIsWhole(<<>>, TRUE, TRUE, t)
  <2>1. k \in 1..n
    BY <1>1
  <2> QED
    BY <1>4, <1>5, <2>1 DEF GroupIsWhole
<1> QED
  BY <1>2, <1>6, <1>7 DEF GoodCache, FlagsAreRight, TailIsLongest

\* Without pictures the oldest go, and as few of them as will do.
LEMMA OldestDropped ==
  ASSUME NEW s, NEW t, Grows(s, t), ~OpensAStream(t[Len(t)]),
         NEW run \in Seq(Nat), NEW bytes, NEW len, GoodCache(run, bytes, FALSE, FALSE, s),
         len = bytes + Bytes(t, Len(t), Len(t)), len > CACHE_LIMIT,
         NEW c, c = [units |-> Append(run, Len(t)), bytes |-> len,
                     overflowed |-> FALSE, pictures |-> FALSE]
  PROVE  \E left \in Seq(Nat), size \in Nat :
           /\ DropOldest(c, t) = [units |-> left, bytes |-> size,
                                  overflowed |-> FALSE, pictures |-> FALSE]
           /\ GoodCache(left, size, FALSE, FALSE, t)
<1> DEFINE n == Len(t)
           longer == Append(run, n)
           N == Len(longer)
           From(j) == UpTo(t, n) - UpTo(t, n - N + j)
<1>1. Len(s) \in Nat /\ n = Len(s) + 1 /\ n \in Nat
  BY GrowsFacts
<1>2. /\ Len(run) \in Nat /\ Len(run) <= Len(s)
      /\ len = UpTo(t, n) - UpTo(t, Len(s) - Len(run))
      /\ \A i \in 1..Len(run) : run[i] = Len(s) - Len(run) + i
  BY RunBytes DEF GoodCache, IsRun
<1>3. /\ longer \in Seq(Nat)
      /\ N = Len(run) + 1
      /\ \A i \in 1..Len(run) : longer[i] = run[i]
      /\ longer[Len(run) + 1] = n
      /\ longer # <<>>
  BY <1>1
<1> HIDE DEF longer
<1>4. n - N = Len(s) - Len(run) /\ N <= n /\ N \in Nat \ {0}
  BY <1>1, <1>2, <1>3
<1>5. ASSUME NEW i \in 1..N  PROVE longer[i] = n - N + i
  <2>1. CASE i = Len(run) + 1
    BY <1>1, <1>2, <1>3, <2>1
  <2>2. CASE i # Len(run) + 1
    <3>1. i \in 1..Len(run)
      BY <1>2, <1>3, <2>2
    <3>2. longer[i] = Len(s) - Len(run) + i
      BY <1>2, <1>3, <3>1
    <3> QED
      BY <1>4, <3>2
  <2> QED
    BY <2>1, <2>2
<1>6. len = UpTo(t, n) - UpTo(t, n - N)
  BY <1>2, <1>4
<1>7. t \in Seq(Units)
  BY DEF Grows
<1>8. PICK g \in 1..N :
        /\ DropOldest(c, t) = [units |-> SubSeq(longer, g + 1, N), bytes |-> From(g),
                               overflowed |-> FALSE, pictures |-> FALSE]
        /\ From(g) <= CACHE_LIMIT
        /\ \A j \in 1..(g - 1) : From(j) > CACHE_LIMIT
  <2>1. c = [units |-> longer, bytes |-> len, overflowed |-> FALSE, pictures |-> FALSE]
    BY DEF longer
  <2>2. \A i \in 1..Len(longer) : longer[i] = Len(t) - Len(longer) + i
    BY <1>5
  <2>3. /\ longer \in Seq(Nat) /\ longer # <<>> /\ Len(longer) <= Len(t)
        /\ len = UpTo(t, Len(t)) - UpTo(t, Len(t) - Len(longer))
    BY <1>3, <1>4, <1>6
  <2>4. \E g \in 1..Len(longer) :
          /\ DropOldest(c, t) =
               [units |-> SubSeq(longer, g + 1, Len(longer)),
                bytes |-> UpTo(t, Len(t)) - UpTo(t, Len(t) - Len(longer) + g),
                overflowed |-> FALSE, pictures |-> FALSE]
          /\ UpTo(t, Len(t)) - UpTo(t, Len(t) - Len(longer) + g) <= CACHE_LIMIT
          /\ \A j \in 1..(g - 1) :
               UpTo(t, Len(t)) - UpTo(t, Len(t) - Len(longer) + j) > CACHE_LIMIT
    BY <1>7, <2>1, <2>3, <2>2, DropOldestFits, Zenon
  <2> QED
    BY <2>4
<1> DEFINE left == SubSeq(longer, g + 1, N)
<1>9. /\ left \in Seq(Nat)
      /\ Len(left) = N - g
      /\ \A i \in 1..(N - g) : left[i] = longer[g + i]
  BY <1>3, <1>4
<1> HIDE DEF left
<1>10. n - Len(left) = n - N + g
  BY <1>1, <1>4, <1>9
<1>11. From(g) \in Nat
  <2>1. n - N + g \in 0..n /\ n \in 0..n /\ n - N + g <= n
    BY <1>1, <1>4
  <2>2. UpTo(t, n - N + g) \in Nat /\ UpTo(t, n) \in Nat /\ UpTo(t, n - N + g) <= UpTo(t, n)
    BY <2>1, GrowsFacts
  <2> QED
    BY <2>2
<1>12. IsRun(left, From(g), t)
  <2>1. Len(left) <= n
    BY <1>1, <1>4, <1>9
  <2>2. ASSUME NEW i \in 1..Len(left)  PROVE left[i] = n - Len(left) + i
    <3>1. g + i \in 1..N /\ left[i] = longer[g + i]
      <4>1. i \in 1..(N - g)
        BY <1>9
      <4>2. left[i] = longer[g + i]
        BY <1>9, <4>1
      <4> HIDE DEF N
      <4> QED
        BY <1>4, <4>1, <4>2
    <3>2. left[i] = n - N + (g + i)
      BY <1>5, <3>1
    <3> QED
      BY <1>1, <1>4, <1>9, <3>2
  <2>3. From(g) = UpTo(t, n) - UpTo(t, n - Len(left))
    BY <1>10
  <2> HIDE DEF From
  <2> QED
    BY <1>8, <2>1, <2>2, <2>3 DEF IsRun
<1>13. FlagsAreRight(left, FALSE, FALSE, t)
  BY GroupContinues DEF GoodCache, FlagsAreRight
<1>14. ASSUME NEW m \in 1..(n - Len(left))  PROVE Bytes(t, m, n) > CACHE_LIMIT
  <2>1. CASE m <= n - N
    <3>1. m \in 1..(Len(s) - Len(run)) /\ m \in 1..Len(s)
      BY <1>1, <1>2, <1>4, <2>1
    <3>2. Bytes(s, m, Len(s)) > CACHE_LIMIT
      BY <3>1 DEF GoodCache, TailIsLongest
    <3>3. /\ Bytes(s, m, Len(s)) \in Int
          /\ Bytes(t, m, n) = Bytes(s, m, Len(s)) + Bytes(t, n, n)
      BY <3>1, GroupContinues
    <3>4. Bytes(t, n, n) \in Nat
      BY GrowsFacts
    <3> QED
      BY <3>2, <3>3, <3>4, FeedAssumption
  <2>2. CASE m = n - N + 1
    <3>1. Bytes(t, m, n) = len
      BY <1>1, <1>4, <1>6, <2>2 DEF Bytes
    <3> QED
      BY <3>1
  <2>3. CASE m > n - N + 1
    <3>1. m - (n - N + 1) \in 1..(g - 1)
      BY <1>1, <1>4, <1>10, <2>3
    <3>2. n - N + (m - (n - N + 1)) = m - 1
      BY <1>1, <1>4
    <3>3. From(m - (n - N + 1)) = Bytes(t, m, n)
      BY <3>2 DEF Bytes
    <3> HIDE DEF From
    <3> QED
      BY <1>8, <3>1, <3>3
  <2> QED
    BY <1>1, <1>4, <1>10, <2>1, <2>2, <2>3
<1>15. GoodCache(left, From(g), FALSE, FALSE, t)
  BY <1>12, <1>13, <1>14 DEF GoodCache, GroupIsWhole, TailIsLongest
<1>16. DropOldest(c, t) = [units |-> left, bytes |-> From(g),
                           overflowed |-> FALSE, pictures |-> FALSE]
  BY <1>8 DEF left
<1> HIDE DEF From
<1> QED
  BY <1>9, <1>11, <1>15, <1>16

LEMMA HoldsFields ==
  ASSUME NEW t, NEW run \in Seq(Nat), NEW bytes \in Nat, NEW ovf \in BOOLEAN,
         NEW pic \in BOOLEAN, GoodCache(run, bytes, ovf, pic, t)
  PROVE  Holds([units |-> run, bytes |-> bytes, overflowed |-> ovf, pictures |-> pic], t)
BY DEF Holds, Caches

LEMMA TooLongHolds ==
  ASSUME NEW t, GoodCache(<<>>, 0, TRUE, TRUE, t)
  PROVE  Holds(TooLong, t)
<1>1. <<>> \in Seq(Nat)
  OBVIOUS
<1> QED
  BY <1>1, HoldsFields DEF TooLong

\* Cache::push keeps the cache what it should be, whatever comes next.
LEMMA CachePushGood ==
  ASSUME NEW t, Grows(sent, t), Holds(cache, sent)
  PROVE  Holds(CachePush(t), t)
<1> DEFINE n == Len(t)
           len == Bytes(t, n, n)
<1>1. n \in Nat /\ len \in Nat
  BY GrowsFacts
<1>2. CASE OpensAStream(t[n])
  <2> DEFINE grown == [units |-> <<n>>, bytes |-> len, overflowed |-> FALSE, pictures |-> TRUE]
  <2>1. grown = Grown(NewGroup, t)
    <3>1. Append(<<>>, n) = <<n>> /\ 0 + len = len
      BY <1>1
    <3> HIDE DEF len, n
    <3> QED
      BY <3>1 DEF Grown, NewGroup, len, n
  <2>2. CachePush(t) = IF len <= CACHE_LIMIT THEN grown ELSE TooLong
    <3>1. ~NewGroup.overflowed /\ NewGroup.pictures /\ grown.bytes = len
      BY DEF NewGroup
    <3> HIDE DEF grown, len
    <3> QED
      BY <1>2, <2>1, <3>1 DEF CachePush
  <2>3. CASE len <= CACHE_LIMIT
    <3>1. GoodCache(<<n>>, len, FALSE, TRUE, t)
      BY <1>2, <2>3, GroupBegins
    <3>2. <<n>> \in Seq(Nat)
      BY <1>1
    <3>3. Holds(grown, t)
      <4> HIDE DEF len, n
      <4> QED
        BY <1>1, <3>1, <3>2, HoldsFields
    <3> QED
      BY <2>2, <2>3, <3>3
  <2>4. CASE ~(len <= CACHE_LIMIT)
    <3>1. len > CACHE_LIMIT
      BY <1>1, <2>4, FeedAssumption
    <3>2. Holds(TooLong, t)
      BY <1>2, <3>1, GroupBegins, TooLongHolds
    <3> QED
      BY <2>2, <2>4, <3>2
  <2> QED
    BY <2>3, <2>4
<1>3. CASE ~OpensAStream(t[n])
  <2>1. PICK run \in Seq(Nat), bytes \in Nat, ovf \in BOOLEAN, pic \in BOOLEAN :
          /\ cache = [units |-> run, bytes |-> bytes, overflowed |-> ovf, pictures |-> pic]
          /\ GoodCache(run, bytes, ovf, pic, sent)
    BY DEF Holds, Caches
  <2> DEFINE grown == [units |-> Append(run, n), bytes |-> bytes + len,
                       overflowed |-> FALSE, pictures |-> pic]
  <2>2. grown = Grown(cache, t)
    <3> HIDE DEF len, n
    <3> QED
      BY <2>1 DEF Grown, len, n
  <2>3. CachePush(t) = IF ovf THEN cache
                       ELSE IF bytes + len <= CACHE_LIMIT THEN grown
                       ELSE IF pic THEN TooLong ELSE DropOldest(grown, t)
    <3>1. cache.overflowed = ovf /\ cache.pictures = pic /\ grown.bytes = bytes + len
      BY <2>1
    <3> HIDE DEF grown, len
    <3> QED
      BY <1>3, <2>2, <3>1 DEF CachePush
  <2>4. Append(run, n) \in Seq(Nat) /\ bytes + len \in Nat
    BY <1>1
  <2>5. CASE ovf
    <3>1. GoodCache(run, bytes, TRUE, pic, sent)
      BY <2>1, <2>5
    <3>2. GoodCache(run, bytes, TRUE, pic, t)
      BY <1>3, <3>1, StaysOverflowed
    <3>3. Holds([units |-> run, bytes |-> bytes, overflowed |-> TRUE, pictures |-> pic], t)
      BY <3>2, HoldsFields
    <3>4. CachePush(t) = [units |-> run, bytes |-> bytes, overflowed |-> TRUE, pictures |-> pic]
      BY <2>1, <2>3, <2>5
    <3> QED
      BY <3>3, <3>4
  <2>6. CASE ~ovf
    <3>1. GoodCache(run, bytes, FALSE, pic, sent)
      BY <2>1, <2>6
    <3>2. CASE bytes + len <= CACHE_LIMIT
      <4>1. GoodCache(Append(run, n), bytes + len, FALSE, pic, t)
        BY <1>3, <3>1, <3>2, UnitIsAdded
      <4>2. Holds(grown, t)
        <5> HIDE DEF len, n
        <5> QED
          BY <2>4, <4>1, HoldsFields
      <4> QED
        BY <2>3, <2>6, <3>2, <4>2
    <3>3. CASE ~(bytes + len <= CACHE_LIMIT) /\ pic
      <4>1. bytes + len > CACHE_LIMIT
        BY <2>4, <3>3, FeedAssumption
      <4>2. GoodCache(run, bytes, FALSE, TRUE, sent)
        BY <3>1, <3>3
      <4>3. Holds(TooLong, t)
        BY <1>3, <4>1, <4>2, GroupOutgrown, TooLongHolds
      <4> QED
        BY <2>3, <2>6, <3>3, <4>3
    <3>4. CASE ~(bytes + len <= CACHE_LIMIT) /\ ~pic
      <4>1. bytes + len > CACHE_LIMIT
        BY <2>4, <3>4, FeedAssumption
      <4>2. GoodCache(run, bytes, FALSE, FALSE, sent)
        BY <3>1, <3>4
      <4>3. grown = [units |-> Append(run, n), bytes |-> bytes + len,
                     overflowed |-> FALSE, pictures |-> FALSE]
        BY <3>4
      <4>4. \E left \in Seq(Nat), size \in Nat :
              /\ DropOldest(grown, t) = [units |-> left, bytes |-> size,
                                         overflowed |-> FALSE, pictures |-> FALSE]
              /\ GoodCache(left, size, FALSE, FALSE, t)
        <5> HIDE DEF grown
        <5> QED
          BY <1>3, <4>1, <4>2, <4>3, OldestDropped
      <4>5. Holds(DropOldest(grown, t), t)
        <5> HIDE DEF grown
        <5> QED
          BY <4>4, HoldsFields
      <4> QED
        BY <2>3, <2>6, <3>4, <4>5
    <3> QED
      BY <3>2, <3>3, <3>4
  <2> QED
    BY <2>5, <2>6
<1> QED
  BY <1>2, <1>3

-----------------------------------------------------------------------------
(***************************************************************************)
(* What each step of a reader does to where it stands, in numbers          *)
(***************************************************************************)

\* Attached where the cache ends, and offered what it holds.
LEMMA AttachOK ==
  ASSUME NEW s \in Seq(Units), NEW c, Holds(c, s), NEW up
  PROVE  /\ Len(s) - Len(c.units) + 1 \in Nat \ {0}
         /\ Len(s) - Len(c.units) \in Nat
         /\ Len(s) + 1 \in Nat \ {0}
         /\ c.units \in Seq(Nat)
         /\ ReaderOK("idle", c.units, Len(s) + 1, 0, Len(s) - Len(c.units) + 1,
                     Len(s) - Len(c.units), 0, 0, FALSE, Len(s), up)
<1>1. PICK run \in Seq(Nat) : run = c.units
  BY DEF Holds, Caches
<1>2. /\ Len(run) <= Len(s)
      /\ \A i \in 1..Len(run) : run[i] = Len(s) - Len(run) + i
  BY <1>1 DEF Holds, GoodCache, IsRun
<1>3. Len(s) \in Nat /\ Len(run) \in Nat
  OBVIOUS
<1>4. ReaderOK("idle", run, Len(s) + 1, 0, Len(s) - Len(run) + 1,
               Len(s) - Len(run), 0, 0, FALSE, Len(s), up)
  BY <1>2, <1>3 DEF ReaderOK
<1>5. Len(s) - Len(run) + 1 \in Nat \ {0} /\ Len(s) - Len(run) \in Nat
      /\ Len(s) + 1 \in Nat \ {0}
  BY <1>2, <1>3
<1> QED
  BY <1>1, <1>4, <1>5, Zenon

\* The unit at the cursor is handed over from the feed.
LEMMA HandOverOK ==
  ASSUME NEW ph \in {"recv", "resync"}, NEW b \in Seq(Nat),
         NEW c \in Nat \ {0}, NEW sk \in Nat,
         NEW f \in Nat \ {0}, NEW l \in Nat, NEW g \in Nat, NEW th \in Nat,
         NEW to, NEW n \in Nat, NEW up,
         ReaderOK(ph, b, c, sk, f, l, g, th, to, n, up), c <= n
  PROVE  /\ b = <<>>
         /\ ReaderOK("idle", b, c + 1, sk, f, c, g + 1, th, FALSE, n, up)
<1>1. b = <<>> /\ Len(b) = 0 /\ c - f = g + Len(b) + sk + th
  BY DEF ReaderOK
<1> QED
  BY <1>1 DEF ReaderOK

LEMMA LaggedOK ==
  ASSUME NEW ph \in {"recv", "resync"}, NEW b \in Seq(Nat),
         NEW c \in Nat \ {0}, NEW sk \in Nat,
         NEW f \in Nat \ {0}, NEW l \in Nat, NEW g \in Nat, NEW th \in Nat,
         NEW to, NEW n \in Nat, NEW up,
         ReaderOK(ph, b, c, sk, f, l, g, th, to, n, up),
         NEW oldest \in Nat, c < oldest, oldest <= n
  PROVE  ReaderOK("resync", b, oldest, sk + (oldest - c), f, l, g, th, to, n, up)
<1>1. b = <<>> /\ Len(b) = 0 /\ l < c /\ c - f = g + Len(b) + sk + th
  BY DEF ReaderOK
<1> QED
  BY <1>1 DEF ReaderOK

LEMMA PastOK ==
  ASSUME NEW b \in Seq(Nat), NEW c \in Nat \ {0}, NEW sk \in Nat,
         NEW f \in Nat \ {0}, NEW l \in Nat, NEW g \in Nat, NEW th \in Nat,
         NEW to, NEW n \in Nat, NEW up,
         ReaderOK("resync", b, c, sk, f, l, g, th, to, n, up), c <= n
  PROVE  ReaderOK("resync", b, c + 1, sk, f, l, g, th + 1, to, n, up)
<1>1. /\ b = <<>> /\ Len(b) = 0 /\ sk > 0 /\ l < c
      /\ c - f = g + Len(b) + sk + th
  BY DEF ReaderOK
<1> QED
  BY <1>1 DEF ReaderOK

LEMMA CancelOK ==
  ASSUME NEW ph \in {"recv", "resync"}, NEW b \in Seq(Nat),
         NEW c \in Nat \ {0}, NEW sk \in Nat,
         NEW f \in Nat \ {0}, NEW l \in Nat, NEW g \in Nat, NEW th \in Nat,
         NEW to, NEW n \in Nat, NEW up,
         ReaderOK(ph, b, c, sk, f, l, g, th, to, n, up),
         NEW t2 \in BOOLEAN, t2 = (to \/ ph = "resync")
  PROVE  ReaderOK("idle", b, c, sk, f, l, g, th, t2, n, up)
<1>1. b = <<>> /\ Len(b) = 0
  BY DEF ReaderOK
<1> QED
  BY <1>1 DEF ReaderOK

LEMMA MoreSentOK ==
  ASSUME NEW ph, NEW b \in Seq(Nat), NEW c \in Nat \ {0}, NEW sk \in Nat,
         NEW f \in Nat \ {0}, NEW l \in Nat, NEW g \in Nat, NEW th \in Nat,
         NEW to, NEW n \in Nat,
         ReaderOK(ph, b, c, sk, f, l, g, th, to, n, TRUE)
  PROVE  /\ ReaderOK(ph, b, c, sk, f, l, g, th, to, n + 1, TRUE)
         /\ ReaderOK(ph, b, c, sk, f, l, g, th, to, n, FALSE)
BY DEF ReaderOK

-----------------------------------------------------------------------------
(***************************************************************************)
(* Each action preserves the invariant                                     *)
(***************************************************************************)

\* A step leaves reader q alone.
Untouched(q) ==
  /\ phase'[q] = phase[q] /\ backlog'[q] = backlog[q]
  /\ cursor'[q] = cursor[q] /\ skipped'[q] = skipped[q]
  /\ first'[q] = first[q] /\ last'[q] = last[q] /\ got'[q] = got[q]
  /\ thrown'[q] = thrown[q] /\ torn'[q] = torn[q]

\* The facts about reader r that the lemmas above ask for.
LEMMA ReaderTypes ==
  ASSUME TypeOK, NEW r \in Readers
  PROVE  /\ backlog[r] \in Seq(Nat) /\ cursor[r] \in Nat \ {0} /\ skipped[r] \in Nat
         /\ first[r] \in Nat \ {0} /\ last[r] \in Nat /\ got[r] \in Nat
         /\ thrown[r] \in Nat /\ torn[r] \in BOOLEAN /\ phase[r] \in Phases
         /\ Len(sent) \in Nat
BY DEF TypeOK

LEMMA OneReaderMoves ==
  ASSUME ReaderInv, NEW r \in Readers, UNCHANGED source,
         \A q \in Readers \ {r} : Untouched(q),
         phase'[r] # "off" => Stands(r)'
  PROVE  ReaderInv'
<1> SUFFICES ASSUME NEW q \in Readers, phase'[q] # "off"
             PROVE  Stands(q)'
  BY DEF ReaderInv, Attached
<1>1. CASE q = r
  BY <1>1
<1>2. CASE q # r
  <2>1. Untouched(q) /\ phase[q] # "off"
    BY <1>2 DEF Untouched
  <2>2. Stands(q)
    BY <2>1 DEF ReaderInv, Attached
  <2> QED
    BY <2>1, <2>2 DEF Untouched, Stands, source
<1> QED
  BY <1>1, <1>2

LEMMA OldestHeld ==
  ASSUME TypeOK, NEW r \in Readers
  PROVE  /\ Oldest \in Nat \ {0}
         /\ HasLagged(r) => cursor[r] < Oldest /\ Oldest <= Len(sent)
BY FeedAssumption DEF TypeOK, Oldest, HasLagged

LEMMA AttachStep ==
  ASSUME Inv, NEW r \in Readers, Attach(r)
  PROVE  TypeOK' /\ ReaderInv'
<1> DEFINE from == Len(sent) - Len(cache.units)
<1>1. /\ from + 1 \in Nat \ {0} /\ from \in Nat /\ Len(sent) + 1 \in Nat \ {0}
      /\ cache.units \in Seq(Nat)
      /\ ReaderOK("idle", cache.units, Len(sent) + 1, 0, from + 1, from, 0, 0, FALSE,
                  Len(sent), open)
  BY AttachOK DEF Inv, TypeOK
<1>2. /\ phase' = [phase EXCEPT ![r] = "idle"]
      /\ backlog' = [backlog EXCEPT ![r] = cache.units]
      /\ cursor' = [cursor EXCEPT ![r] = Len(sent) + 1]
      /\ skipped' = [skipped EXCEPT ![r] = 0]
      /\ first' = [first EXCEPT ![r] = from + 1]
      /\ last' = [last EXCEPT ![r] = from]
      /\ got' = [got EXCEPT ![r] = 0]
      /\ thrown' = [thrown EXCEPT ![r] = 0]
      /\ torn' = [torn EXCEPT ![r] = FALSE]
      /\ sent' = sent /\ open' = open /\ cache' = cache
  BY DEF Attach, Begin, source
<1> HIDE DEF from
<1>3. TypeOK
  BY DEF Inv
<1>4. TypeOK'
  BY <1>1, <1>2, <1>3 DEF TypeOK, Phases
<1>5. Stands(r)'
  BY <1>1, <1>2, <1>3 DEF TypeOK, Stands
<1>6. \A q \in Readers \ {r} : Untouched(q)
  BY <1>2, <1>3 DEF TypeOK, Untouched
<1> QED
  BY <1>2, <1>4, <1>5, <1>6, OneReaderMoves DEF Inv, source

LEMMA DetachStep ==
  ASSUME Inv, NEW r \in Readers, Detach(r)
  PROVE  TypeOK' /\ ReaderInv'
<1>1. TypeOK
  BY DEF Inv
<1>2. TypeOK'
  BY <1>1 DEF TypeOK, Phases, Detach, source
<1>3. phase'[r] = "off" /\ \A q \in Readers \ {r} : Untouched(q)
  BY <1>1 DEF TypeOK, Detach, Untouched
<1> QED
  BY <1>2, <1>3, OneReaderMoves DEF Inv, Detach

LEMMA TakeBacklogStep ==
  ASSUME Inv, NEW r \in Readers, TakeBacklog(r)
  PROVE  TypeOK' /\ ReaderInv' /\ last'[r] = last[r] + 1
<1>1. TypeOK /\ phase[r] = "idle" /\ Stands(r) /\ backlog[r] # <<>>
  BY DEF Inv, TakeBacklog, ReaderInv, Attached
<1>2. PICK rest \in Seq(Nat), n \in Nat :
        /\ rest = Tail(backlog[r]) /\ n = Head(backlog[r]) /\ n = last[r] + 1
        /\ ReaderOK("idle", rest, cursor[r], skipped[r], first[r], n, got[r] + 1,
                    thrown[r], FALSE, Len(sent), open)
  <2>1. PICK b \in Seq(Nat), c \in Nat \ {0}, sk \in Nat, f \in Nat \ {0}, l \in Nat,
              g \in Nat, th \in Nat, n \in Nat :
          /\ b = backlog[r] /\ c = cursor[r] /\ sk = skipped[r] /\ f = first[r]
          /\ l = last[r] /\ g = got[r] /\ th = thrown[r] /\ n = Len(sent)
    BY <1>1, ReaderTypes, Zenon
  <2>2. ReaderOK("idle", b, c, sk, f, l, g, th, torn[r], n, open) /\ b # <<>>
    BY <1>1, <2>1 DEF Stands
  <2>3. /\ Tail(b) \in Seq(Nat) /\ Head(b) = b[1] /\ Head(b) \in Nat
        /\ Len(b) \in Nat \ {0} /\ Len(Tail(b)) = Len(b) - 1
        /\ \A i \in 1..Len(Tail(b)) : Tail(b)[i] = b[i + 1]
    BY <2>2
  <2>4. /\ sk = 0 /\ c = l + Len(b) + 1
        /\ c <= n + 1 /\ c - f = g + Len(b) + sk + th
        /\ \A i \in 1..Len(b) : b[i] = c - 1 - Len(b) + i
    BY <2>2 DEF ReaderOK
  <2>5. PICK t \in Seq(Nat), h \in Nat : t = Tail(b) /\ h = Head(b)
    BY <2>3
  <2>6. PICK m \in Nat, k \in Nat \ {0} : m = Len(t) /\ k = Len(b)
    <3>1. Len(t) \in Nat /\ Len(b) \in Nat \ {0}
      BY <2>3
    <3> QED
      BY <3>1, Zenon
  <2>7. /\ m = k - 1 /\ h = l + 1
        /\ \A i \in 1..Len(t) : t[i] = c - 1 - Len(t) + i
    BY <2>3, <2>4, <2>5, <2>6
  <2>8. h < c /\ c = h + m + 1 /\ c - f = (g + 1) + m + sk + th
    <3>1. sk = 0 /\ c = l + k + 1 /\ c - f = g + k + sk + th
      BY <2>4, <2>6
    <3> QED
      BY <2>7, <3>1
  <2>9. ReaderOK("idle", t, c, sk, f, h, g + 1, th, FALSE, n, open)
    <3>1. sk = 0 /\ c <= n + 1
      BY <2>4
    <3> QED
      BY <2>6, <2>7, <2>8, <3>1 DEF ReaderOK
  <2> QED
    BY <2>1, <2>5, <2>7, <2>9
<1>3. /\ phase' = [phase EXCEPT ![r] = "idle"]
      /\ backlog' = [backlog EXCEPT ![r] = rest]
      /\ last' = [last EXCEPT ![r] = n]
      /\ got' = [got EXCEPT ![r] = got[r] + 1]
      /\ torn' = [torn EXCEPT ![r] = FALSE]
      /\ cursor' = cursor /\ skipped' = skipped /\ first' = first /\ thrown' = thrown
      /\ sent' = sent /\ open' = open /\ cache' = cache
  BY <1>2 DEF TakeBacklog, HandOver, source
<1>4. TypeOK'
  <2>1. rest \in Seq(Nat) /\ n \in Nat /\ TypeOK
    BY <1>1
  <2> QED
    BY <1>3, <2>1 DEF TypeOK, Phases
<1>5. Stands(r)'
  BY <1>1, <1>2, <1>3 DEF TypeOK, Stands
<1>6. \A q \in Readers \ {r} : Untouched(q)
  BY <1>1, <1>3 DEF TypeOK, Untouched
<1>7. last'[r] = last[r] + 1
  BY <1>1, <1>2, <1>3 DEF TypeOK
<1> QED
  BY <1>3, <1>4, <1>5, <1>6, <1>7, OneReaderMoves DEF Inv, source

LEMMA AwaitStep ==
  ASSUME Inv, NEW r \in Readers, Await(r)
  PROVE  TypeOK' /\ ReaderInv'
<1>1. TypeOK /\ phase[r] = "idle" /\ Stands(r) /\ backlog[r] = <<>>
  BY DEF Inv, Await, ReaderInv, Attached
<1>2. ReaderOK("recv", backlog[r], cursor[r], skipped[r], first[r], last[r], got[r],
               thrown[r], torn[r], Len(sent), open)
  BY <1>1 DEF Stands, ReaderOK
<1>3. /\ phase' = [phase EXCEPT ![r] = "recv"]
      /\ UNCHANGED <<source, backlog, cursor, skipped, history>>
  BY DEF Await
<1>4. TypeOK'
  BY <1>1, <1>3 DEF TypeOK, Phases, source, history
<1>5. Stands(r)'
  BY <1>1, <1>2, <1>3 DEF TypeOK, Stands, source, history
<1>6. \A q \in Readers \ {r} : Untouched(q)
  BY <1>1, <1>3 DEF TypeOK, Untouched, history
<1> QED
  BY <1>3, <1>4, <1>5, <1>6, OneReaderMoves DEF Inv

\* What RecvUnit and ResyncFound have in common.
LEMMA TakenFromFeed ==
  ASSUME Inv, NEW r \in Readers, Receiving(r), HasUnit(r), HandOver(r, cursor[r]),
         cursor' = [cursor EXCEPT ![r] = @ + 1], backlog' = backlog, skipped' = skipped
  PROVE  TypeOK' /\ ReaderInv' /\ last'[r] = cursor[r]
<1>1. TypeOK /\ phase[r] \in {"recv", "resync"} /\ Stands(r) /\ cursor[r] <= Len(sent)
  BY DEF Inv, Receiving, HasUnit, ReaderInv, Attached
<1>2. ReaderOK("idle", backlog[r], cursor[r] + 1, skipped[r], first[r], cursor[r],
               got[r] + 1, thrown[r], FALSE, Len(sent), open)
  BY <1>1, ReaderTypes, HandOverOK DEF Stands
<1>3. /\ phase' = [phase EXCEPT ![r] = "idle"]
      /\ last' = [last EXCEPT ![r] = cursor[r]]
      /\ got' = [got EXCEPT ![r] = got[r] + 1]
      /\ torn' = [torn EXCEPT ![r] = FALSE]
      /\ cursor' = [cursor EXCEPT ![r] = cursor[r] + 1]
      /\ first' = first /\ thrown' = thrown
      /\ sent' = sent /\ open' = open /\ cache' = cache
  BY DEF HandOver, source
<1>4. TypeOK'
  BY <1>1, <1>3 DEF TypeOK, Phases
<1>5. Stands(r)'
  BY <1>1, <1>2, <1>3 DEF TypeOK, Stands
<1>6. \A q \in Readers \ {r} : Untouched(q)
  BY <1>1, <1>3 DEF TypeOK, Untouched
<1>7. last'[r] = cursor[r]
  BY <1>1, <1>3 DEF TypeOK
<1> QED
  BY <1>3, <1>4, <1>5, <1>6, <1>7, OneReaderMoves DEF Inv, source

LEMMA RecvUnitStep ==
  ASSUME Inv, NEW r \in Readers, RecvUnit(r)
  PROVE  TypeOK' /\ ReaderInv' /\ last'[r] = cursor[r]
BY TakenFromFeed DEF RecvUnit, Receiving

\* While resync() runs the backlog is empty, so the picture it pushes is the
\* one next() pops.
LEMMA ResyncFoundStep ==
  ASSUME Inv, NEW r \in Readers, ResyncFound(r)
  PROVE  TypeOK' /\ ReaderInv' /\ last'[r] = cursor[r]
<1>1. TypeOK /\ Stands(r) /\ phase[r] = "resync"
  BY DEF Inv, ResyncFound, ReaderInv, Attached
<1>2. backlog[r] = <<>>
  BY <1>1 DEF Stands, ReaderOK
<1>3. /\ Head(Append(<<>>, cursor[r])) = cursor[r]
      /\ Tail(Append(<<>>, cursor[r])) = <<>>
  <2>1. Append(<<>>, cursor[r]) = <<cursor[r]>>
    BY <1>1, ReaderTypes
  <2>2. Head(<<cursor[r]>>) = cursor[r] /\ Tail(<<cursor[r]>>) = <<>>
    BY <1>1, ReaderTypes
  <2> QED
    BY <2>1, <2>2
<1>4. /\ HandOver(r, cursor[r]) /\ HasUnit(r) /\ Receiving(r)
      /\ cursor' = [cursor EXCEPT ![r] = @ + 1] /\ skipped' = skipped
      /\ backlog' = [backlog EXCEPT ![r] = Tail(Append(@, cursor[r]))]
  BY <1>2, <1>3 DEF ResyncFound, Receiving
<1>5. backlog' = backlog
  <2>1. backlog' = [backlog EXCEPT ![r] = backlog[r]]
    BY <1>2, <1>3, <1>4
  <2> QED
    BY <1>1, <2>1 DEF TypeOK
<1> QED
  BY <1>4, <1>5, TakenFromFeed

LEMMA RecvLaggedStep ==
  ASSUME Inv, NEW r \in Readers, RecvLagged(r)
  PROVE  TypeOK' /\ ReaderInv'
<1>1. TypeOK /\ phase[r] \in {"recv", "resync"} /\ Stands(r)
  BY DEF Inv, RecvLagged, Receiving, ReaderInv, Attached
<1>2. PICK oldest \in Nat \ {0} : oldest = Oldest /\ cursor[r] < oldest /\ oldest <= Len(sent)
  BY <1>1, OldestHeld DEF RecvLagged
<1>3. ReaderOK("resync", backlog[r], oldest, skipped[r] + (oldest - cursor[r]), first[r],
               last[r], got[r], thrown[r], torn[r], Len(sent), open)
  BY <1>1, <1>2, ReaderTypes, LaggedOK DEF Stands
<1>4. skipped[r] + (oldest - cursor[r]) \in Nat
  BY <1>1, <1>2, ReaderTypes
<1>5. /\ phase' = [phase EXCEPT ![r] = "resync"]
      /\ cursor' = [cursor EXCEPT ![r] = oldest]
      /\ skipped' = [skipped EXCEPT ![r] = skipped[r] + (oldest - cursor[r])]
      /\ UNCHANGED <<source, backlog, history>>
  BY <1>2 DEF RecvLagged
<1>6. TypeOK'
  BY <1>1, <1>4, <1>5 DEF TypeOK, Phases, source, history
<1>7. Stands(r)'
  BY <1>1, <1>3, <1>5 DEF TypeOK, Stands, source, history
<1>8. \A q \in Readers \ {r} : Untouched(q)
  BY <1>1, <1>5 DEF TypeOK, Untouched, history
<1> QED
  BY <1>5, <1>6, <1>7, <1>8, OneReaderMoves DEF Inv

LEMMA ResyncPastStep ==
  ASSUME Inv, NEW r \in Readers, ResyncPast(r)
  PROVE  TypeOK' /\ ReaderInv'
<1>1. TypeOK /\ phase[r] = "resync" /\ Stands(r) /\ cursor[r] <= Len(sent)
  BY DEF Inv, ResyncPast, HasUnit, ReaderInv, Attached
<1>2. ReaderOK("resync", backlog[r], cursor[r] + 1, skipped[r], first[r], last[r], got[r],
               thrown[r] + 1, torn[r], Len(sent), open)
  BY <1>1, ReaderTypes, PastOK DEF Stands
<1>3. /\ cursor' = [cursor EXCEPT ![r] = cursor[r] + 1]
      /\ thrown' = [thrown EXCEPT ![r] = thrown[r] + 1]
      /\ UNCHANGED <<source, phase, backlog, skipped, first, last, got, torn>>
  BY DEF ResyncPast
<1>4. TypeOK'
  BY <1>1, <1>3 DEF TypeOK, source
<1>5. Stands(r)'
  BY <1>1, <1>2, <1>3 DEF TypeOK, Stands, source
<1>6. \A q \in Readers \ {r} : Untouched(q)
  BY <1>1, <1>3 DEF TypeOK, Untouched
<1> QED
  BY <1>3, <1>4, <1>5, <1>6, OneReaderMoves DEF Inv

LEMMA RecvClosedStep ==
  ASSUME Inv, NEW r \in Readers, RecvClosed(r)
  PROVE  TypeOK' /\ ReaderInv'
<1>1. /\ TypeOK /\ phase[r] \in {"recv", "resync"} /\ Stands(r)
      /\ ~open /\ cursor[r] = Len(sent) + 1
  BY DEF Inv, RecvClosed, Receiving, HasClosed, ReaderInv, Attached
<1>2. ReaderOK("ended", backlog[r], cursor[r], skipped[r], first[r], last[r], got[r],
               thrown[r], torn[r], Len(sent), open)
  BY <1>1 DEF Stands, ReaderOK
<1>3. /\ phase' = [phase EXCEPT ![r] = "ended"]
      /\ UNCHANGED <<source, backlog, cursor, skipped, history>>
  BY DEF RecvClosed
<1>4. TypeOK'
  BY <1>1, <1>3 DEF TypeOK, Phases, source, history
<1>5. Stands(r)'
  BY <1>1, <1>2, <1>3 DEF TypeOK, Stands, source, history
<1>6. \A q \in Readers \ {r} : Untouched(q)
  BY <1>1, <1>3 DEF TypeOK, Untouched, history
<1> QED
  BY <1>3, <1>4, <1>5, <1>6, OneReaderMoves DEF Inv

LEMMA CancelStep ==
  ASSUME Inv, NEW r \in Readers, Cancel(r)
  PROVE  TypeOK' /\ ReaderInv'
<1>1. TypeOK /\ phase[r] \in {"recv", "resync"} /\ Stands(r)
  BY DEF Inv, Cancel, Receiving, ReaderInv, Attached
<1>2. PICK cut \in BOOLEAN : cut = (torn[r] \/ phase[r] = "resync")
  OBVIOUS
<1>3. ReaderOK("idle", backlog[r], cursor[r], skipped[r], first[r], last[r], got[r],
               thrown[r], cut, Len(sent), open)
  BY <1>1, <1>2, ReaderTypes, CancelOK DEF Stands
<1>4. /\ phase' = [phase EXCEPT ![r] = "idle"]
      /\ torn' = [torn EXCEPT ![r] = cut]
      /\ UNCHANGED <<source, backlog, cursor, skipped, first, last, got, thrown>>
  BY <1>2 DEF Cancel
<1>5. TypeOK'
  BY <1>1, <1>4 DEF TypeOK, Phases, source
<1>6. Stands(r)'
  BY <1>1, <1>3, <1>4 DEF TypeOK, Stands, source
<1>7. \A q \in Readers \ {r} : Untouched(q)
  BY <1>1, <1>4 DEF TypeOK, Untouched
<1> QED
  BY <1>4, <1>5, <1>6, <1>7, OneReaderMoves DEF Inv

LEMMA PushStep ==
  ASSUME Inv, NEW kind \in Kinds, NEW len \in Lens, Push(kind, len)
  PROVE  Inv'
<1>1. /\ TypeOK /\ Monotone(sent) /\ Holds(cache, sent) /\ ReaderInv /\ open
      /\ UNCHANGED <<open, phase, backlog, cursor, skipped, history>>
  BY DEF Inv, Push
<1>2. /\ sent' \in Seq(Units) /\ Len(sent') = Len(sent) + 1
      /\ \A n \in 1..Len(sent) : sent'[n] = sent[n]
      /\ cache' = CachePush(sent')
  BY <1>1, PushStream
<1>3. Monotone(sent')
  BY <1>1, PushMonotone
<1>4. Grows(sent, sent')
  BY <1>1, <1>2, <1>3 DEF Grows, TypeOK
<1>5. Holds(cache', sent')
  BY <1>1, <1>2, <1>4, CachePushGood
<1>6. TypeOK'
  BY <1>1, <1>2, <1>5 DEF TypeOK, Holds, history
<1>7. ReaderInv'
  <2> SUFFICES ASSUME NEW r \in Readers, Attached(r)  PROVE Stands(r)'
    BY <1>1 DEF ReaderInv, Attached
  <2>1. Stands(r)
    BY <1>1 DEF ReaderInv
  <2>2. ReaderOK(phase[r], backlog[r], cursor[r], skipped[r], first[r], last[r], got[r],
                 thrown[r], torn[r], Len(sent), TRUE)
    BY <1>1, <2>1 DEF Stands
  <2>3. ReaderOK(phase[r], backlog[r], cursor[r], skipped[r], first[r], last[r], got[r],
                 thrown[r], torn[r], Len(sent) + 1, TRUE)
    BY <1>1, <2>2, ReaderTypes, MoreSentOK
  <2> QED
    BY <1>1, <1>2, <2>3 DEF Stands, history
<1> QED
  BY <1>3, <1>5, <1>6, <1>7 DEF Inv

LEMMA CloseStep ==
  ASSUME Inv, Close
  PROVE  Inv'
<1>1. /\ TypeOK /\ Monotone(sent) /\ Holds(cache, sent) /\ ReaderInv /\ open /\ open' = FALSE
      /\ UNCHANGED <<sent, cache, phase, backlog, cursor, skipped, history>>
  BY DEF Inv, Close
<1>2. TypeOK'
  BY <1>1 DEF TypeOK, history
<1>3. ReaderInv'
  <2> SUFFICES ASSUME NEW r \in Readers, Attached(r)  PROVE Stands(r)'
    BY <1>1 DEF ReaderInv, Attached
  <2>1. Stands(r)
    BY <1>1 DEF ReaderInv
  <2>2. ReaderOK(phase[r], backlog[r], cursor[r], skipped[r], first[r], last[r], got[r],
                 thrown[r], torn[r], Len(sent), TRUE)
    BY <1>1, <2>1 DEF Stands
  <2>3. ReaderOK(phase[r], backlog[r], cursor[r], skipped[r], first[r], last[r], got[r],
                 thrown[r], torn[r], Len(sent), FALSE)
    BY <1>1, <2>2, ReaderTypes, MoreSentOK
  <2> QED
    BY <1>1, <2>3 DEF Stands, history
<1> QED
  BY <1>1, <1>2, <1>3 DEF Inv

\* A step of a reader does not touch the stream or its cache.
LEMMA ReaderStep ==
  ASSUME Inv, NEW r \in Readers, Attach(r) \/ Detach(r) \/ Cancel(r) \/ Read(r)
  PROVE  Inv'
<1>1. UNCHANGED source
  BY DEF Attach, Begin, Detach, Cancel, Read, Poll, TakeBacklog, Await, HandOver, RecvUnit,
         RecvLagged, ResyncFound, ResyncPast, RecvClosed
<1>2. TypeOK' /\ ReaderInv'
  <2>1. CASE Attach(r)
    BY <2>1, AttachStep
  <2>2. CASE Detach(r)
    BY <2>2, DetachStep
  <2>3. CASE Cancel(r)
    BY <2>3, CancelStep
  <2>4. CASE TakeBacklog(r)
    BY <2>4, TakeBacklogStep
  <2>5. CASE Await(r)
    BY <2>5, AwaitStep
  <2>6. CASE RecvUnit(r)
    BY <2>6, RecvUnitStep
  <2>7. CASE RecvLagged(r)
    BY <2>7, RecvLaggedStep
  <2>8. CASE ResyncFound(r)
    BY <2>8, ResyncFoundStep
  <2>9. CASE ResyncPast(r)
    BY <2>9, ResyncPastStep
  <2>10. CASE RecvClosed(r)
    BY <2>10, RecvClosedStep
  <2> QED
    BY <2>1, <2>2, <2>3, <2>4, <2>5, <2>6, <2>7, <2>8, <2>9, <2>10 DEF Read, Poll
<1> QED
  BY <1>1, <1>2 DEF Inv, source

-----------------------------------------------------------------------------
(***************************************************************************)
(* The invariant holds                                                     *)
(***************************************************************************)

LEMMA InitInv == Init => Inv
<1> SUFFICES ASSUME Init  PROVE Inv
  OBVIOUS
<1>1. EmptyCache \in Caches
  BY DEF EmptyCache, Caches
<1>2. TypeOK
  BY <1>1 DEF Init, TypeOK, Phases
<1>3. sent = <<>> /\ Len(sent) = 0
  BY DEF Init
<1>4. Monotone(sent)
  BY <1>3 DEF Monotone, UpTo
<1>5. Holds(cache, sent)
  <2>1. GoodCache(<<>>, 0, FALSE, FALSE, <<>>)
    BY FeedAssumption
    DEF GoodCache, IsRun, FlagsAreRight, GroupIsWhole, TailIsLongest, HasKey, UpTo
  <2>2. Holds(EmptyCache, <<>>)
    BY <1>1, <2>1 DEF Holds, EmptyCache
  <2> QED
    BY <1>3, <2>2 DEF Init
<1>6. ReaderInv
  BY DEF Init, ReaderInv, Attached
<1> QED
  BY <1>2, <1>4, <1>5, <1>6 DEF Inv

LEMMA NextInv == Inv /\ [Next]_vars => Inv'
<1> SUFFICES ASSUME Inv, [Next]_vars  PROVE Inv'
  OBVIOUS
<1>1. ASSUME NEW kind \in Kinds, NEW len \in Lens, Push(kind, len)  PROVE Inv'
  BY <1>1, PushStep
<1>2. CASE Close
  BY <1>2, CloseStep
<1>3. ASSUME NEW r \in Readers, Attach(r) \/ Detach(r) \/ Cancel(r) \/ Read(r)  PROVE Inv'
  BY <1>3, ReaderStep
<1>4. CASE UNCHANGED vars
  BY <1>4 DEF vars, Inv, TypeOK, ReaderInv, Attached, Stands
<1> QED
  BY <1>1, <1>2, <1>3, <1>4 DEF Next

\* Every reachable state of a feed and its readers (path.rs) satisfies the inductive invariant:
\* whatever the interleaving of pushes, attachments, reads, resyncs and the close.
THEOREM FeedInvariant == Spec => []Inv
BY InitInv, NextInv, PTL DEF Spec

\* The model is type-correct.
THEOREM TypeCorrect == Spec => []TypeOK
<1>1. Inv => TypeOK
  BY DEF Inv
<1> QED
  BY <1>1, FeedInvariant, PTL

\* A reader that has not lagged is handed one unbroken run of units, across
\* the seam between Registry::read's copy of the cache and its subscription.
THEOREM NothingLost == Spec => []NothingLostUnlessBehind
<1>1. Inv => NothingLostUnlessBehind
  <2> SUFFICES ASSUME Inv, NEW r \in Readers, Attached(r), skipped[r] = 0
               PROVE  /\ cursor[r] = last[r] + Len(backlog[r]) + 1
                      /\ \A i \in 1..Len(backlog[r]) : backlog[r][i] = last[r] + i
    BY DEF NothingLostUnlessBehind
  <2>1. TypeOK /\ Stands(r)
    BY DEF Inv, ReaderInv
  <2>2. PICK b \in Seq(Nat) : b = backlog[r]
    BY <2>1, ReaderTypes
  <2>3. /\ cursor[r] = last[r] + Len(b) + 1
        /\ \A i \in 1..Len(b) : b[i] = cursor[r] - 1 - Len(b) + i
    BY <2>1, <2>2 DEF Stands, ReaderOK
  <2>4. \A i \in 1..Len(b) : b[i] = last[r] + i
    BY <2>1, <2>3, ReaderTypes
  <2> QED
    BY <2>2, <2>3, <2>4
<1> QED
  BY <1>1, FeedInvariant, PTL

\* What a reader missed is what skipped() counts and what resync() read past.
THEOREM AllAccountedFor == Spec => []EveryUnitAccountedFor
<1>1. Inv => EveryUnitAccountedFor
  <2> SUFFICES ASSUME Inv, NEW r \in Readers, Attached(r)
               PROVE  Missed(r) = skipped[r] + thrown[r]
    BY DEF EveryUnitAccountedFor
  <2>1. TypeOK /\ Stands(r)
    BY DEF Inv, ReaderInv
  <2>2. cursor[r] - first[r] = got[r] + Len(backlog[r]) + skipped[r] + thrown[r]
    BY <2>1 DEF Stands, ReaderOK
  <2>3. Len(backlog[r]) \in Nat
    BY <2>1, ReaderTypes
  <2> QED
    BY <2>1, <2>2, <2>3, ReaderTypes DEF Missed
<1> QED
  BY <1>1, FeedInvariant, PTL

\* Pictures: the last keyframe is the k of GroupIsWhole.
LEMMA LastKeyIs ==
  ASSUME TypeOK, NEW k \in 1..Len(sent), OpensAStream(sent[k]),
         \A m \in (k + 1)..Len(sent) : ~OpensAStream(sent[m])
  PROVE  LastKey = k
<1> DEFINE IsLast(n) == /\ OpensAStream(sent[n])
                        /\ \A m \in (n + 1)..Len(sent) : ~OpensAStream(sent[m])
<1>1. Len(sent) \in Nat
  BY DEF TypeOK
<1>2. ASSUME NEW n \in 1..Len(sent), IsLast(n)  PROVE n = k
  <2>1. ~(n < k)
    <3>1. ASSUME n < k  PROVE FALSE
      <4>1. k \in (n + 1)..Len(sent)
        BY <1>1, <3>1
      <4> QED
        BY <1>2, <4>1
    <3> QED
      BY <3>1
  <2>2. ~(k < n)
    <3>1. ASSUME k < n  PROVE FALSE
      <4>1. n \in (k + 1)..Len(sent)
        BY <1>1, <3>1
      <4> QED
        BY <1>2, <4>1
    <3> QED
      BY <3>1
  <2> QED
    BY <1>1, <2>1, <2>2
<1>3. IsLast(k)
  OBVIOUS
<1>4. (CHOOSE n \in 1..Len(sent) : IsLast(n)) = k
  <2> HIDE DEF IsLast
  <2> QED
    BY <1>2, <1>3
<1> QED
  BY <1>4 DEF LastKey

\* However it was reached, the cache is the whole of what a joining reader
\* should get.
THEOREM CacheIsRight == Spec => []CacheIsLastGroup
<1>1. ASSUME Inv  PROVE CacheIsLastGroup
  <2> DEFINE L == Len(sent)
  <2>1. TypeOK /\ L \in Nat
    BY <1>1 DEF Inv, TypeOK
  <2>2. PICK run \in Seq(Nat), bytes \in Nat, ovf \in BOOLEAN, pic \in BOOLEAN :
          /\ cache = [units |-> run, bytes |-> bytes, overflowed |-> ovf, pictures |-> pic]
          /\ GoodCache(run, bytes, ovf, pic, sent)
    BY <1>1 DEF Inv, Holds, Caches
  <2>3. /\ cache.units = run /\ cache.bytes = bytes
        /\ Len(run) \in Nat /\ Len(run) <= L
        /\ \A i \in 1..Len(run) : run[i] = L - Len(run) + i
        /\ bytes = UpTo(sent, L) - UpTo(sent, L - Len(run))
        /\ bytes <= CACHE_LIMIT
    BY <2>2 DEF GoodCache, IsRun
  <2>4. \A n \in 0..L : UpTo(sent, n) \in Nat
    BY <2>1, UpToNat DEF TypeOK
  <2>5. CacheStart = L - Len(run) + 1
    <3>1. CASE pic
      <4>1. PICK k \in 1..L :
              /\ OpensAStream(sent[k])
              /\ \A m \in (k + 1)..L : ~OpensAStream(sent[m])
              /\ ovf => Bytes(sent, k, L) > CACHE_LIMIT
              /\ ~ovf => Len(run) = L - k + 1
        BY <2>2, <3>1 DEF GoodCache, GroupIsWhole
      <4>2. LastKey = k /\ k > 0 /\ k \in Nat
        BY <2>1, <4>1, LastKeyIs
      <4>3. CASE ovf
        <5>1. run = <<>> /\ Len(run) = 0
          BY <2>2, <4>3 DEF GoodCache, FlagsAreRight
        <5>2. Bytes(sent, k, L) \in Int
          <6>1. k - 1 \in 0..L /\ L \in 0..L
            BY <2>1
          <6> QED
            BY <2>4, <6>1 DEF Bytes
        <5>3. ~(Bytes(sent, k, L) <= CACHE_LIMIT)
          BY <4>1, <4>3, <5>2, FeedAssumption
        <5> QED
          BY <2>1, <4>2, <5>1, <5>3 DEF CacheStart
      <4>4. CASE ~ovf
        <5>1. Len(run) = L - k + 1 /\ L - Len(run) = k - 1
          BY <2>1, <4>1, <4>4
        <5>2. Bytes(sent, k, L) = bytes
          BY <2>3, <5>1 DEF Bytes
        <5>3. CacheStart = k
          BY <2>3, <4>2, <5>2, Zenon DEF CacheStart
        <5> QED
          BY <2>1, <2>3, <4>2, <5>1, <5>3
      <4> QED
        BY <4>3, <4>4
    <3>2. CASE ~pic
      <4> DEFINE at == L - Len(run) + 1
                 Fits(n) == /\ Bytes(sent, n, L) <= CACHE_LIMIT
                            /\ \A m \in 1..(n - 1) : Bytes(sent, m, L) > CACHE_LIMIT
      <4>1. ~HasKey(sent) /\ LastKey = 0
        BY <2>2, <3>2 DEF GoodCache, FlagsAreRight, HasKey, LastKey
      <4>2. at \in 1..(L + 1) /\ at - 1 = L - Len(run)
        BY <2>1, <2>3
      <4>3. Bytes(sent, at, L) = bytes
        BY <2>3, <4>2 DEF Bytes
      <4>4. \A m \in 1..(at - 1) : Bytes(sent, m, L) > CACHE_LIMIT
        BY <2>2, <3>2, <4>2 DEF GoodCache, TailIsLongest
      <4>5. Fits(at)
        BY <2>3, <4>3, <4>4
      <4>6. \A m \in 1..(L + 1) : Bytes(sent, m, L) \in Int
        <5>1. \A m \in 1..(L + 1) : m - 1 \in 0..L /\ L \in 0..L
          BY <2>1
        <5> QED
          BY <2>4, <5>1 DEF Bytes
      <4>7. ASSUME NEW n \in 1..(L + 1), Fits(n)  PROVE n = at
        <5> HIDE DEF at, L
        <5>1. ~(n < at)
          <6>1. ASSUME n < at  PROVE FALSE
            <7>1. n \in 1..(at - 1) /\ Bytes(sent, n, L) \in Int
              BY <2>1, <4>2, <4>6, <6>1
            <7> QED
              BY <4>4, <4>7, <7>1, FeedAssumption
          <6> QED
            BY <6>1
        <5>2. ~(at < n)
          <6>1. ASSUME at < n  PROVE FALSE
            <7>1. at \in 1..(n - 1) /\ Bytes(sent, at, L) \in Int
              BY <2>1, <4>2, <4>6, <6>1
            <7> QED
              BY <4>5, <4>7, <7>1, FeedAssumption
          <6> QED
            BY <6>1
        <5> QED
          BY <2>1, <4>2, <5>1, <5>2
      <4>8. (CHOOSE n \in 1..(L + 1) : Fits(n)) = at
        <5> HIDE DEF Fits, at
        <5> QED
          BY <4>2, <4>5, <4>7
      <4> QED
        BY <4>1, <4>8 DEF CacheStart
    <3> QED
      BY <3>1, <3>2
  <2>6. L + 1 - CacheStart = Len(run) /\ CacheStart - 1 = L - Len(run)
    BY <2>1, <2>3, <2>5
  <2>7. \A i \in 1..Len(run) : run[i] = CacheStart + i - 1
    BY <2>1, <2>3, <2>5
  <2>8. bytes = Bytes(sent, CacheStart, L)
    BY <2>3, <2>6 DEF Bytes
  <2> QED
    BY <2>3, <2>6, <2>7, <2>8 DEF CacheIsLastGroup
<1> QED
  BY <1>1, FeedInvariant, PTL

\* What next() leaves out, it leaves out right before a keyframe, unless a
\* resync() was dropped half way.
THEOREM OnlyToKeyframes == Spec => SkipsOnlyToKeyframes
<1>1. ASSUME Inv, Next
      PROVE  \A r \in Readers :
        HandsOver(r) =>
                /\ last'[r] > last[r]
                /\ \/ last'[r] = last[r] + 1
                   \/ OpensAStream(sent[last'[r]])
                   \/ torn[r]
  <2> SUFFICES ASSUME NEW r \in Readers, got'[r] > got[r]
               PROVE  /\ last'[r] > last[r]
                      /\ last'[r] = last[r] + 1 \/ OpensAStream(sent[last'[r]]) \/ torn[r]
    BY DEF HandsOver
  <2>1. TypeOK
    BY <1>1 DEF Inv
  <2>2. got[r] \in Nat /\ last[r] \in Nat /\ cursor[r] \in Nat
    BY <2>1 DEF TypeOK
  <2>3. TakeBacklog(r) \/ RecvUnit(r) \/ ResyncFound(r)
    <3>1. ASSUME NEW q \in Readers, Attach(q) \/ Detach(q)  PROVE FALSE
      <4>1. got' = [got EXCEPT ![q] = 0]
        BY <3>1 DEF Attach, Begin, Detach
      <4> QED
        BY <2>1, <2>2, <4>1 DEF TypeOK
    <3>2. ASSUME got' = got  PROVE FALSE
      BY <2>2, <3>2
    <3>3. ASSUME NEW q \in Readers, HandOver(q, last'[q])  PROVE q = r
      <4>1. got' = [got EXCEPT ![q] = @ + 1]
        BY <3>3 DEF HandOver
      <4> QED
        BY <2>1, <2>2, <4>1 DEF TypeOK
    <3>4. ASSUME NEW q \in Readers, TakeBacklog(q) \/ RecvUnit(q) \/ ResyncFound(q)
          PROVE  q = r
      <4>1. got' = [got EXCEPT ![q] = @ + 1]
        BY <3>4 DEF TakeBacklog, RecvUnit, ResyncFound, HandOver
      <4> QED
        BY <2>1, <2>2, <4>1 DEF TypeOK
    <3> QED
      BY <1>1, <3>1, <3>2, <3>4
      DEF Next, Push, Close, Read, Poll, Await, RecvLagged, ResyncPast, RecvClosed, Cancel,
          history
  <2>4. Stands(r)
    BY <1>1, <2>3 DEF Inv, ReaderInv, Attached, TakeBacklog, RecvUnit, ResyncFound
  <2>5. CASE TakeBacklog(r)
    BY <1>1, <2>2, <2>5, TakeBacklogStep
  <2>6. CASE RecvUnit(r)
    <3>1. last'[r] = cursor[r] /\ last[r] < cursor[r]
      BY <1>1, <2>4, <2>6, RecvUnitStep DEF Stands, ReaderOK
    <3>2. phase[r] = "recv" /\ backlog[r] = <<>> /\ Len(backlog[r]) = 0
      BY <2>4, <2>6 DEF RecvUnit, Stands, ReaderOK
    <3>3. torn[r] \/ cursor[r] = last[r] + 1
      BY <2>2, <2>4, <3>2 DEF Stands, ReaderOK
    <3> QED
      BY <2>2, <3>1, <3>3
  <2>7. CASE ResyncFound(r)
    <3>1. last'[r] = cursor[r] /\ last[r] < cursor[r]
      BY <1>1, <2>4, <2>7, ResyncFoundStep DEF Stands, ReaderOK
    <3>2. OpensAStream(sent[cursor[r]])
      BY <2>7 DEF ResyncFound
    <3> QED
      BY <2>2, <3>1, <3>2
  <2> QED
    BY <2>3, <2>5, <2>6, <2>7
<1>2. Inv /\ [Next]_vars =>
      [\A r \in Readers :
        HandsOver(r) =>
          /\ last'[r] > last[r]
          /\ \/ last'[r] = last[r] + 1
             \/ OpensAStream(sent[last'[r]])
             \/ torn[r]]_vars
  BY <1>1
<1> QED
  BY <1>2, FeedInvariant, PTL DEF Spec, SkipsOnlyToKeyframes

-----------------------------------------------------------------------------
(***************************************************************************)
(* Only a reader that fell behind loses anything                           *)
(***************************************************************************)

\* A step of one reader touches neither the stream nor another reader.
LEMMA OnlyOneReader ==
  ASSUME TypeOK, NEW r \in Readers, Attach(r) \/ Detach(r) \/ Cancel(r) \/ Read(r)
  PROVE  UNCHANGED source /\ \A q \in Readers \ {r} : Untouched(q)
<1>1. UNCHANGED source
  BY DEF Attach, Begin, Detach, Cancel, Read, Poll, TakeBacklog, Await, HandOver, RecvUnit,
         RecvLagged, ResyncFound, ResyncPast, RecvClosed
<1>2. \A q \in Readers \ {r} : Untouched(q)
  <2>1. CASE Attach(r) \/ Detach(r) \/ Cancel(r)
    BY <2>1 DEF TypeOK, Untouched, Attach, Begin, Detach, Cancel
  <2>2. CASE TakeBacklog(r) \/ Await(r) \/ RecvUnit(r) \/ ResyncFound(r)
    BY <2>2 DEF TypeOK, Untouched, TakeBacklog, Await, RecvUnit, ResyncFound, HandOver, history
  <2>3. CASE RecvLagged(r) \/ ResyncPast(r) \/ RecvClosed(r)
    BY <2>3 DEF TypeOK, Untouched, RecvLagged, ResyncPast, RecvClosed, history
  <2> QED
    BY <2>1, <2>2, <2>3 DEF Read, Poll
<1> QED
  BY <1>1, <1>2

\* The receiver stands right after what was handed over and what waits in the
\* backlog, or the reader lagged and has had nothing since, as in a resync().
FollowsOn(r) ==
  \/ phase[r] # "resync" /\ cursor[r] = last[r] + Len(backlog[r]) + 1
  \/ backlog[r] = <<>> /\ Len(sent) - last[r] > BACKLOG

OnlyTheSlowSkip == \A r \in Readers : Attached(r) => FollowsOn(r)

\* A lag leaves the receiver past what the reader had by more than BACKLOG.
LEMMA LaggedIsFarBehind ==
  ASSUME Inv, NEW r \in Readers, RecvLagged(r)
  PROVE  backlog[r] = <<>> /\ Len(sent) - last[r] > BACKLOG
<1>1. TypeOK /\ Len(sent) \in Nat
  BY DEF Inv, TypeOK
<1>2. cursor[r] < Oldest /\ phase[r] \in {"recv", "resync"} /\ Attached(r) /\ Stands(r)
  BY DEF RecvLagged, HasLagged, Receiving, Attached, Inv, ReaderInv
<1>3. backlog[r] = <<>> /\ last[r] < cursor[r] /\ last[r] \in Nat /\ cursor[r] \in Nat
  BY <1>1, <1>2 DEF Stands, ReaderOK, TypeOK
<1> QED
  BY <1>1, <1>2, <1>3, FeedAssumption DEF Oldest

LEMMA OnlyTheSlowSkipNext == Inv /\ OnlyTheSlowSkip /\ [Next]_vars => OnlyTheSlowSkip'
<1> SUFFICES ASSUME Inv, OnlyTheSlowSkip, [Next]_vars  PROVE OnlyTheSlowSkip'
  OBVIOUS
<1>1. TypeOK /\ Len(sent) \in Nat
  BY DEF Inv, TypeOK
<1>2. ASSUME NEW kind \in Kinds, NEW len \in Lens, Push(kind, len)  PROVE OnlyTheSlowSkip'
  <2>1. Len(sent') = Len(sent) + 1
    BY <1>1, <1>2, PushStream
  <2>2. UNCHANGED <<phase, backlog, cursor, last>>
    BY <1>2 DEF Push, history
  <2>3. \A r \in Readers : last[r] \in Nat
    BY <1>1 DEF TypeOK
  <2> QED
    BY <1>1, <2>1, <2>2, <2>3, FeedAssumption DEF OnlyTheSlowSkip, FollowsOn, Attached
<1>3. ASSUME Close \/ UNCHANGED vars  PROVE OnlyTheSlowSkip'
  <2>1. UNCHANGED <<phase, backlog, cursor, last, sent>>
    BY <1>3 DEF Close, vars, history
  <2> QED
    BY <2>1 DEF OnlyTheSlowSkip, FollowsOn, Attached
<1>4. ASSUME NEW r \in Readers, Attach(r) \/ Detach(r) \/ Cancel(r) \/ Read(r)
      PROVE  OnlyTheSlowSkip'
  <2>1. sent' = sent /\ \A q \in Readers \ {r} : Untouched(q)
    BY <1>1, <1>4, OnlyOneReader DEF source
  <2>2. ASSUME NEW q \in Readers \ {r}  PROVE Attached(q)' => FollowsOn(q)'
    BY <2>1 DEF OnlyTheSlowSkip, FollowsOn, Attached, Untouched
  <2>3. Attached(r)' => FollowsOn(r)'
    <3>1. CASE Attach(r)
      <4>1. /\ cursor'[r] = Len(sent) + 1 /\ backlog'[r] = cache.units
            /\ last'[r] = Len(sent) - Len(cache.units) /\ phase'[r] = "idle"
        BY <1>1, <3>1 DEF Attach, Begin, TypeOK
      <4>2. Len(cache.units) \in Nat
        BY <1>1 DEF TypeOK, Caches
      <4> QED
        BY <1>1, <4>1, <4>2 DEF FollowsOn
    <3>2. CASE Detach(r)
      BY <1>1, <3>2 DEF Detach, TypeOK, Attached
    <3>3. CASE TakeBacklog(r) \/ RecvUnit(r) \/ ResyncFound(r)
      <4>1. skipped'[r] = skipped[r] /\ Attached(r) /\ Stands(r)
        BY <3>3 DEF TakeBacklog, RecvUnit, ResyncFound, Attached, Inv, ReaderInv
      <4>2. phase'[r] = "idle" /\ torn'[r] = FALSE /\ Inv'
        BY <1>1, <3>3, NextInv DEF TakeBacklog, RecvUnit, ResyncFound, HandOver, TypeOK
      <4>3. Stands(r)'
        BY <4>2 DEF Inv, ReaderInv, Attached
      <4> QED
        BY <4>2, <4>3 DEF Stands, ReaderOK, FollowsOn
    <3>4. CASE RecvLagged(r)
      <4>1. backlog' = backlog /\ last' = last
        BY <3>4 DEF RecvLagged, history
      <4> QED
        BY <2>1, <3>4, <4>1, LaggedIsFarBehind DEF FollowsOn
    <3>5. CASE ResyncPast(r)
      <4>1. /\ backlog' = backlog /\ last' = last
            /\ phase[r] = "resync" /\ Attached(r) /\ FollowsOn(r)
        BY <3>5 DEF ResyncPast, OnlyTheSlowSkip, Attached
      <4> QED
        BY <2>1, <4>1 DEF FollowsOn
    <3>6. CASE Await(r) \/ RecvClosed(r) \/ Cancel(r)
      <4>1. /\ backlog' = backlog /\ last' = last /\ cursor' = cursor
            /\ Attached(r) /\ FollowsOn(r) /\ phase'[r] # "resync"
        BY <1>1, <3>6 DEF Await, RecvClosed, Cancel, Receiving, history, OnlyTheSlowSkip, Attached,
                          TypeOK
      <4> QED
        BY <2>1, <4>1 DEF FollowsOn
    <3> QED
      BY <1>4, <3>1, <3>2, <3>3, <3>4, <3>5, <3>6 DEF Read, Poll
  <2> QED
    BY <2>2, <2>3 DEF OnlyTheSlowSkip
<1> QED
  BY <1>2, <1>3, <1>4 DEF Next

\* A reader that is never more than BACKLOG units behind is given every unit,
\* in order and once, and is told of the end after the last of them.
THEOREM KeepingUpIsEnough == Spec => []KeepingUpLosesNothing
<1>1. Init => OnlyTheSlowSkip
  BY DEF Init, OnlyTheSlowSkip, Attached
<1>2. Spec => []OnlyTheSlowSkip
  BY <1>1, OnlyTheSlowSkipNext, FeedInvariant, PTL DEF Spec
<1>3. Inv /\ OnlyTheSlowSkip => KeepingUpLosesNothing
  <2> SUFFICES ASSUME Inv, OnlyTheSlowSkip, NEW r \in Readers, Attached(r),
                      Len(sent) - last[r] <= BACKLOG
               PROVE  /\ cursor[r] = last[r] + Len(backlog[r]) + 1
                      /\ \A i \in 1..Len(backlog[r]) : backlog[r][i] = last[r] + i
                      /\ phase[r] = "ended" => last[r] = Len(sent)
    BY DEF KeepingUpLosesNothing
  <2>1. /\ Len(sent) \in Nat /\ last[r] \in Nat /\ cursor[r] \in Nat
        /\ backlog[r] \in Seq(Nat) /\ Len(backlog[r]) \in Nat /\ Stands(r)
    BY DEF Inv, TypeOK, ReaderInv
  <2>2. cursor[r] = last[r] + Len(backlog[r]) + 1
    BY <2>1, FeedAssumption DEF OnlyTheSlowSkip, FollowsOn
  <2>3. \A i \in 1..Len(backlog[r]) : backlog[r][i] = cursor[r] - 1 - Len(backlog[r]) + i
    BY <2>1 DEF Stands, ReaderOK
  <2>4. ASSUME phase[r] = "ended"  PROVE last[r] = Len(sent)
    <3>1. backlog[r] = <<>> /\ cursor[r] = Len(sent) + 1
      BY <2>1, <2>4 DEF Stands, ReaderOK
    <3> QED
      BY <2>1, <2>2, <3>1
  <2> QED
    BY <2>1, <2>2, <2>3, <2>4
<1> QED
  BY <1>2, <1>3, FeedInvariant, PTL

-----------------------------------------------------------------------------
(***************************************************************************)
(* A feed implements PathPromise                                           *)
(***************************************************************************)

\* Readers that await next() never have a torn resync(), and one that is in
\* resync() is further behind than the channel reaches.
FarBehind ==
  \A r \in Readers :
    /\ r \in Patient => ~torn[r]
    /\ phase[r] = "resync" => Len(sent) - last[r] > BACKLOG

\* What a step may do to what FarBehind speaks of.
LEMMA FarBehindKept ==
  ASSUME TypeOK, FarBehind, NEW r \in Readers,
         Len(sent') \in Nat, Len(sent') >= Len(sent), \A q \in Readers \ {r} : Untouched(q),
         r \in Patient => ~torn'[r],
         phase'[r] = "resync" => Len(sent') - last'[r] > BACKLOG
  PROVE  FarBehind'
<1> SUFFICES ASSUME NEW q \in Readers
             PROVE  /\ q \in Patient => ~torn'[q]
                    /\ phase'[q] = "resync" => Len(sent') - last'[q] > BACKLOG
  BY DEF FarBehind, Patient
<1>1. CASE q = r
  BY <1>1
<1>2. CASE q # r
  <2>1. Untouched(q) /\ last[q] \in Nat /\ Len(sent) \in Nat
    BY <1>2 DEF TypeOK
  <2> QED
    BY <2>1, FeedAssumption DEF FarBehind, Untouched
<1> QED
  BY <1>1, <1>2

LEMMA FarBehindInit == Init => FarBehind
BY DEF Init, FarBehind

LEMMA FarBehindNext == Inv /\ FarBehind /\ [Next]_vars => FarBehind'
<1> SUFFICES ASSUME Inv, FarBehind, [Next]_vars  PROVE FarBehind'
  OBVIOUS
<1>1. TypeOK /\ Len(sent) \in Nat
  BY DEF Inv, TypeOK
<1>2. ASSUME NEW kind \in Kinds, NEW len \in Lens, Push(kind, len)  PROVE FarBehind'
  <2>1. Len(sent') = Len(sent) + 1
    BY <1>1, <1>2, PushStream
  <2>2. UNCHANGED <<phase, torn, last>>
    BY <1>2 DEF Push, history
  <2>3. \A r \in Readers : last[r] \in Nat
    BY <1>1 DEF TypeOK
  <2> QED
    BY <1>1, <2>1, <2>2, <2>3, FeedAssumption DEF FarBehind, Patient
<1>3. ASSUME Close \/ UNCHANGED vars  PROVE FarBehind'
  <2>1. UNCHANGED <<phase, torn, last, sent>>
    BY <1>3 DEF Close, vars, history
  <2> QED
    BY <2>1 DEF FarBehind, Patient
<1>4. ASSUME NEW r \in Readers, Attach(r) \/ Detach(r) \/ Cancel(r) \/ Read(r)
      PROVE  FarBehind'
  <2>1. sent' = sent
    BY <1>1, <1>4, OnlyOneReader DEF source
  <2>2. \A q \in Readers \ {r} : Untouched(q)
    BY <1>1, <1>4, OnlyOneReader
  <2>3. r \in Patient => ~torn'[r]
    <3>1. ASSUME r \in Patient  PROVE ~torn[r] /\ ~Cancel(r)
      BY <3>1 DEF FarBehind, Patient, Cancel
    <3>2. CASE Attach(r) \/ Detach(r) \/ TakeBacklog(r) \/ RecvUnit(r) \/ ResyncFound(r)
      BY <1>1, <3>2 DEF TypeOK, Attach, Begin, Detach, TakeBacklog, RecvUnit, ResyncFound, HandOver
    <3>3. CASE Await(r) \/ RecvLagged(r) \/ ResyncPast(r) \/ RecvClosed(r)
      <4>1. torn' = torn
        BY <3>3 DEF Await, RecvLagged, ResyncPast, RecvClosed, history
      <4> QED
        BY <3>1, <4>1
    <3> QED
      BY <1>4, <3>1, <3>2, <3>3 DEF Read, Poll
  <2>4. phase'[r] = "resync" => Len(sent) - last'[r] > BACKLOG
    <3>1. CASE RecvLagged(r)
      <4>1. /\ cursor[r] < Oldest /\ last' = last /\ Attached(r) /\ Stands(r)
        BY <3>1 DEF RecvLagged, HasLagged, history, Receiving, Attached, Inv, ReaderInv
      <4>2. last[r] < cursor[r] /\ last[r] \in Nat /\ cursor[r] \in Nat
        BY <1>1, <4>1 DEF Stands, ReaderOK, TypeOK
      <4> QED
        BY <1>1, <4>1, <4>2, FeedAssumption DEF Oldest
    <3>2. CASE ResyncPast(r)
      <4>1. phase[r] = "resync" /\ last' = last
        BY <3>2 DEF ResyncPast
      <4> QED
        BY <4>1 DEF FarBehind
    <3>3. CASE Attach(r) \/ Detach(r) \/ Cancel(r) \/ TakeBacklog(r) \/ Await(r) \/ RecvUnit(r)
                 \/ ResyncFound(r) \/ RecvClosed(r)
      <4>1. phase'[r] # "resync"
        BY <1>1, <3>3 DEF TypeOK, Attach, Begin, Detach, Cancel, TakeBacklog, Await, RecvUnit,
                          ResyncFound, RecvClosed, HandOver
      <4> QED
        BY <4>1
    <3> QED
      BY <1>4, <3>1, <3>2, <3>3 DEF Read, Poll
  <2> QED
    BY <1>1, <2>1, <2>2, <2>3, <2>4, FarBehindKept
<1> QED
  BY <1>2, <1>3, <1>4 DEF Next

-----------------------------------------------------------------------------

\* How the promise sees the units that were sent.
LEMMA KindsSeen ==
  ASSUME TypeOK
  PROVE  LET ks == [n \in 1..Len(sent) |-> sent[n].kind]
         IN /\ Len(ks) = Len(sent) /\ ks \in Seq(Kinds)
            /\ \A n \in 1..Len(sent) : Promise!IsKey(n) <=> OpensAStream(sent[n])
<1> DEFINE ks == [n \in 1..Len(sent) |-> sent[n].kind]
<1>1. Len(sent) \in Nat /\ \A n \in 1..Len(sent) : sent[n].kind \in Kinds
  <2>1. \A n \in 1..Len(sent) : sent[n] \in Units
    BY DEF TypeOK
  <2> QED
    BY <2>1 DEF TypeOK, Units
<1>2. ks \in Seq(Kinds) /\ Len(ks) = Len(sent)
  BY <1>1
<1>3. \A n \in 1..Len(sent) : Promise!IsKey(n) <=> OpensAStream(sent[n])
  BY DEF Promise!IsKey, OpensAStream
<1> QED
  BY <1>2, <1>3

LEMMA PromiseInit == Init => Promise!Init
<1> SUFFICES ASSUME Init  PROVE Promise!Init
  OBVIOUS
<1>1. sent = <<>> /\ open /\ \A r \in Patient : last[r] = 0 /\ phase[r] = "off"
  BY DEF Init, Patient
<1>2. [n \in 1..Len(sent) |-> sent[n].kind] = <<>>
  BY <1>1
<1> QED
  BY <1>1, <1>2 DEF Promise!Init, Init, Seen

LEMMA SendsAUnit ==
  ASSUME Inv, NEW kind \in Kinds, NEW len \in Lens, Push(kind, len)
  PROVE  Promise!Next
<1>1. /\ open /\ TypeOK /\ UNCHANGED <<open, last, phase>>
  BY DEF Push, Inv, history
<1>2. /\ sent' \in Seq(Units) /\ Len(sent') = Len(sent) + 1
      /\ \A n \in 1..Len(sent) : sent'[n] = sent[n]
      /\ sent'[Len(sent) + 1].kind = kind
  BY <1>1, PushStream
<1> DEFINE ks == [n \in 1..Len(sent) |-> sent[n].kind]
           more == [n \in 1..Len(sent') |-> sent'[n].kind]
<1>3. Len(ks) = Len(sent) /\ ks \in Seq(Kinds)
  BY <1>1, KindsSeen
<1>4. more = Append(ks, kind)
  <2>1. Len(sent) \in Nat
    BY <1>1 DEF TypeOK
  <2>2. more \in [1..(Len(sent) + 1) -> Kinds]
    <3>1. \A n \in 1..Len(sent) : more[n] = ks[n]
      BY <1>2, <2>1
    <3>2. more[Len(sent) + 1] = kind
      BY <1>2, <2>1
    <3> QED
      BY <1>2, <1>3, <2>1, <3>1, <3>2
  <2>3. Append(ks, kind) \in [1..(Len(sent) + 1) -> Kinds]
    <3>1. Append(ks, kind) \in Seq(Kinds) /\ Len(Append(ks, kind)) = Len(sent) + 1
      <4> HIDE DEF ks
      <4> QED
        BY <1>3, <2>1
    <3> HIDE DEF ks
    <3> QED
      BY <3>1, LenProperties
  <2>4. ASSUME NEW n \in 1..(Len(sent) + 1)  PROVE more[n] = Append(ks, kind)[n]
    <3>1. CASE n = Len(sent) + 1
      <4>1. more[n] = kind
        BY <1>2, <2>1, <3>1
      <4> HIDE DEF ks, more
      <4> QED
        BY <1>3, <3>1, <4>1
    <3>2. CASE n # Len(sent) + 1
      <4>1. n \in 1..Len(sent) /\ more[n] = ks[n]
        BY <1>2, <2>1, <3>2
      <4> HIDE DEF ks, more
      <4> QED
        BY <1>3, <4>1
    <3> QED
      BY <3>1, <3>2
  <2> HIDE DEF ks, more
  <2> QED
    BY <2>2, <2>3, <2>4
<1>5. Promise!Send(kind)
  BY <1>1, <1>4 DEF Promise!Send
<1> QED
  BY <1>5 DEF Promise!Next, Kinds

\* A reader joins where the cache begins, and that is where it may.
LEMMA JoinsWhereItMay ==
  ASSUME TypeOK, Holds(cache, sent)
  PROVE  LET n == Len(sent) - Len(cache.units) + 1
         IN n \in 1..(Len(sent) + 1) /\ Promise!MayBeginAt(n)
<1> DEFINE L == Len(sent)
           ks == [n \in 1..L |-> sent[n].kind]
<1>1. L \in Nat /\ Len(ks) = L /\ \A n \in 1..L : Promise!IsKey(n) <=> OpensAStream(sent[n])
  BY KindsSeen DEF TypeOK
<1>2. PICK run \in Seq(Nat), bytes \in Nat, ovf \in BOOLEAN, pic \in BOOLEAN :
        /\ cache = [units |-> run, bytes |-> bytes, overflowed |-> ovf, pictures |-> pic]
        /\ GoodCache(run, bytes, ovf, pic, sent)
  BY DEF Holds, Caches
<1> DEFINE n == L - Len(run) + 1
<1>3. Len(run) \in Nat /\ Len(run) <= L /\ cache.units = run /\ n \in 1..(L + 1)
  BY <1>1, <1>2 DEF GoodCache, IsRun
<1>4. n = L + 1 \/ \A m \in 1..L : Promise!IsKey(m) => m <= n
  <2>1. CASE ~pic
    BY <1>1, <1>2, <2>1 DEF GoodCache, FlagsAreRight, HasKey
  <2>2. CASE ovf
    BY <1>1, <1>2, <2>2 DEF GoodCache, FlagsAreRight
  <2>3. CASE pic /\ ~ovf
    <3>1. PICK k \in 1..L : /\ \A m \in (k + 1)..L : ~OpensAStream(sent[m])
                            /\ Len(run) = L - k + 1
      BY <1>2, <2>3 DEF GoodCache, GroupIsWhole
    <3>2. n = k
      BY <1>1, <3>1
    <3> HIDE DEF n
    <3> QED
      BY <1>1, <3>1, <3>2
  <2> QED
    BY <2>1, <2>2, <2>3
<1>5. n <= L /\ (\E m \in 1..L : Promise!IsKey(m)) => Promise!IsKey(n)
  <2>1. SUFFICES ASSUME n <= L, HasKey(sent)  PROVE OpensAStream(sent[n])
    BY <1>1, <1>3 DEF HasKey
  <2>2. pic /\ ~ovf
    BY <1>1, <1>2, <2>1 DEF GoodCache, FlagsAreRight
  <2>3. PICK k \in 1..L : OpensAStream(sent[k]) /\ Len(run) = L - k + 1
    BY <1>2, <2>2 DEF GoodCache, GroupIsWhole
  <2> QED
    BY <1>1, <2>3
<1> HIDE DEF n, ks, L
<1>6. Promise!MayBeginAt(n)
  BY <1>1, <1>3, <1>4, <1>5 DEF Promise!MayBeginAt, L, ks
<1> QED
  BY <1>3, <1>6 DEF n, L
-----------------------------------------------------------------------------

\* A step of a reader that the promise does not see.
LEMMA Unseen ==
  ASSUME TypeOK, NEW r \in Readers, UNCHANGED source,
         \A q \in Readers \ {r} : Untouched(q),
         r \in Patient => last'[r] = last[r] /\ Seen(phase'[r]) = Seen(phase[r])
  PROVE  UNCHANGED Promise!vars
<1>1. \A q \in Patient : last'[q] = last[q] /\ Seen(phase'[q]) = Seen(phase[q])
  BY DEF Patient, Untouched
<1>2. /\ [q \in Patient |-> last'[q]] = [q \in Patient |-> last[q]]
      /\ [q \in Patient |-> Seen(phase'[q])] = [q \in Patient |-> Seen(phase[q])]
  BY <1>1
<1>3. sent' = sent /\ open' = open
  BY DEF source
<1> QED
  BY <1>2, <1>3 DEF Promise!vars

\* A step of a reader that the promise sees.
LEMMA SeenStep ==
  ASSUME TypeOK, NEW r \in Patient, UNCHANGED source,
         \A q \in Readers \ {r} : Untouched(q)
  PROVE  LET at == [q \in Patient |-> last[q]]
             state == [q \in Patient |-> Seen(phase[q])]
         IN /\ [q \in Patient |-> last'[q]] = [at EXCEPT ![r] = last'[r]]
            /\ [q \in Patient |-> Seen(phase'[q])] = [state EXCEPT ![r] = Seen(phase'[r])]
            /\ sent' = sent /\ open' = open
<1>1. \A q \in Patient \ {r} : last'[q] = last[q] /\ phase'[q] = phase[q]
  BY DEF Patient, Untouched
<1> QED
  BY <1>1 DEF source

\* A reader that moved on by one unit was given it.
LEMMA GivesAUnit ==
  ASSUME TypeOK, NEW r \in Patient, UNCHANGED source,
         \A q \in Readers \ {r} : Untouched(q),
         Seen(phase[r]) = "reading", Seen(phase'[r]) = "reading",
         last'[r] = last[r] + 1, last[r] < Len(sent)
  PROVE  Promise!Next
<1> DEFINE at == [q \in Patient |-> last[q]]
           state == [q \in Patient |-> Seen(phase[q])]
<1>1. /\ [q \in Patient |-> last'[q]] = [at EXCEPT ![r] = last'[r]]
      /\ [q \in Patient |-> Seen(phase'[q])] = [state EXCEPT ![r] = Seen(phase'[r])]
      /\ sent' = sent /\ open' = open
  BY SeenStep
<1>2. at[r] = last[r] /\ state[r] = "reading" /\ [state EXCEPT ![r] = "reading"] = state
  OBVIOUS
<1>3. last[r] \in Nat /\ Len(sent) \in Nat
  BY DEF TypeOK, Patient
<1>4. Promise!Behind(r) > 0
  BY <1>3, KindsSeen DEF Promise!Behind
<1>5. Promise!Give(r)
  BY <1>1, <1>2, <1>4 DEF Promise!Give
<1> QED
  BY <1>5 DEF Promise!Next

\* What each step of a reader that awaits next() is to the promise.
LEMMA PatientStep ==
  ASSUME Inv, FarBehind, NEW r \in Patient, UNCHANGED source,
         \A q \in Readers \ {r} : Untouched(q), Attach(r) \/ Detach(r) \/ Read(r)
  PROVE  Promise!Next \/ UNCHANGED Promise!vars
<1> DEFINE at == [q \in Patient |-> last[q]]
           state == [q \in Patient |-> Seen(phase[q])]
<1>1. TypeOK /\ r \in Readers /\ last[r] \in Nat /\ cursor[r] \in Nat \ {0} /\ Len(sent) \in Nat
  BY DEF Inv, TypeOK, Patient
<1>2. /\ [q \in Patient |-> last'[q]] = [at EXCEPT ![r] = last'[r]]
      /\ [q \in Patient |-> Seen(phase'[q])] = [state EXCEPT ![r] = Seen(phase'[r])]
      /\ sent' = sent /\ open' = open
  BY <1>1, SeenStep
<1>3. at[r] = last[r] /\ state[r] = Seen(phase[r])
  OBVIOUS
<1>4. Attached(r) => Stands(r)
  BY <1>1 DEF Inv, ReaderInv
<1>5. Promise!Behind(r) = Len(sent) - last[r]
  BY <1>1, KindsSeen DEF Promise!Behind
<1> HIDE DEF at, state
<1>6. CASE Attach(r)
  <2> DEFINE n == Len(sent) - Len(cache.units) + 1
  <2>1. /\ open /\ phase[r] = "off" /\ phase'[r] = "idle" /\ last'[r] = n - 1
    BY <1>1, <1>6, AttachOK DEF Inv, TypeOK, Attach, Begin
  <2>2. n \in 1..(Len(sent) + 1) /\ Promise!MayBeginAt(n)
    BY <1>1, JoinsWhereItMay DEF Inv
  <2>3. [q \in Patient |-> last'[q]] = [at EXCEPT ![r] = n - 1]
    BY <1>2, <2>1
  <2>4. Promise!Join(r)
    <3> HIDE DEF n
    <3> QED
      BY <1>1, <1>2, <1>3, <2>1, <2>2, <2>3, KindsSeen DEF Promise!Join, Seen, at, state
  <2> QED
    BY <2>4 DEF Promise!Next
<1>7. CASE Detach(r)
  <2>1. phase[r] # "off" /\ phase'[r] = "off" /\ last'[r] = 0
    BY <1>1, <1>7 DEF TypeOK, Detach
  <2>2. Promise!Leave(r)
    BY <1>2, <1>3, <2>1 DEF Promise!Leave, Seen, at, state
  <2> QED
    BY <2>2 DEF Promise!Next
<1>8. CASE TakeBacklog(r)
  <2>1. last'[r] = last[r] + 1 /\ phase[r] = "idle" /\ phase'[r] = "idle" /\ backlog[r] # <<>>
    BY <1>1, <1>8, TakeBacklogStep DEF TypeOK, TakeBacklog, HandOver
  <2>2. PICK b \in Seq(Nat) : b = backlog[r]
    BY <1>1, ReaderTypes
  <2>3. skipped[r] = 0 /\ cursor[r] = last[r] + Len(b) + 1 /\ cursor[r] <= Len(sent) + 1
    BY <1>4, <2>1, <2>2 DEF Stands, ReaderOK, Attached
  <2>4. last[r] < Len(sent)
    BY <1>1, <2>1, <2>2, <2>3
  <2> QED
    BY <1>1, <2>1, <2>4, GivesAUnit DEF Seen
<1>9. CASE RecvUnit(r)
  <2>1. last'[r] = cursor[r] /\ phase[r] = "recv" /\ phase'[r] = "idle" /\ cursor[r] <= Len(sent)
    BY <1>1, <1>9 DEF TypeOK, RecvUnit, HandOver, HasUnit
  <2>2. ~torn[r] /\ backlog[r] = <<>>
    BY <1>1, <1>4, <2>1 DEF FarBehind, Stands, ReaderOK, Attached
  <2>3. cursor[r] = last[r] + 1
    BY <1>1, <1>4, <2>1, <2>2 DEF Stands, ReaderOK, Attached
  <2> QED
    BY <1>1, <2>1, <2>3, GivesAUnit DEF Seen
<1>10. CASE ResyncFound(r)
  <2>1. /\ phase[r] = "resync" /\ phase'[r] = "idle" /\ cursor[r] \in 1..Len(sent)
        /\ OpensAStream(sent[cursor[r]]) /\ last'[r] = cursor[r]
    <3>1. last'[r] = cursor[r]
      BY <1>1, <1>10, ResyncFoundStep
    <3>2. phase' = [phase EXCEPT ![r] = "idle"]
      BY <1>10 DEF ResyncFound, HandOver
    <3>3. phase[r] = "resync" /\ cursor[r] <= Len(sent) /\ OpensAStream(sent[cursor[r]])
      BY <1>10 DEF ResyncFound, HasUnit
    <3> QED
      BY <1>1, <3>1, <3>2, <3>3 DEF TypeOK
  <2>2. last[r] < cursor[r]
    BY <1>4, <2>1 DEF Stands, ReaderOK, Attached
  <2>3. Len(sent) - last[r] > BACKLOG
    BY <1>1, <2>1 DEF FarBehind
  <2>4. [q \in Patient |-> last'[q]] = [at EXCEPT ![r] = cursor[r]]
    BY <1>2, <2>1
  <2>5. Promise!IsKey(cursor[r]) /\ cursor[r] \in (last[r] + 1)..Len(sent)
    BY <1>1, <2>1, <2>2, KindsSeen
  <2>6. [q \in Patient |-> Seen(phase'[q])] = state
    BY <1>2, <1>3, <2>1 DEF Seen, state
  <2>7. state[r] = "reading"
    BY <1>3, <2>1 DEF Seen
  <2>8. Promise!Skip(r)
    BY <1>1, <1>2, <1>3, <1>5, <2>3, <2>4, <2>5, <2>6, <2>7, KindsSeen
    DEF Promise!Skip, at, state
  <2> QED
    BY <2>8 DEF Promise!Next
<1>11. CASE RecvClosed(r)
  <2>1. /\ phase[r] \in {"recv", "resync"} /\ phase'[r] = "ended" /\ last'[r] = last[r]
        /\ ~open /\ cursor[r] = Len(sent) + 1
    BY <1>1, <1>11 DEF TypeOK, RecvClosed, Receiving, HasClosed, history
  <2>2. Promise!Behind(r) = 0 \/ Promise!Behind(r) > BACKLOG
    <3>1. CASE phase[r] = "recv"
      <4>1. ~torn[r] /\ backlog[r] = <<>>
        BY <1>1, <1>4, <3>1 DEF FarBehind, Stands, ReaderOK, Attached
      <4>2. cursor[r] = last[r] + 1
        BY <1>1, <1>4, <3>1, <4>1 DEF Stands, ReaderOK, Attached
      <4> QED
        BY <1>1, <1>5, <2>1, <4>2
    <3>2. CASE phase[r] = "resync"
      BY <1>1, <1>5, <3>2 DEF FarBehind
    <3> QED
      BY <2>1, <3>1, <3>2
  <2>3. [q \in Patient |-> last'[q]] = at
    BY <1>2, <1>3, <2>1 DEF at
  <2>4. Promise!Tell(r)
    BY <1>2, <1>3, <2>1, <2>2, <2>3 DEF Promise!Tell, Seen, at, state
  <2> QED
    BY <2>4 DEF Promise!Next
<1>12. CASE Await(r) \/ RecvLagged(r) \/ ResyncPast(r)
  <2>1. last'[r] = last[r] /\ Seen(phase[r]) = "reading" /\ Seen(phase'[r]) = "reading"
    BY <1>1, <1>12 DEF TypeOK, Await, RecvLagged, ResyncPast, Receiving, history, Seen
  <2> QED
    BY <1>1, <2>1, Unseen
<1> QED
  BY <1>6, <1>7, <1>8, <1>9, <1>10, <1>11, <1>12 DEF Read, Poll

LEMMA PromiseNext == Inv /\ FarBehind /\ [Next]_vars => [Promise!Next]_(Promise!vars)
<1> SUFFICES ASSUME Inv, FarBehind, [Next]_vars
             PROVE  Promise!Next \/ UNCHANGED Promise!vars
  OBVIOUS
<1>1. TypeOK
  BY DEF Inv
<1>2. ASSUME NEW kind \in Kinds, NEW len \in Lens, Push(kind, len)  PROVE Promise!Next
  BY <1>2, SendsAUnit
<1>3. CASE Close
  <2>1. Promise!End
    BY <1>3 DEF Close, Promise!End, history
  <2> QED
    BY <2>1 DEF Promise!Next
<1>4. ASSUME NEW r \in Readers, Attach(r) \/ Detach(r) \/ Cancel(r) \/ Read(r)
      PROVE  Promise!Next \/ UNCHANGED Promise!vars
  <2>1. UNCHANGED source /\ \A q \in Readers \ {r} : Untouched(q)
    BY <1>1, <1>4, OnlyOneReader
  <2>2. CASE r \in Patient
    <3>1. ~Cancel(r)
      BY <2>2 DEF Patient, Cancel
    <3> QED
      BY <1>4, <2>1, <2>2, <3>1, PatientStep
  <2>3. CASE r \notin Patient
    BY <1>1, <2>1, <2>3, Unseen
  <2> QED
    BY <2>2, <2>3
<1>5. CASE UNCHANGED vars
  BY <1>5 DEF vars, Promise!vars
<1> QED
  BY <1>2, <1>3, <1>4, <1>5 DEF Next

\* The cache, the bounded channel and resync() (path.rs) implement the promise its
\* documentation makes to a reader that lets every next() finish: each step of a
\* feed is one of PathPromise's, or one that the promise does not see.
THEOREM ImplementsPromise == Spec => KeepsPromise
<1>1. Init => FarBehind
  BY FarBehindInit
<1>2. Inv /\ FarBehind /\ [Next]_vars => FarBehind'
  BY FarBehindNext
<1>3. Init => Promise!Init
  BY PromiseInit
<1>4. Inv /\ FarBehind /\ [Next]_vars => [Promise!Next]_(Promise!vars)
  BY PromiseNext
<1> QED
  BY <1>1, <1>2, <1>3, <1>4, FeedInvariant, PTL DEF Spec, KeepsPromise, Promise!Spec
=============================================================================
