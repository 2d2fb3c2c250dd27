------------------------- MODULE RtspMessagesProofs -------------------------
(***************************************************************************)
(* RtspMessages, proved for any requests, frames and noise, any lengths    *)
(* and any way the wire is cut into pieces: what is said is taken as it    *)
(* was said, what is answered is heard as it was given, and the answer to  *)
(* a SETUP is of the track and the channels that the client asked for.     *)
(*                                                                         *)
(* The invariants say what the marks on the wire are.  To the server,      *)
(* Taking: buf and sent together are the marks of what was said and has    *)
(* not been taken.  Back to the client, Answering: back and out together   *)
(* are the marks of what was given and has not been heard.  That a reader  *)
(* finds the next thing in front of such marks, and waits as long as it is *)
(* not whole, is Lemma WireIsRead; it rests on what FlattenSeq makes of a  *)
(* sequence of sequences, which is proved first.                           *)
(***************************************************************************)
EXTENDS RtspMessages, TLAPS, FiniteSetTheorems, SequenceTheorems

(***************************************************************************)
(* Numbers, and sequences of sequences                                     *)
(***************************************************************************)

\* Every set of naturals that is not empty has a least element.
LEMMA LeastNatural ==
  ASSUME NEW G \in SUBSET Nat, G # {}
  PROVE  \E m \in G : \A k \in G : m <= k
<1> DEFINE T == {1..k : k \in G}
<1>1. T \subseteq FiniteSubsetsOf(Nat)
  <2> SUFFICES ASSUME NEW k \in G  PROVE 1..k \in SUBSET Nat /\ IsFiniteSet(1..k)
    BY DEF FiniteSubsetsOf
  <2> QED
    BY FS_Interval
<1>2. T # {}
  OBVIOUS
<1>3. PICK X \in T : \A Y \in T : <<Y, X>> \notin StrictSubsetOrdering(Nat)
  BY <1>1, <1>2, FS_StrictSubsetOrderingWellFounded, WFMin
<1>4. PICK m \in G : X = 1..m
  BY <1>3
<1>5. ASSUME NEW k \in G, k < m  PROVE FALSE
  <2>1. 1..k \in T
    BY <1>5
  <2>2. 1..k \subseteq 1..m /\ 1..k # 1..m
    BY <1>5
  <2>3. <<1..k, X>> \in StrictSubsetOrdering(Nat)
    BY <1>4, <2>2 DEF StrictSubsetOrdering
  <2> QED
    BY <1>3, <2>1, <2>3
<1>6. ASSUME NEW k \in G  PROVE m <= k
  <2>1. k \in Nat /\ m \in Nat /\ ~(k < m)
    BY <1>5
  <2> QED
    BY <2>1
<1> QED
  BY <1>6

\* Induction, with the numbers that something is true of as a set.
LEMMA Inductive ==
  ASSUME NEW n \in Nat, NEW T, 1 \in T,
         \A k \in 1..(n - 1) : k \in T => k + 1 \in T
  PROVE  1..n \subseteq T
<1> SUFFICES ASSUME NEW j \in 1..n, j \notin T  PROVE FALSE
  OBVIOUS
<1> DEFINE G == {k \in 1..n : k \notin T}
<1>1. G \in SUBSET Nat /\ G # {}
  <2>1. G \subseteq 1..n /\ 1..n \subseteq Nat /\ j \in G
    OBVIOUS
  <2> HIDE DEF G
  <2> QED
    BY <2>1
<1>2. PICK m \in G : \A k \in G : m <= k
  <2> HIDE DEF G
  <2> QED
    BY <1>1, LeastNatural
<1>3. m \in 2..n /\ m \notin T
  BY <1>2
<1>4. m - 1 \in 1..(n - 1) /\ m - 1 \notin G
  <2>1. m - 1 \in 1..(n - 1) /\ m \in Nat
    BY <1>3
  <2>2. ~(m <= m - 1)
    BY <1>3
  <2> HIDE DEF G
  <2> QED
    BY <1>2, <2>1, <2>2
<1>5. m - 1 \in T
  BY <1>4
<1> QED
  BY <1>3, <1>4, <1>5

\* A sequence of sequences as one: a function of its own counts up to it.
Flattens(f, seqs) ==
  f = [i \in 1..Len(seqs) |-> IF i = 1 THEN seqs[i] ELSE f[i - 1] \o seqs[i]]

\* There is such a function, of any length.
LEMMA FlattensExists ==
  ASSUME NEW S, NEW seqs \in Seq(S)
  PROVE  \E f : Flattens(f, seqs)
<1> DEFINE n == Len(seqs)
           UpTo(f, k) == f = [i \in 1..k |-> IF i = 1 THEN seqs[i] ELSE f[i - 1] \o seqs[i]]
           T == {k \in 1..n : \E f : UpTo(f, k)}
<1>1. n \in Nat
  OBVIOUS
<1>2. CASE n = 0
  <2> DEFINE f == [i \in 1..0 |-> 0]
  <2>1. f = [i \in 1..n |-> IF i = 1 THEN seqs[i] ELSE f[i - 1] \o seqs[i]]
    BY <1>2
  <2> HIDE DEF f
  <2> QED
    BY <2>1 DEF Flattens
<1>3. CASE n # 0
  <2>1. 1 \in T
    <3> DEFINE f == [i \in 1..1 |-> seqs[1]]
    <3>1. UpTo(f, 1)
      OBVIOUS
    <3> HIDE DEF f, UpTo
    <3> QED
      BY <1>1, <1>3, <3>1
  <2>2. ASSUME NEW k \in 1..(n - 1), k \in T  PROVE k + 1 \in T
    <3>1. PICK f : UpTo(f, k)
      BY <2>2
    <3> DEFINE g == [i \in 1..(k + 1) |-> IF i = 1 THEN seqs[i] ELSE f[i - 1] \o seqs[i]]
    <3>2. ASSUME NEW i \in 1..k  PROVE g[i] = f[i]
      <4>1. i \in 1..(k + 1)
        OBVIOUS
      <4>2. f[i] = IF i = 1 THEN seqs[i] ELSE f[i - 1] \o seqs[i]
        BY <3>1, Zenon
      <4>3. g[i] = IF i = 1 THEN seqs[i] ELSE f[i - 1] \o seqs[i]
        BY <4>1, Zenon
      <4> QED
        BY <4>2, <4>3, Zenon
    <3>3. ASSUME NEW i \in 1..(k + 1)
          PROVE  (IF i = 1 THEN seqs[i] ELSE f[i - 1] \o seqs[i])
                   = (IF i = 1 THEN seqs[i] ELSE g[i - 1] \o seqs[i])
      <4>1. CASE i = 1
        BY <4>1, Zenon
      <4>2. CASE i # 1
        <5>1. i - 1 \in 1..k
          BY <4>2
        <5>2. g[i - 1] = f[i - 1]
          BY <3>2, <5>1, Zenon
        <5> QED
          BY <4>2, <5>2, Zenon
      <4> QED
        BY <4>1, <4>2
    <3>4. UpTo(g, k + 1)
      BY <3>3, Zenon
    <3>5. k + 1 \in 1..n
      BY <1>1
    <3> HIDE DEF g, UpTo
    <3> QED
      BY <3>4, <3>5
  <2>3. n \in T
    <3> HIDE DEF T, n
    <3>1. 1..n \subseteq T
      BY <1>1, <2>1, <2>2, Inductive
    <3> QED
      BY <1>1, <1>3, <3>1
  <2>4. PICK f : UpTo(f, n)
    BY <2>3
  <2> QED
    BY <2>4, Zenon DEF Flattens
<1> QED
  BY <1>2, <1>3

\* FlattenSeq is what its definition says, since such a function exists.
LEMMA FlattenIs ==
  ASSUME NEW S, NEW seqs \in Seq(S), seqs # <<>>
  PROVE  \E f : Flattens(f, seqs) /\ FlattenSeq(seqs) = f[Len(seqs)]
<1>1. Len(seqs) # 0
  OBVIOUS
<1> DEFINE g == CHOOSE f :
             f = [i \in 1..Len(seqs) |-> IF i = 1 THEN seqs[i] ELSE f[i - 1] \o seqs[i]]
<1>2. FlattenSeq(seqs) = g[Len(seqs)]
  BY <1>1, Zenon DEF FlattenSeq
<1>3. Flattens(g, seqs)
  BY FlattensExists, Zenon DEF Flattens
<1> QED
  BY <1>2, <1>3

\* There is one such function only: any of them gives the same.
LEMMA FlattensOnce ==
  ASSUME NEW S, NEW seqs \in Seq(S), NEW f, NEW g, Flattens(f, seqs), Flattens(g, seqs)
  PROVE  \A i \in 1..Len(seqs) : f[i] = g[i]
<1> DEFINE n == Len(seqs)
           T == {i \in 1..n : f[i] = g[i]}
<1>1. n \in Nat
  OBVIOUS
<1>2. ASSUME NEW i \in 1..n
      PROVE  /\ f[i] = IF i = 1 THEN seqs[i] ELSE f[i - 1] \o seqs[i]
             /\ g[i] = IF i = 1 THEN seqs[i] ELSE g[i - 1] \o seqs[i]
  BY Zenon DEF Flattens
<1>3. CASE n = 0
  BY <1>3
<1>4. CASE n # 0
  <2>1. 1 \in T
    <3>1. 1 \in 1..n
      BY <1>1, <1>4
    <3>2. f[1] = seqs[1] /\ g[1] = seqs[1]
      BY <1>2, <3>1, Zenon
    <3> QED
      BY <3>1, <3>2
  <2>2. ASSUME NEW i \in 1..(n - 1), i \in T  PROVE i + 1 \in T
    <3>1. i + 1 \in 1..n /\ i + 1 # 1 /\ (i + 1) - 1 = i
      BY <1>1
    <3>2. f[i] = g[i]
      BY <2>2
    <3>3. f[i + 1] = f[i] \o seqs[i + 1] /\ g[i + 1] = g[i] \o seqs[i + 1]
      <4> DEFINE j == i + 1
      <4>1. j \in 1..n /\ j # 1 /\ j - 1 = i
        BY <3>1
      <4> HIDE DEF j
      <4>2. f[j] = f[i] \o seqs[j] /\ g[j] = g[i] \o seqs[j]
        BY <1>2, <4>1, Zenon
      <4> QED
        BY <4>2 DEF j
    <3> QED
      BY <3>1, <3>2, <3>3
  <2> HIDE DEF T, n
  <2>3. 1..n \subseteq T
    BY <1>1, <2>1, <2>2, Inductive
  <2> QED
    BY <2>3 DEF T, n
<1> QED
  BY <1>3, <1>4

\* So FlattenSeq is what any of them comes to.
LEMMA FlattenFrom ==
  ASSUME NEW S, NEW seqs \in Seq(S), seqs # <<>>, NEW f, Flattens(f, seqs)
  PROVE  FlattenSeq(seqs) = f[Len(seqs)]
<1>1. PICK g : Flattens(g, seqs) /\ FlattenSeq(seqs) = g[Len(seqs)]
  BY FlattenIs
<1>2. \A i \in 1..Len(seqs) : f[i] = g[i]
  BY <1>1, FlattensOnce
<1>3. Len(seqs) \in 1..Len(seqs)
  OBVIOUS
<1> QED
  BY <1>1, <1>2, <1>3, Zenon

\* No sequences come to nothing.
LEMMA FlattenNothing == FlattenSeq(<<>>) = <<>>
  BY DEF FlattenSeq

\* What it comes to is a sequence of what the sequences are of.
LEMMA FlattenTyped ==
  ASSUME NEW X, NEW seqs \in Seq(Seq(X))
  PROVE  FlattenSeq(seqs) \in Seq(X)
<1> DEFINE n == Len(seqs)
<1>1. n \in Nat
  OBVIOUS
<1>2. CASE seqs = <<>>
  <2>1. FlattenSeq(seqs) = <<>>
    BY <1>2, FlattenNothing
  <2>2. <<>> \in Seq(X)
    OBVIOUS
  <2> QED
    BY <2>1, <2>2, Zenon
<1>3. CASE seqs # <<>>
  <2>1. PICK f : Flattens(f, seqs) /\ FlattenSeq(seqs) = f[n]
    BY <1>3, FlattenIs
  <2> DEFINE T == {i \in 1..n : f[i] \in Seq(X)}
  <2>2. ASSUME NEW i \in 1..n
        PROVE  f[i] = IF i = 1 THEN seqs[i] ELSE f[i - 1] \o seqs[i]
    BY <2>1, Zenon DEF Flattens
  <2>3. 1 \in T /\ n \in 1..n
    <3>1. 1 \in 1..n /\ n \in 1..n
      BY <1>1, <1>3
    <3>2. f[1] = seqs[1]
      BY <2>2, <3>1, Zenon
    <3> QED
      BY <3>1, <3>2
  <2>4. ASSUME NEW i \in 1..(n - 1), i \in T  PROVE i + 1 \in T
    <3> DEFINE j == i + 1
    <3>1. j \in 1..n /\ j # 1 /\ j - 1 = i
      BY <1>1
    <3>2. f[i] \in Seq(X)
      BY <2>4
    <3> HIDE DEF j
    <3>3. f[j] = f[i] \o seqs[j]
      BY <2>2, <3>1, Zenon
    <3>4. seqs[j] \in Seq(X)
      BY <3>1
    <3>5. f[i] \o seqs[j] \in Seq(X)
      BY <3>2, <3>4, ConcatProperties
    <3>6. j \in T
      BY <3>1, <3>3, <3>5, Zenon
    <3> QED
      BY <3>6 DEF j
  <2> HIDE DEF T, n
  <2>5. 1..n \subseteq T
    BY <1>1, <2>3, <2>4, Inductive
  <2> QED
    BY <2>1, <2>3, <2>5 DEF T
<1> QED
  BY <1>2, <1>3

\* One more sequence in front comes in front, and one more behind, behind.
LEMMA FlattenFirst ==
  ASSUME NEW X, NEW a \in Seq(X), NEW seqs \in Seq(Seq(X))
  PROVE  FlattenSeq(<<a>> \o seqs) = a \o FlattenSeq(seqs)
<1> DEFINE n == Len(seqs)
           all == <<a>> \o seqs
<1>1. n \in Nat /\ all \in Seq(Seq(X)) /\ all # <<>> /\ Len(all) = n + 1
  OBVIOUS
<1>2. all[1] = a /\ \A i \in 2..(n + 1) : all[i] = seqs[i - 1]
  OBVIOUS
<1>3. CASE seqs = <<>>
  <2> DEFINE f == [i \in 1..1 |-> a]
  <2>1. f = [i \in 1..1 |-> IF i = 1 THEN a ELSE f[i - 1] \o all[i]] /\ f[1] = a
    OBVIOUS
  <2>2. Len(all) = 1
    BY <1>1, <1>3
  <2> HIDE DEF f, all
  <2>3. f = [i \in 1..1 |-> IF i = 1 THEN all[i] ELSE f[i - 1] \o all[i]]
    BY <1>2, <2>1
  <2>4. Flattens(f, all)
    BY <2>2, <2>3 DEF Flattens
  <2>5. FlattenSeq(all) = a
    BY <1>1, <2>1, <2>2, <2>4, FlattenFrom
  <2>6. FlattenSeq(seqs) = <<>>
    BY <1>3, FlattenNothing
  <2> QED
    BY <2>5, <2>6 DEF all
<1>4. CASE seqs # <<>>
  <2>1. PICK g : Flattens(g, seqs) /\ FlattenSeq(seqs) = g[n]
    BY <1>4, FlattenIs
  <2> DEFINE f == [i \in 1..(n + 1) |-> IF i = 1 THEN a ELSE a \o g[i - 1]]
  <2>2. ASSUME NEW i \in 1..n
        PROVE  g[i] = IF i = 1 THEN seqs[i] ELSE g[i - 1] \o seqs[i]
    BY <2>1, Zenon DEF Flattens
  <2>3. ASSUME NEW i \in 1..n  PROVE g[i] \in Seq(X)
    <3> DEFINE T == {j \in 1..n : g[j] \in Seq(X)}
    <3>1. 1 \in T
      <4>1. 1 \in 1..n
        BY <1>1
      <4>2. g[1] = seqs[1]
        BY <2>2, <4>1, Zenon
      <4> QED
        BY <4>1, <4>2
    <3>2. ASSUME NEW j \in 1..(n - 1), j \in T  PROVE j + 1 \in T
      <4> DEFINE k == j + 1
      <4>1. k \in 1..n /\ k # 1 /\ k - 1 = j
        BY <1>1
      <4>2. g[j] \in Seq(X)
        BY <3>2
      <4> HIDE DEF k
      <4>3. g[k] = g[j] \o seqs[k]
        BY <2>2, <4>1, Zenon
      <4>4. seqs[k] \in Seq(X)
        BY <4>1
      <4>5. g[j] \o seqs[k] \in Seq(X)
        BY <4>2, <4>4, ConcatProperties
      <4>6. k \in T
        BY <4>1, <4>3, <4>5, Zenon
      <4> QED
        BY <4>6 DEF k
    <3> HIDE DEF T, n
    <3>3. 1..n \subseteq T
      BY <1>1, <3>1, <3>2, Inductive
    <3> QED
      BY <3>3 DEF T
  <2>4. ASSUME NEW i \in 1..(n + 1)
        PROVE  f[i] = IF i = 1 THEN all[i] ELSE f[i - 1] \o all[i]
    <3>1. f[i] = IF i = 1 THEN a ELSE a \o g[i - 1]
      BY Zenon
    <3>2. CASE i = 1
      BY <1>2, <3>1, <3>2
    <3>3. CASE i = 2
      <4>1. f[1] = a
        BY <1>1
      <4>2. g[1] = seqs[1]
        <5>1. 1 \in 1..n
          BY <1>1, <3>3
        <5> QED
          BY <2>2, <5>1, Zenon
      <4>3. all[2] = seqs[1]
        BY <1>1, <1>2, <3>3
      <4>4. f[2] = a \o g[1]
        BY <3>1, <3>3
      <4> HIDE DEF f, all
      <4>5. f[1] \o all[2] = a \o g[1]
        BY <4>1, <4>2, <4>3, Zenon
      <4>6. i # 1 /\ i - 1 = 1
        BY <3>3
      <4> QED
        BY <3>3, <4>4, <4>5, <4>6
    <3>4. CASE i > 2
      <4> DEFINE j == i - 1  k == i - 2
      <4>1. j \in 1..n /\ j # 1 /\ k = j - 1 /\ k \in 1..n /\ j \in 1..(n + 1) /\ i \in 2..(n + 1)
        BY <1>1, <3>4
      <4>2. g[j] = g[k] \o seqs[j]
        <5> HIDE DEF j, k
        <5> QED
          BY <2>2, <4>1, Zenon
      <4>3. f[j] = a \o g[k]
        <5> HIDE DEF j, k
        <5> QED
          BY <4>1, Zenon
      <4>4. f[i] = a \o g[j]
        BY <3>1, <3>4
      <4>5. all[i] = seqs[j]
        BY <1>2, <4>1
      <4>6. g[k] \in Seq(X) /\ seqs[j] \in Seq(X)
        <5> HIDE DEF j, k
        <5> QED
          BY <2>3, <4>1
      <4> HIDE DEF f, all, k
      <4>7. (a \o g[k]) \o seqs[j] = a \o (g[k] \o seqs[j])
        <5> DEFINE p == g[k]  q == seqs[j]
        <5>1. p \in Seq(X) /\ q \in Seq(X)
          BY <4>6
        <5> HIDE DEF p, q
        <5>2. (a \o p) \o q = a \o (p \o q)
          BY <5>1
        <5> QED
          BY <5>2 DEF p, q
      <4>8. f[i] = f[j] \o all[i]
        BY <4>2, <4>3, <4>4, <4>5, <4>7
      <4>9. i # 1
        BY <3>4
      <4> QED
        BY <4>8, <4>9 DEF j
    <3> HIDE DEF f, all
    <3> QED
      BY <3>2, <3>3, <3>4
  <2>5. f = [i \in 1..(n + 1) |-> f[i]]
    BY Zenon
  <2> HIDE DEF f
  <2>6. f = [i \in 1..(n + 1) |-> IF i = 1 THEN all[i] ELSE f[i - 1] \o all[i]]
    BY <2>4, <2>5, Zenon
  <2>7. Flattens(f, all)
    <3> HIDE DEF all
    <3> QED
      BY <1>1, <2>6 DEF Flattens
  <2>8. FlattenSeq(all) = f[n + 1]
    <3> HIDE DEF all
    <3> QED
      BY <1>1, <2>7, FlattenFrom
  <2>9. f[n + 1] = a \o g[n]
    BY <1>1, <1>4 DEF f
  <2> QED
    BY <2>1, <2>8, <2>9 DEF all
<1> QED
  BY <1>3, <1>4

\* With one more sequence, it comes after what the others come to.
LEMMA FlattenLast ==
  ASSUME NEW X, NEW a \in Seq(X), NEW seqs \in Seq(Seq(X))
  PROVE  FlattenSeq(Append(seqs, a)) = FlattenSeq(seqs) \o a
<1> DEFINE n == Len(seqs)
           all == Append(seqs, a)
<1>1. n \in Nat /\ all \in Seq(Seq(X)) /\ all # <<>> /\ Len(all) = n + 1
  OBVIOUS
<1>2. all[n + 1] = a /\ \A i \in 1..n : all[i] = seqs[i]
  OBVIOUS
<1> HIDE DEF all
<1>3. PICK f : Flattens(f, all) /\ FlattenSeq(all) = f[n + 1]
  BY <1>1, FlattenIs
<1>4. ASSUME NEW i \in 1..(n + 1)
      PROVE  f[i] = IF i = 1 THEN all[i] ELSE f[i - 1] \o all[i]
  BY <1>1, <1>3, Zenon DEF Flattens
<1>5. n + 1 \in 1..(n + 1)
  BY <1>1
<1>6. CASE seqs = <<>>
  <2>1. n = 0
    BY <1>6
  <2>2. FlattenSeq(seqs) = <<>>
    BY <1>6, FlattenNothing
  <2>3. f[1] = all[1]
    BY <1>4, <2>1
  <2> QED
    BY <1>2, <1>3, <2>1, <2>2, <2>3 DEF all
<1>7. CASE seqs # <<>>
  <2> DEFINE g == [i \in 1..n |-> f[i]]
  <2>1. n \in 1..n
    BY <1>1, <1>7
  <2>2. ASSUME NEW i \in 1..n
        PROVE  g[i] = IF i = 1 THEN seqs[i] ELSE g[i - 1] \o seqs[i]
    <3>1. f[i] = IF i = 1 THEN all[i] ELSE f[i - 1] \o all[i]
      <4>1. i \in 1..(n + 1)
        BY <1>1
      <4> QED
        BY <1>4, <4>1, Zenon
    <3>2. i # 1 => i - 1 \in 1..n
      BY <1>1
    <3>3. g[i] = f[i] /\ (i # 1 => g[i - 1] = f[i - 1])
      BY <3>2, Zenon
    <3>4. all[i] = seqs[i]
      BY <1>2
    <3> HIDE DEF g
    <3> QED
      BY <3>1, <3>3, <3>4, Zenon
  <2>3. g = [i \in 1..n |-> g[i]]
    BY Zenon
  <2>4. g[n] = f[n]
    BY <2>1, Zenon
  <2> HIDE DEF g
  <2>5. Flattens(g, seqs)
    BY <2>2, <2>3, Zenon DEF Flattens
  <2>6. FlattenSeq(seqs) = g[n]
    BY <1>7, <2>5, FlattenFrom
  <2>7. f[n + 1] = f[n] \o all[n + 1]
    <3> DEFINE j == n + 1
    <3>1. j \in 1..(n + 1) /\ j # 1 /\ j - 1 = n
      BY <1>1, <2>1
    <3> HIDE DEF j
    <3>2. f[j] = f[n] \o all[j]
      BY <1>4, <3>1, Zenon
    <3> QED
      BY <3>2 DEF j
  <2> QED
    BY <1>2, <1>3, <2>4, <2>6, <2>7 DEF all
<1> QED
  BY <1>6, <1>7

(***************************************************************************)
(* Heads                                                                   *)
(***************************************************************************)

\* A sequence of anything is one, and two are sequences of what both are of.
LEMMA SequenceOf == \A S : \A s \in Seq(S) : IsSequence(s)
<1> SUFFICES ASSUME NEW S, NEW s \in Seq(S)  PROVE IsSequence(s)
  OBVIOUS
<1>1. \A i \in 1..Len(s) : s[i] \in ToSet(s)
  BY DEF ToSet
<1>2. s \in Seq(ToSet(s))
  BY <1>1
<1> QED
  BY <1>2 DEF IsSequence

\* A sequence of some things is one of more things.
LEMMA WiderSequence ==
  ASSUME NEW S, NEW T, S \subseteq T, NEW s \in Seq(S)
  PROVE  s \in Seq(T)
  OBVIOUS

\* Two sequences are sequences of the things that either consists of.
LEMMA Together ==
  ASSUME NEW s, NEW t, IsSequence(s), IsSequence(t)
  PROVE  \E S : s \in Seq(S) /\ t \in Seq(S)
<1> DEFINE S == ToSet(s) \union ToSet(t)
<1>1. s \in Seq(ToSet(s)) /\ t \in Seq(ToSet(t))
  BY DEF IsSequence
<1>2. ToSet(s) \subseteq S /\ ToSet(t) \subseteq S
  OBVIOUS
<1> HIDE DEF S
<1>3. s \in Seq(S) /\ t \in Seq(S)
  BY <1>1, <1>2, WiderSequence
<1> QED
  BY <1>3

\* Where everything of two sequences stands in the one they make.
Joins(u, s, t) ==
  /\ Len(u) = Len(s) + Len(t)
  /\ \A i \in 1..Len(s) : u[i] = s[i]
  /\ \A i \in 1..Len(t) : u[Len(s) + i] = t[i]

\* Both sequences stand in the one they make, one after the other.
LEMMA JoinIs ==
  ASSUME NEW S, NEW s \in Seq(S), NEW t \in Seq(S)
  PROVE  s \o t \in Seq(S) /\ Joins(s \o t, s, t)
<1>1. s \o t \in Seq(S) /\ Len(s \o t) = Len(s) + Len(t)
  OBVIOUS
<1>2. \A i \in 1..Len(s) : (s \o t)[i] = s[i]
  OBVIOUS
<1>3. \A i \in 1..Len(t) : (s \o t)[Len(s) + i] = t[i]
  OBVIOUS
<1> QED
  BY <1>1, <1>2, <1>3 DEF Joins

\* The lines of a head after the first, each behind the end of the last.
Ends(headers) == [i \in DOMAIN headers |-> <<CRLF, Line(headers[i])>>]

\* Every header line stands behind an end of a line.
LEMMA EndsAre ==
  ASSUME NEW headers, IsSequence(headers)
  PROVE  /\ IsSequence(FlattenSeq(Ends(headers)))
         /\ Len(FlattenSeq(Ends(headers))) = 2 * Len(headers)
         /\ \A i \in 1..Len(headers) :
              /\ FlattenSeq(Ends(headers))[2 * i - 1] = CRLF
              /\ FlattenSeq(Ends(headers))[2 * i] = Line(headers[i])
<1> DEFINE m == Len(headers)
           M == {CRLF} \union {Line(headers[i]) : i \in 1..m}
           pairs == Ends(headers)
<1>1. m \in Nat /\ DOMAIN headers = 1..m
  BY DEF IsSequence
<1>2. \A i \in 1..m : pairs[i] = <<CRLF, Line(headers[i])>> /\ pairs[i] \in Seq(M)
  BY <1>1 DEF Ends
<1>3. pairs \in Seq(Seq(M)) /\ Len(pairs) = m
  <2>1. pairs = [i \in 1..m |-> pairs[i]]
    BY <1>1 DEF Ends
  <2> HIDE DEF pairs, M
  <2> QED
    BY <1>1, <1>2, <2>1
<1> HIDE DEF pairs, M
<1>4. FlattenSeq(pairs) \in Seq(M)
  BY <1>3, FlattenTyped
<1>5. IsSequence(FlattenSeq(pairs))
  BY <1>4, SequenceOf
<1>6. CASE m = 0
  <2>1. pairs = <<>>
    BY <1>3, <1>6
  <2>2. FlattenSeq(pairs) = <<>>
    BY <2>1, FlattenNothing
  <2>3. Len(FlattenSeq(pairs)) = 0
    BY <2>2
  <2> QED
    BY <1>5, <1>6, <2>3 DEF pairs
<1>7. CASE m # 0
  <2>1. PICK f : Flattens(f, pairs) /\ FlattenSeq(pairs) = f[m]
    <3>1. pairs # <<>>
      BY <1>3, <1>7
    <3> QED
      BY <1>3, <3>1, FlattenIs
  <2>2. ASSUME NEW i \in 1..m
        PROVE  f[i] = IF i = 1 THEN pairs[i] ELSE f[i - 1] \o pairs[i]
    BY <1>3, <2>1, Zenon DEF Flattens
  <2> DEFINE Alternate(s, k) ==
               /\ s \in Seq(M) /\ Len(s) = 2 * k
               /\ \A i \in 1..k : s[2 * i - 1] = CRLF /\ s[2 * i] = Line(headers[i])
             T == {k \in 1..m : Alternate(f[k], k)}
  <2>3. 1 \in T
    <3>1. 1 \in 1..m
      BY <1>1, <1>7
    <3>2. f[1] = pairs[1]
      BY <2>2, <3>1, Zenon
    <3>3. f[1] = <<CRLF, Line(headers[1])>> /\ f[1] \in Seq(M)
      BY <1>2, <3>1, <3>2
    <3>4. Alternate(f[1], 1)
      BY <3>3
    <3> HIDE DEF Alternate
    <3> QED
      BY <3>1, <3>4
  <2>4. ASSUME NEW i \in 1..(m - 1), i \in T  PROVE i + 1 \in T
    <3> DEFINE j == i + 1  s == f[i]  p == pairs[j]
    <3>1. j \in 1..m /\ j # 1 /\ j - 1 = i
      BY <1>1
    <3>2. Alternate(s, i)
      BY <2>4
    <3>3. f[j] = s \o p
      <4> HIDE DEF j
      <4> QED
        BY <2>2, <3>1, Zenon
    <3>4. p = <<CRLF, Line(headers[j])>> /\ p \in Seq(M)
      <4> HIDE DEF j
      <4> QED
        BY <1>2, <3>1
    <3>5. j = i + 1 /\ i \in Nat
      OBVIOUS
    <3> HIDE DEF j, s, p
    <3> DEFINE u == s \o p
    <3>0. u \in Seq(M) /\ Joins(u, s, p)
      BY <3>2, <3>4, JoinIs
    <3>10. Len(p) = 2 /\ p[1] = CRLF /\ p[2] = Line(headers[j]) /\ Len(s) = 2 * i
      BY <3>2, <3>4
    <3> HIDE DEF u
    <3>6. u \in Seq(M) /\ Len(u) = 2 * j
      BY <3>0, <3>10, <3>5 DEF Joins
    <3>7. ASSUME NEW k \in 1..j
          PROVE  u[2 * k - 1] = CRLF /\ u[2 * k] = Line(headers[k])
      <4>1. CASE k \in 1..i
        <5>1. s[2 * k - 1] = CRLF /\ s[2 * k] = Line(headers[k])
          BY <3>2, <4>1
        <5>2. 2 * k - 1 \in 1..Len(s) /\ 2 * k \in 1..Len(s)
          BY <3>10, <3>5, <4>1
        <5>3. u[2 * k - 1] = s[2 * k - 1] /\ u[2 * k] = s[2 * k]
          BY <3>0, <5>2 DEF Joins
        <5> QED
          BY <5>1, <5>3
      <4>2. CASE k = j
        <5>1. 2 * k - 1 = Len(s) + 1 /\ 2 * k = Len(s) + 2
          BY <3>10, <3>5, <4>2
        <5>2. u[Len(s) + 1] = p[1] /\ u[Len(s) + 2] = p[2]
          BY <3>0, <3>10 DEF Joins
        <5> QED
          BY <3>10, <4>2, <5>1, <5>2
      <4>3. k \in 1..i \/ k = j
        BY <3>5
      <4> QED
        BY <4>1, <4>2, <4>3
    <3>8. Alternate(s \o p, j)
      BY <3>6, <3>7 DEF u
    <3> HIDE DEF Alternate
    <3>9. j \in T
      BY <3>1, <3>3, <3>8
    <3> QED
      BY <3>9 DEF j
  <2>5. m \in T
    <3> HIDE DEF T, m
    <3>1. 1..m \subseteq T
      BY <1>1, <2>3, <2>4, Inductive
    <3>2. m \in 1..m
      BY <1>1, <1>7
    <3> QED
      BY <3>1, <3>2
  <2>6. Alternate(FlattenSeq(pairs), m)
    <3> HIDE DEF Alternate
    <3> QED
      BY <2>1, <2>5
  <2> QED
    BY <1>5, <2>6 DEF pairs
<1> QED
  BY <1>6, <1>7

\* Where everything of a text stands.
Laid(text, first, headers, body) ==
  /\ IsSequence(text)
  /\ Len(text) = 2 * Len(headers) + 3 + Len(body)
  /\ text[1] = Line(first)
  /\ \A i \in 1..Len(headers) :
       text[2 * i] = CRLF /\ text[2 * i + 1] = Line(headers[i])
  /\ text[2 * Len(headers) + 2] = CRLF
  /\ text[2 * Len(headers) + 3] = CRLF
  /\ \A i \in 1..Len(body) : text[2 * Len(headers) + 3 + i] = body[i]

\* A text is laid out as a first line, its headers, a blank line and its body.
LEMMA TextIs ==
  ASSUME NEW first, NEW headers, NEW body, IsSequence(headers), IsSequence(body)
  PROVE  Laid(Text(first, headers, body), first, headers, body)
<1> DEFINE m == Len(headers)
           lines == FlattenSeq(Ends(headers))
           a == <<Line(first)>>
           z == <<CRLF, CRLF>>
           S == ToSet(lines) \union ToSet(body) \union {Line(first), CRLF}
           text == Text(first, headers, body)
<1>1. text = ((a \o lines) \o z) \o body
  <2>1. text = <<Line(first)>> \o FlattenSeq([i \in DOMAIN headers |-> <<CRLF, Line(headers[i])>>])
                 \o <<CRLF, CRLF>> \o body
    BY Zenon DEF Text
  <2> QED
    BY <2>1, Zenon DEF Ends
<1>2. /\ lines \in Seq(ToSet(lines)) /\ Len(lines) = 2 * m
      /\ \A i \in 1..m : lines[2 * i - 1] = CRLF /\ lines[2 * i] = Line(headers[i])
  BY EndsAre DEF IsSequence
<1>3. m \in Nat /\ body \in Seq(ToSet(body))
  BY DEF IsSequence
<1>4. a \in Seq(S) /\ z \in Seq(S) /\ Len(a) = 1 /\ a[1] = Line(first)
      /\ Len(z) = 2 /\ z[1] = CRLF /\ z[2] = CRLF
  OBVIOUS
<1>5. lines \in Seq(S) /\ body \in Seq(S)
  <2>1. ToSet(lines) \subseteq S /\ ToSet(body) \subseteq S
    OBVIOUS
  <2> HIDE DEF lines, S
  <2> QED
    BY <1>2, <1>3, <2>1, WiderSequence
<1> HIDE DEF lines, a, z, S, text
<1> DEFINE u == a \o lines
           v == u \o z
<1>6. /\ u \in Seq(S) /\ Len(u) = 2 * m + 1 /\ u[1] = Line(first)
      /\ \A i \in 1..m : u[2 * i] = CRLF /\ u[2 * i + 1] = Line(headers[i])
  <2>1. u \in Seq(S) /\ Joins(u, a, lines)
    BY <1>4, <1>5, JoinIs
  <2> HIDE DEF u
  <2>2. Len(u) = 2 * m + 1 /\ u[1] = Line(first)
    BY <1>2, <1>3, <1>4, <2>1 DEF Joins
  <2>3. ASSUME NEW i \in 1..m  PROVE u[2 * i] = CRLF /\ u[2 * i + 1] = Line(headers[i])
    <3>1. 2 * i - 1 \in 1..Len(lines) /\ 2 * i \in 1..Len(lines)
      BY <1>2, <1>3
    <3>2. u[1 + (2 * i - 1)] = lines[2 * i - 1] /\ u[1 + 2 * i] = lines[2 * i]
      BY <1>4, <2>1, <3>1 DEF Joins
    <3>3. 1 + (2 * i - 1) = 2 * i /\ 1 + 2 * i = 2 * i + 1
      BY <1>3
    <3> QED
      BY <1>2, <3>2, <3>3
  <2> QED
    BY <2>1, <2>2, <2>3
<1>7. /\ v \in Seq(S) /\ Len(v) = 2 * m + 3 /\ v[1] = Line(first)
      /\ \A i \in 1..m : v[2 * i] = CRLF /\ v[2 * i + 1] = Line(headers[i])
      /\ v[2 * m + 2] = CRLF /\ v[2 * m + 3] = CRLF
  <2> HIDE DEF u
  <2>1. v \in Seq(S) /\ Joins(v, u, z)
    BY <1>4, <1>6, JoinIs
  <2> HIDE DEF v
  <2>2. Len(v) = 2 * m + 3
    BY <1>3, <1>4, <1>6, <2>1 DEF Joins
  <2>3. 1 \in 1..Len(u) /\ \A i \in 1..m : 2 * i \in 1..Len(u) /\ 2 * i + 1 \in 1..Len(u)
    BY <1>3, <1>6
  <2>4. v[Len(u) + 1] = z[1] /\ v[Len(u) + 2] = z[2]
    BY <1>4, <2>1 DEF Joins
  <2>5. Len(u) + 1 = 2 * m + 2 /\ Len(u) + 2 = 2 * m + 3
    BY <1>3, <1>6
  <2>6. v[1] = Line(first) /\ \A i \in 1..m : v[2 * i] = CRLF /\ v[2 * i + 1] = Line(headers[i])
    BY <1>6, <2>1, <2>3 DEF Joins
  <2>7. v[2 * m + 2] = CRLF /\ v[2 * m + 3] = CRLF
    BY <1>4, <2>4, <2>5
  <2> QED
    BY <2>1, <2>2, <2>6, <2>7
<1>8. text = v \o body
  BY <1>1
<1> HIDE DEF u, v
<1>9. text \in Seq(S) /\ Joins(text, v, body)
  BY <1>5, <1>7, <1>8, JoinIs
<1>10. Len(text) = 2 * m + 3 + Len(body) /\ \A j \in 1..Len(v) : text[j] = v[j]
  BY <1>3, <1>7, <1>9 DEF Joins
<1>11. \A j \in 1..Len(body) : text[2 * m + 3 + j] = body[j]
  BY <1>7, <1>9 DEF Joins
<1>12. IsSequence(text)
  BY <1>9, SequenceOf
<1>13. /\ 1 \in 1..Len(v) /\ 2 * m + 2 \in 1..Len(v) /\ 2 * m + 3 \in 1..Len(v)
       /\ \A i \in 1..m : 2 * i \in 1..Len(v) /\ 2 * i + 1 \in 1..Len(v)
  BY <1>3, <1>7
<1>14. Laid(text, first, headers, body)
  BY <1>7, <1>9, <1>10, <1>11, <1>12, <1>13 DEF Laid
<1> QED
  BY <1>14 DEF text

\* How long such a text is.
LEMMA LaidLength ==
  ASSUME NEW text, NEW first, NEW headers, NEW body, IsSequence(headers), IsSequence(body),
         Laid(text, first, headers, body)
  PROVE  /\ IsSequence(text) /\ text # <<>>
         /\ Len(headers) \in Nat /\ Len(body) \in Nat
         /\ Len(text) = 2 * Len(headers) + 3 + Len(body)
<1>1. Len(headers) \in Nat /\ Len(body) \in Nat
  BY DEF IsSequence
<1>2. IsSequence(text) /\ Len(text) = 2 * Len(headers) + 3 + Len(body)
  BY DEF Laid
<1>3. Len(text) # 0
  BY <1>1, <1>2
<1> QED
  BY <1>1, <1>2, <1>3

\* The least of a set is what none of it is less than.
LEMMA MinIs ==
  ASSUME NEW A, A \subseteq Int, NEW m \in A, \A x \in A : m <= x
  PROVE  Min(A) = m
<1> DEFINE P(x) == x \in A /\ \A y \in A : x <= y
<1>1. Min(A) = CHOOSE x \in A : \A y \in A : x <= y
  BY DEF Min
<1>2. Min(A) \in A /\ \A y \in A : Min(A) <= y
  <2>1. \E x \in A : \A y \in A : x <= y
    OBVIOUS
  <2> QED
    BY <1>1, <2>1, Zenon
<1>3. Min(A) <= m /\ m <= Min(A) /\ Min(A) \in Int /\ m \in Int
  BY <1>2
<1> QED
  BY <1>3

\* What has arrived of a text, or of it and what comes after.
Agrees(b, text) ==
  IsSequence(b) /\ \A i \in 1..Len(b) : i <= Len(text) => b[i] = text[i]

\* Up to the blank line, what ends a line is followed by a line.
LEMMA NoBlankBefore ==
  ASSUME NEW first, NEW headers, NEW body, NEW text, NEW b,
         IsSequence(headers), IsSequence(body),
         Laid(text, first, headers, body), Agrees(b, text)
  PROVE  \A i \in Blank(b) : i >= 2 * Len(headers) + 2
<1> DEFINE m == Len(headers)
<1>1. m \in Nat /\ Len(body) \in Nat /\ Len(b) \in Nat
  BY DEF IsSequence, Agrees
<1>2. Len(text) = 2 * m + 3 + Len(body)
  BY DEF Laid
<1>3. SUFFICES ASSUME NEW i \in Blank(b), i < 2 * m + 2  PROVE FALSE
  BY <1>1 DEF Blank
<1>4. i \in 1..(Len(b) - 1) /\ b[i] = CRLF /\ b[i + 1] = CRLF
  BY DEF Blank
<1>5. \A x : Line(x) # CRLF
  BY DEF Line, CRLF
<1>6. b[i] = text[i] /\ b[i + 1] = text[i + 1]
  <2>1. i \in 1..Len(b) /\ i + 1 \in 1..Len(b) /\ i <= Len(text) /\ i + 1 <= Len(text)
    BY <1>1, <1>2, <1>3, <1>4
  <2> QED
    BY <2>1 DEF Agrees
<1>7. PICK k \in Nat : i = 2 * k \/ i = 2 * k + 1
  <2>1. i \div 2 \in Nat /\ (i = 2 * (i \div 2) \/ i = 2 * (i \div 2) + 1)
    BY <1>4
  <2> QED
    BY <2>1
<1>8. CASE i = 2 * k
  <2>1. k \in 1..m
    BY <1>1, <1>3, <1>4, <1>8
  <2>2. text[i + 1] = Line(headers[k])
    BY <1>8, <2>1 DEF Laid
  <2> QED
    BY <1>4, <1>5, <1>6, <2>2
<1>9. CASE i = 2 * k + 1
  <2>1. k = 0 \/ k \in 1..m
    BY <1>1, <1>3, <1>9
  <2>2. k = 0 => text[i] = Line(first)
    BY <1>9 DEF Laid
  <2>3. k \in 1..m => text[i] = Line(headers[k])
    BY <1>9 DEF Laid
  <2> QED
    BY <1>4, <1>5, <1>6, <2>1, <2>2, <2>3
<1> QED
  BY <1>7, <1>8, <1>9

\* There is no blank line before it is all there.
LEMMA BlankIsNot ==
  ASSUME NEW first, NEW headers, NEW body, NEW text, NEW b,
         IsSequence(headers), IsSequence(body),
         Laid(text, first, headers, body), Agrees(b, text), Len(b) < 2 * Len(headers) + 3
  PROVE  Blank(b) = {}
<1>1. Len(b) \in Nat /\ Len(headers) \in Nat
  BY DEF IsSequence, Agrees
<1>2. \A i \in Blank(b) : i >= 2 * Len(headers) + 2
  BY NoBlankBefore
<1>3. \A i \in Blank(b) : i \in 1..(Len(b) - 1)
  BY DEF Blank
<1> QED
  BY <1>1, <1>2, <1>3

\* Then it is found where it is, and the lines are what was written.
Headed(b, first, headers) ==
  /\ Blank(b) # {}
  /\ Min(Blank(b)) = 2 * Len(headers) + 2
  /\ b[1] = Line(first)
  /\ HeaderLines(b, 2 * Len(headers) + 2) = headers

\* With all of a head there, the blank line and the headers are where they were put.
LEMMA HeadIs ==
  ASSUME NEW first, NEW headers, NEW body, NEW text, NEW b,
         IsSequence(headers), IsSequence(body),
         Laid(text, first, headers, body), Agrees(b, text), Len(b) >= 2 * Len(headers) + 3
  PROVE  Headed(b, first, headers)
<1> DEFINE m == Len(headers)
           end == 2 * m + 2
<1>1. m \in Nat /\ Len(body) \in Nat /\ Len(b) \in Nat /\ Len(text) = 2 * m + 3 + Len(body)
  BY DEF IsSequence, Agrees, Laid
<1>2. \A i \in 1..(2 * m + 3) : b[i] = text[i]
  <2>1. \A i \in 1..(2 * m + 3) : i \in 1..Len(b) /\ i <= Len(text)
    BY <1>1
  <2> QED
    BY <2>1 DEF Agrees
<1>3. b[end] = CRLF /\ b[end + 1] = CRLF /\ b[1] = Line(first)
  <2>1. end \in 1..(2 * m + 3) /\ end + 1 \in 1..(2 * m + 3) /\ 1 \in 1..(2 * m + 3)
        /\ end + 1 = 2 * m + 3
    BY <1>1
  <2> QED
    BY <1>2, <2>1 DEF Laid
<1>4. end \in Blank(b)
  <2>1. end \in 1..(Len(b) - 1)
    BY <1>1
  <2> QED
    BY <1>3, <2>1 DEF Blank
<1>5. Min(Blank(b)) = end
  <2>1. Blank(b) \subseteq Int
    BY DEF Blank
  <2>2. \A i \in Blank(b) : end <= i
    <3>1. \A i \in Blank(b) : i >= end
      BY NoBlankBefore
    <3> QED
      BY <1>1, <2>1, <3>1
  <2> HIDE DEF end
  <2> QED
    BY <1>4, <2>1, <2>2, MinIs
<1>6. HeaderLines(b, end) = headers
  <2>1. HeaderLines(b, end) = [i \in 1..((end - 2) \div 2) |-> b[2 * i + 1].text]
    BY Zenon DEF HeaderLines
  <2>2. (end - 2) \div 2 = m
    BY <1>1
  <2>3. ASSUME NEW i \in 1..m  PROVE b[2 * i + 1].text = headers[i]
    <3>1. 2 * i + 1 \in 1..(2 * m + 3)
      BY <1>1
    <3>2. b[2 * i + 1] = Line(headers[i])
      BY <1>2, <3>1 DEF Laid
    <3> QED
      BY <3>2 DEF Line
  <2>4. headers = [i \in 1..m |-> headers[i]]
    BY DEF IsSequence
  <2> HIDE DEF end
  <2>5. HeaderLines(b, end) = [i \in 1..m |-> b[2 * i + 1].text]
    BY <2>1, <2>2, Zenon
  <2>6. [i \in 1..m |-> b[2 * i + 1].text] = [i \in 1..m |-> headers[i]]
    BY <2>3, Zenon
  <2> QED
    BY <2>4, <2>5, <2>6, Zenon
<1> QED
  BY <1>3, <1>4, <1>5, <1>6 DEF Headed

(***************************************************************************)
(* Reading                                                                 *)
(***************************************************************************)

\* What stands after the first n marks of b.
LEMMA CutIs ==
  ASSUME NEW b, IsSequence(b), NEW s, IsSequence(s), NEW n \in Nat, n + Len(s) <= Len(b),
         \A i \in 1..Len(s) : b[n + i] = s[i]
  PROVE  SubSeq(b, n + 1, n + Len(s)) = s
<1> DEFINE k == Len(s)
           S == ToSet(b) \union ToSet(s)
<1>1. k \in Nat /\ Len(b) \in Nat
  BY DEF IsSequence
<1>2. b \in Seq(S) /\ s \in Seq(S)
  <2>1. ToSet(b) \subseteq S /\ ToSet(s) \subseteq S
    OBVIOUS
  <2> HIDE DEF S
  <2> QED
    BY <2>1, WiderSequence DEF IsSequence
<1> HIDE DEF S
<1>3. SubSeq(b, n + 1, n + k) \in Seq(S) /\ Len(SubSeq(b, n + 1, n + k)) = k
  BY <1>1, <1>2
<1>4. ASSUME NEW i \in 1..k  PROVE SubSeq(b, n + 1, n + k)[i] = s[i]
  <2>1. SubSeq(b, n + 1, n + k)[i] = b[n + i]
    BY <1>1, <1>2
  <2> QED
    BY <2>1
<1> DEFINE c == SubSeq(b, n + 1, n + k)
<1> HIDE DEF c
<1>5. c \in Seq(S) /\ Len(c) = Len(s) /\ \A i \in 1..Len(s) : c[i] = s[i]
  BY <1>3, <1>4 DEF c
<1>6. c = s
  BY <1>2, <1>5, SeqEqual
<1> QED
  BY <1>6 DEF c

\* Something read whole.
Taken(what, rest) == [is |-> "taken", rest |-> rest, what |-> what]

\* Where everything of a frame stands.
Framed(text, channel, payload) ==
  /\ IsSequence(text)
  /\ Len(text) = 3 + Len(payload)
  /\ text[1] = DOLLAR /\ text[2] = Byte(channel) /\ text[3] = Byte(Len(payload))
  /\ \A i \in 1..Len(payload) : text[3 + i] = payload[i]

\* A frame is laid out as its three marks and its payload.
LEMMA FrameIs ==
  ASSUME NEW channel, NEW payload, IsSequence(payload)
  PROVE  Framed(interleave(channel, payload), channel, payload)
<1> DEFINE front == <<DOLLAR, Byte(channel), Byte(Len(payload))>>
           S == ToSet(payload) \union {DOLLAR, Byte(channel), Byte(Len(payload))}
           text == front \o payload
<1>1. /\ front \in Seq(S) /\ Len(front) = 3 /\ front[1] = DOLLAR /\ front[2] = Byte(channel)
      /\ front[3] = Byte(Len(payload))
  OBVIOUS
<1>2. payload \in Seq(S)
  <2>1. ToSet(payload) \subseteq S
    OBVIOUS
  <2> HIDE DEF S
  <2> QED
    BY <2>1, WiderSequence DEF IsSequence
<1>3. interleave(channel, payload) = text
  BY Zenon DEF interleave
<1> HIDE DEF front, S
<1>4. text \in Seq(S) /\ Joins(text, front, payload)
  BY <1>1, <1>2, JoinIs
<1> HIDE DEF text
<1>5. IsSequence(text)
  BY <1>4, SequenceOf
<1>6. text[1] = front[1] /\ text[2] = front[2] /\ text[3] = front[3]
  BY <1>1, <1>4 DEF Joins
<1>7. Framed(text, channel, payload)
  BY <1>1, <1>4, <1>5, <1>6 DEF Framed, Joins
<1> QED
  BY <1>3, <1>7

\* A frame that is there is taken, and nothing else.
LEMMA FrameIsTaken ==
  ASSUME NEW channel, NEW payload, IsSequence(payload), NEW rest, IsSequence(rest),
         NEW b, b = interleave(channel, payload) \o rest
  PROVE  /\ b # <<>> /\ b[1] = DOLLAR
         /\ read_interleaved(b) = Taken(Frame(channel, payload), rest)
<1> DEFINE text == interleave(channel, payload)
           n == Len(payload)
<1>1. Framed(text, channel, payload)
  BY FrameIs
<1> HIDE DEF text
<1>2. IsSequence(b) /\ Joins(b, text, rest)
  <2>1. PICK S : text \in Seq(S) /\ rest \in Seq(S)
    BY <1>1, Together DEF Framed
  <2>2. b = text \o rest
    BY DEF text
  <2> QED
    BY <2>1, <2>2, JoinIs, SequenceOf
<1>3. n \in Nat /\ Len(rest) \in Nat /\ Len(text) = 3 + n
  BY <1>1 DEF IsSequence, Framed
<1>4. Len(b) = 3 + n + Len(rest)
  BY <1>2, <1>3 DEF Joins
<1>5. /\ b[1] = DOLLAR /\ b[2] = Byte(channel) /\ b[3] = Byte(n)
      /\ \A i \in 1..n : b[3 + i] = payload[i]
  <2>1. \A i \in 1..Len(text) : b[i] = text[i]
    BY <1>2 DEF Joins
  <2>2. /\ 1 \in 1..Len(text) /\ 2 \in 1..Len(text) /\ 3 \in 1..Len(text)
        /\ \A i \in 1..n : 3 + i \in 1..Len(text)
    BY <1>3
  <2> QED
    BY <1>1, <2>1, <2>2 DEF Framed
<1>6. b[2].value = channel /\ b[3].value = n
  BY <1>5 DEF Byte
<1>7. ~(Len(b) < 3 \/ Len(b) < 3 + b[3].value) /\ b # <<>>
  <2>1. b # <<>>
    BY <1>3, <1>4
  <2> QED
    BY <1>3, <1>4, <1>6, <2>1
<1>8. Cut(b, 3, n) = payload
  <2>1. 3 \in Nat /\ 3 + n <= Len(b)
    BY <1>3, <1>4
  <2>2. SubSeq(b, 3 + 1, 3 + n) = payload
    BY <1>2, <1>5, <2>1, CutIs
  <2> QED
    BY <2>2 DEF Cut
<1>9. SubSeq(b, 4 + n, Len(b)) = rest
  <2> DEFINE k == 3 + n
  <2>1. k \in Nat /\ k + Len(rest) = Len(b) /\ k + 1 = 4 + n /\ k = Len(text)
    BY <1>3, <1>4
  <2> HIDE DEF k
  <2>2. \A i \in 1..Len(rest) : b[k + i] = rest[i]
    BY <1>2, <2>1 DEF Joins
  <2>3. k + Len(rest) <= Len(b)
    BY <1>4, <1>3, <2>1
  <2>4. SubSeq(b, k + 1, k + Len(rest)) = rest
    BY <1>2, <2>1, <2>2, <2>3, CutIs
  <2> QED
    BY <2>1, <2>4
<1>10. read_interleaved(b)
         = [is |-> "taken", rest |-> SubSeq(b, 4 + b[3].value, Len(b)),
            what |-> Frame(b[2].value, Cut(b, 3, b[3].value))]
  BY <1>7, Zenon DEF read_interleaved
<1> QED
  BY <1>5, <1>6, <1>7, <1>8, <1>9, <1>10, Zenon DEF Taken

\* Less than a frame is left where it is.
LEMMA FrameIsAwaited ==
  ASSUME NEW channel, NEW payload, IsSequence(payload), NEW b,
         Agrees(b, interleave(channel, payload)), Len(b) < Len(interleave(channel, payload))
  PROVE  read_interleaved(b) = Nothing
<1> DEFINE text == interleave(channel, payload)
<1>1. Framed(text, channel, payload)
  BY FrameIs
<1> HIDE DEF text
<1>2. Len(b) \in Nat /\ Len(payload) \in Nat /\ Len(text) = 3 + Len(payload)
  BY <1>1 DEF IsSequence, Agrees, Framed
<1>3. Len(b) < Len(text)
  BY DEF text
<1>4. Len(b) >= 3 => b[3].value = Len(payload)
  <2>1. Len(b) >= 3 => 3 \in 1..Len(b) /\ 3 <= Len(text)
    BY <1>2
  <2>2. Len(b) >= 3 => b[3] = text[3]
    BY <2>1 DEF Agrees, text
  <2> QED
    BY <1>1, <2>2 DEF Framed, Byte
<1>5. Len(b) < 3 \/ Len(b) < 3 + b[3].value
  BY <1>2, <1>3, <1>4
<1> QED
  BY <1>5, Zenon DEF read_interleaved

\* What a head gives reason to refuse.
Bad(first, headers) ==
  \/ first.uri = None
  \/ first.version # "RTSP/1.0"
  \/ \E i \in DOMAIN headers : headers[i].name = None
  \/ Length(headers) \notin 0..MAX_BODY

\* Such a head cannot be read for what is said in it, and for no other reason.
LEMMA BadIsUnreadable ==
  ASSUME NEW b, NEW first, NEW headers, Headed(b, first, headers)
  PROVE  Unreadable(b, Min(Blank(b))) <=> Bad(first, headers)
<1>1. b[1].text = first
  BY DEF Headed, Line
<1>2. HeaderLines(b, Min(Blank(b))) = headers
  BY DEF Headed
<1> QED
  BY <1>1, <1>2, Zenon DEF Unreadable, Bad

\* How a request is read once its blank line is there.
LEMMA HeadIsRead ==
  ASSUME NEW b, NEW first, NEW headers, Headed(b, first, headers)
  PROVE  read_request(b) =
           IF Bad(first, headers) THEN Refused
           ELSE IF Len(b) < 2 * Len(headers) + 2 + 1 + Length(headers) THEN Nothing
           ELSE Taken([is |-> "request", line |-> first, headers |-> headers,
                       body |-> Cut(b, 2 * Len(headers) + 2 + 1, Length(headers))],
                      SubSeq(b, 2 * Len(headers) + 2 + 2 + Length(headers), Len(b)))
<1> DEFINE end == 2 * Len(headers) + 2
<1>1. b[1].text = first
  BY DEF Headed, Line
<1>2. Min(Blank(b)) = end /\ HeaderLines(b, end) = headers /\ Blank(b) # {}
  BY DEF Headed
<1>3. Unreadable(b, end) <=> Bad(first, headers)
  BY <1>2, BadIsUnreadable
<1> HIDE DEF end
<1>4. read_request(b) =
        IF Unreadable(b, end) THEN Refused
        ELSE IF Len(b) < end + 1 + Length(HeaderLines(b, end)) THEN Nothing
        ELSE [is |-> "taken",
              rest |-> SubSeq(b, end + 2 + Length(HeaderLines(b, end)), Len(b)),
              what |-> [is |-> "request", line |-> b[1].text, headers |-> HeaderLines(b, end),
                        body |-> Cut(b, end + 1, Length(HeaderLines(b, end)))]]
  BY <1>2, Zenon DEF read_request
<1>5. read_request(b) =
        IF Bad(first, headers) THEN Refused
        ELSE IF Len(b) < end + 1 + Length(headers) THEN Nothing
        ELSE Taken([is |-> "request", line |-> first, headers |-> headers,
                    body |-> Cut(b, end + 1, Length(headers))],
                   SubSeq(b, end + 2 + Length(headers), Len(b)))
  BY <1>1, <1>2, <1>3, <1>4, Zenon DEF Taken
<1> QED
  BY <1>5 DEF end

\* A head states the length of its body, if it states one that can be.
Honest(headers, body) == Length(headers) \in 0..MAX_BODY => Length(headers) = Len(body)

RequestOf(first, headers, body) ==
  [is |-> "request", line |-> first, headers |-> headers, body |-> body]

\* What is all there of a text, and what comes after it.
Stands(b, first, headers, body, rest) ==
  /\ b # <<>> /\ Headed(b, first, headers)
  /\ Len(headers) \in Nat /\ Len(body) \in Nat /\ Len(rest) \in Nat
  /\ Len(b) = 2 * Len(headers) + 3 + Len(body) + Len(rest)
  /\ Cut(b, 2 * Len(headers) + 2 + 1, Len(body)) = body
  /\ SubSeq(b, 2 * Len(headers) + 2 + 2 + Len(body), Len(b)) = rest

\* A text stands in front of whatever follows it, and ends where that begins.
LEMMA TextStands ==
  ASSUME NEW first, NEW headers, NEW body, IsSequence(headers), IsSequence(body),
         NEW rest, IsSequence(rest), NEW b, b = Text(first, headers, body) \o rest
  PROVE  Stands(b, first, headers, body, rest)
<1> DEFINE text == Text(first, headers, body)
           m == Len(headers)
           n == Len(body)
<1>1. Laid(text, first, headers, body)
  BY TextIs
<1>2. b = text \o rest
  OBVIOUS
<1> HIDE DEF text
<1>3. IsSequence(b) /\ Joins(b, text, rest)
  <2>1. PICK S : text \in Seq(S) /\ rest \in Seq(S)
    BY <1>1, Together DEF Laid
  <2> QED
    BY <1>2, <2>1, JoinIs, SequenceOf
<1>4. m \in Nat /\ n \in Nat /\ Len(rest) \in Nat /\ Len(text) = 2 * m + 3 + n
  BY <1>1 DEF IsSequence, Laid
<1>5. Len(b) = 2 * m + 3 + n + Len(rest)
  BY <1>3, <1>4 DEF Joins
<1>6. Agrees(b, text)
  <2>1. \A i \in 1..Len(b) : i <= Len(text) => i \in 1..Len(text)
    BY <1>4
  <2> QED
    BY <1>3, <2>1 DEF Agrees, Joins
<1>7. Headed(b, first, headers)
  <2>1. Len(b) >= 2 * Len(headers) + 3
    BY <1>4, <1>5
  <2> QED
    BY <1>1, <1>6, <2>1, HeadIs
<1>8. b # <<>>
  <2>1. Len(b) # 0
    BY <1>4, <1>5
  <2> QED
    BY <2>1
<1>9. /\ Cut(b, 2 * m + 2 + 1, n) = body
      /\ SubSeq(b, 2 * m + 2 + 2 + n, Len(b)) = rest
  <2> DEFINE k == 2 * m + 3
             l == 2 * m + 3 + n
  <2>3. /\ k \in Nat /\ l \in Nat /\ k + n = l /\ l + Len(rest) = Len(b) /\ Len(text) = l
        /\ k + n <= Len(b) /\ l + Len(rest) <= Len(b)
        /\ 2 * m + 2 + 1 = k /\ 2 * m + 2 + 2 + n = l + 1
    BY <1>4, <1>5
  <2>4. \A i \in 1..n : b[k + i] = body[i]
    <3>1. ASSUME NEW i \in 1..n  PROVE b[k + i] = body[i]
      <4>1. k + i \in 1..Len(text)
        BY <1>4
      <4>2. b[k + i] = text[k + i]
        BY <1>3, <4>1 DEF Joins
      <4>3. text[k + i] = body[i]
        BY <1>1 DEF Laid
      <4> QED
        BY <4>2, <4>3
    <3> QED
      BY <3>1
  <2> HIDE DEF k, l
  <2>5. \A i \in 1..Len(rest) : b[l + i] = rest[i]
    BY <1>3, <2>3 DEF Joins
  <2>6. SubSeq(b, k + 1, k + n) = body
    BY <1>3, <2>3, <2>4, CutIs
  <2>7. SubSeq(b, l + 1, l + Len(rest)) = rest
    BY <1>3, <2>3, <2>5, CutIs
  <2>8. Cut(b, 2 * m + 2 + 1, n) = body
    BY <2>3, <2>6 DEF Cut
  <2>9. SubSeq(b, 2 * m + 2 + 2 + n, Len(b)) = rest
    BY <2>3, <2>7
  <2> QED
    BY <2>8, <2>9
<1> QED
  BY <1>4, <1>5, <1>7, <1>8, <1>9, Zenon DEF Stands

ReadsAs(b, first, headers, body, rest) ==
  /\ b # <<>> /\ b[1] = Line(first)
  /\ read_request(b) = IF Bad(first, headers) THEN Refused
                       ELSE Taken(RequestOf(first, headers, body), rest)

\* A request that is all there is taken with its own body, or refused for what
\* its head says.
LEMMA RequestIsTaken ==
  ASSUME NEW first, NEW headers, NEW body, IsSequence(headers), IsSequence(body),
         Honest(headers, body),
         NEW rest, IsSequence(rest), NEW b, b = Text(first, headers, body) \o rest
  PROVE  ReadsAs(b, first, headers, body, rest)
<1> DEFINE m == Len(headers)
           n == Len(body)
<1>1. Stands(b, first, headers, body, rest)
  BY TextStands
<1>2. b # <<>> /\ Headed(b, first, headers)
  BY <1>1, Zenon DEF Stands
<1>3. /\ m \in Nat /\ n \in Nat /\ Len(rest) \in Nat
      /\ Len(b) = 2 * m + 3 + n + Len(rest)
      /\ Cut(b, 2 * m + 2 + 1, n) = body /\ SubSeq(b, 2 * m + 2 + 2 + n, Len(b)) = rest
  BY <1>1, Zenon DEF Stands
<1>4. b[1] = Line(first)
  BY <1>2 DEF Headed
<1>5. CASE Bad(first, headers)
  BY <1>2, <1>4, <1>5, HeadIsRead DEF ReadsAs
<1>6. CASE ~Bad(first, headers)
  <2>1. Length(headers) = n
    BY <1>6 DEF Bad, Honest
  <2> HIDE DEF m, n
  <2>2. ~(Len(b) < 2 * m + 2 + 1 + Length(headers))
    BY <1>3, <2>1
  <2>3. read_request(b) =
          Taken([is |-> "request", line |-> first, headers |-> headers,
                 body |-> Cut(b, 2 * m + 2 + 1, Length(headers))],
                SubSeq(b, 2 * m + 2 + 2 + Length(headers), Len(b)))
    BY <1>2, <1>6, <2>2, HeadIsRead DEF m
  <2>4. read_request(b) = Taken(RequestOf(first, headers, body), rest)
    BY <1>3, <2>1, <2>3, Zenon DEF RequestOf
  <2> QED
    BY <1>2, <1>4, <1>6, <2>4 DEF ReadsAs
<1> QED
  BY <1>5, <1>6

\* Less than a request is left where it is, or refused for what its head says
\* or how long that is.
LEMMA RequestIsAwaited ==
  ASSUME NEW first, NEW headers, NEW body, IsSequence(headers), IsSequence(body),
         Honest(headers, body),
         NEW b, Agrees(b, Text(first, headers, body)), Len(b) < Len(Text(first, headers, body))
  PROVE  \/ read_request(b) = Nothing
         \/ /\ read_request(b) = Refused
            /\ Bad(first, headers) \/ 2 * Len(headers) + 3 > MAX_HEAD + 1
<1> DEFINE text == Text(first, headers, body)
           m == Len(headers)
           n == Len(body)
<1>1. Laid(text, first, headers, body) /\ Agrees(b, text) /\ Len(b) < Len(text)
  BY TextIs
<1> HIDE DEF text
<1>2. m \in Nat /\ n \in Nat /\ Len(b) \in Nat /\ Len(text) = 2 * m + 3 + n /\ MAX_HEAD \in Nat
  BY <1>1, MessagesAssumption DEF IsSequence, Laid, Agrees
<1>3. CASE Len(b) < 2 * m + 3
  <2>1. Blank(b) = {}
    BY <1>1, <1>3, BlankIsNot
  <2>2. read_request(b) = IF Len(b) > MAX_HEAD THEN Refused ELSE Nothing
    BY <2>1, Zenon DEF read_request
  <2>3. Len(b) > MAX_HEAD => 2 * m + 3 > MAX_HEAD + 1
    BY <1>2, <1>3
  <2> QED
    BY <2>2, <2>3
<1>4. CASE Len(b) >= 2 * m + 3
  <2>1. Headed(b, first, headers)
    BY <1>1, <1>4, HeadIs
  <2>2. CASE Bad(first, headers)
    BY <2>1, <2>2, HeadIsRead
  <2>3. CASE ~Bad(first, headers)
    <3>1. Length(headers) = n
      BY <2>3 DEF Bad, Honest
    <3>2. Len(b) < 2 * m + 2 + 1 + Length(headers)
      BY <1>1, <1>2, <3>1
    <3> QED
      BY <2>1, <2>3, <3>2, HeadIsRead
  <2> QED
    BY <2>2, <2>3
<1> QED
  BY <1>2, <1>3, <1>4

(***************************************************************************)
(* Whatever a client may say                                               *)
(***************************************************************************)

\* The marks of each kind of thing that is said; there always are some.
LEMMA MarksAre ==
  ASSUME NEW what, Sayable(what)
  PROVE  /\ IsSequence(Marks(what)) /\ Marks(what) # <<>>
         /\ what.is = "frame" => Marks(what) = interleave(what.channel, what.payload)
         /\ what.is = "request" => Marks(what) = Text(what.line, what.headers, what.body)
         /\ what.is \notin {"frame", "request"} => Marks(what) = <<what>>
<1>1. CASE what.is = "frame"
  <2>1. Marks(what) = interleave(what.channel, what.payload)
    BY <1>1 DEF Marks
  <2>2. IsSequence(what.payload)
    BY <1>1 DEF Sayable
  <2>3. Framed(Marks(what), what.channel, what.payload)
    BY <2>1, <2>2, FrameIs
  <2>4. IsSequence(Marks(what)) /\ Len(Marks(what)) # 0
    BY <2>2, <2>3 DEF Framed, IsSequence
  <2> QED
    BY <1>1, <2>1, <2>4
<1>2. CASE what.is = "request"
  <2>1. Marks(what) = Text(what.line, what.headers, what.body)
    BY <1>2 DEF Marks
  <2>2. IsSequence(what.headers) /\ IsSequence(what.body)
    BY <1>2 DEF Sayable
  <2>3. Laid(Marks(what), what.line, what.headers, what.body)
    BY <2>1, <2>2, TextIs
  <2>4. IsSequence(Marks(what)) /\ Marks(what) # <<>>
    BY <2>2, <2>3, LaidLength
  <2> QED
    BY <1>2, <2>1, <2>4
<1>3. CASE what.is \notin {"frame", "request"}
  <2>1. Marks(what) = <<what>>
    BY <1>3 DEF Marks
  <2>2. <<what>> \in Seq({what}) /\ <<what>> # <<>>
    OBVIOUS
  <2> QED
    BY <1>3, <2>1, <2>2, SequenceOf
<1> QED
  BY <1>1, <1>2, <1>3

\* What is faulty about a request, by its head.
LEMMA FaultyIs ==
  ASSUME NEW what, Sayable(what), what.is = "request"
  PROVE  Faulty(what) <=> \/ Bad(what.line, what.headers)
                          \/ 2 * Len(what.headers) + 3 > MAX_HEAD + 1
<1> DEFINE text == Marks(what)
<1>1. text = Text(what.line, what.headers, what.body)
  BY MarksAre
<1>2. IsSequence(what.headers) /\ IsSequence(what.body)
  BY DEF Sayable
<1>3. Laid(text, what.line, what.headers, what.body)
  BY <1>1, <1>2, TextIs
<1>4. Agrees(text, text)
  BY <1>3 DEF Agrees, Laid
<1>5. Len(what.headers) \in Nat /\ Len(what.body) \in Nat
      /\ Len(text) = 2 * Len(what.headers) + 3 + Len(what.body)
  BY <1>2, <1>3 DEF IsSequence, Laid
<1> HIDE DEF text
<1>6. Headed(text, what.line, what.headers)
  <2> DEFINE first == what.line  headers == what.headers  body == what.body
  <2>0. Len(text) >= 2 * Len(what.headers) + 3
    <3> DEFINE m == Len(what.headers)  n == Len(what.body)  k == Len(text)
    <3>1. m \in Nat /\ n \in Nat /\ k = 2 * m + 3 + n
      BY <1>5
    <3> HIDE DEF m, n, k
    <3>2. k >= 2 * m + 3
      BY <3>1
    <3> QED
      BY <3>2 DEF m, k
  <2>1. /\ IsSequence(headers) /\ IsSequence(body) /\ Laid(text, first, headers, body)
        /\ Len(text) >= 2 * Len(headers) + 3
    BY <1>2, <1>3, <2>0, Zenon
  <2> HIDE DEF first, headers, body
  <2>2. Headed(text, first, headers)
    BY <1>4, <2>1, HeadIs
  <2> QED
    BY <2>2 DEF first, headers
<1>7. Unreadable(text, Min(Blank(text))) <=> Bad(what.line, what.headers)
  BY <1>6, BadIsUnreadable
<1>8. Len(text) - Len(what.body) = 2 * Len(what.headers) + 3
  BY <1>5
<1>9. Faulty(what) <=> \/ Unreadable(text, Min(Blank(text)))
                       \/ Len(text) - Len(what.body) > MAX_HEAD + 1
  BY DEF Faulty, text
<1> QED
  BY <1>7, <1>8, <1>9

\* What is all there is taken as it was said, or refused for a fault of its own.
LEMMA WholeIsRead ==
  ASSUME NEW what, Sayable(what), NEW rest, IsSequence(rest), NEW b, b = Marks(what) \o rest
  PROVE  \/ what.is \in {"frame", "request"} /\ read(b) = Taken(what, rest)
         \/ read(b) = Refused /\ Faulty(what)
<1>0. \A x : Line(x) # DOLLAR /\ Line(x).is = "line"
  BY DEF Line, DOLLAR
<1>1. CASE what.is = "frame"
  <2>1. what = Frame(what.channel, what.payload) /\ IsSequence(what.payload)
    BY <1>1 DEF Sayable
  <2>2. b = interleave(what.channel, what.payload) \o rest
    BY <1>1, MarksAre
  <2>3. b # <<>> /\ b[1] = DOLLAR
        /\ read_interleaved(b) = Taken(Frame(what.channel, what.payload), rest)
    <3> DEFINE channel == what.channel  payload == what.payload
    <3>1. IsSequence(payload) /\ b = interleave(channel, payload) \o rest
      BY <2>1, <2>2
    <3> HIDE DEF channel, payload
    <3>2. /\ b # <<>> /\ b[1] = DOLLAR
          /\ read_interleaved(b) = Taken(Frame(channel, payload), rest)
      BY <3>1, FrameIsTaken
    <3> QED
      BY <3>2 DEF channel, payload
  <2>4. read(b) = Taken(what, rest)
    BY <2>1, <2>3, Zenon DEF read
  <2> QED
    BY <1>1, <2>4
<1>2. CASE what.is = "request"
  <2>1. what = RequestOf(what.line, what.headers, what.body)
    BY <1>2 DEF Sayable, RequestOf
  <2>2. /\ IsSequence(what.headers) /\ IsSequence(what.body)
        /\ Honest(what.headers, what.body)
    BY <1>2 DEF Sayable, Honest
  <2>3. b = Text(what.line, what.headers, what.body) \o rest
    BY <1>2, MarksAre
  <2>4. /\ b # <<>> /\ b[1] = Line(what.line)
        /\ read_request(b) = IF Bad(what.line, what.headers) THEN Refused
                             ELSE Taken(RequestOf(what.line, what.headers, what.body), rest)
    <3> DEFINE first == what.line  headers == what.headers  body == what.body
    <3>1. /\ IsSequence(headers) /\ IsSequence(body) /\ Honest(headers, body)
          /\ b = Text(first, headers, body) \o rest
      BY <2>2, <2>3
    <3> HIDE DEF first, headers, body
    <3>2. ReadsAs(b, first, headers, body, rest)
      BY <3>1, RequestIsTaken
    <3> QED
      BY <3>2, Zenon DEF first, headers, body, ReadsAs
  <2>5. read(b) = read_request(b)
    BY <1>0, <2>4 DEF read
  <2>6. Bad(what.line, what.headers) => Faulty(what)
    BY <1>2, FaultyIs
  <2>7. read(b) = Taken(what, rest) \/ (read(b) = Refused /\ Faulty(what))
    BY <2>1, <2>4, <2>5, <2>6, Zenon
  <2> QED
    BY <1>2, <2>7
<1>3. CASE what.is \notin {"frame", "request"}
  <2>1. what.is \notin {"line", "$"}
    BY <1>3 DEF Sayable
  <2>2. Faulty(what)
    BY <1>3 DEF Faulty
  <2>3. b = <<what>> \o rest
    BY <1>3, MarksAre
  <2>4. b # <<>> /\ b[1] = what
    <3>1. PICK S : <<what>> \in Seq(S) /\ rest \in Seq(S)
      <4>1. <<what>> \in Seq({what})
        OBVIOUS
      <4> QED
        BY <4>1, SequenceOf, Together
    <3>2. b \in Seq(S) /\ Joins(b, <<what>>, rest)
      BY <2>3, <3>1, JoinIs
    <3>3. Len(b) # 0
      BY <3>1, <3>2 DEF Joins
    <3> QED
      BY <3>2, <3>3 DEF Joins
  <2>5. b[1] # DOLLAR /\ b[1].is # "line"
    BY <2>1, <2>4 DEF DOLLAR
  <2>6. read(b) = Refused
    BY <2>4, <2>5, Zenon DEF read
  <2> QED
    BY <2>2, <2>6
<1> QED
  BY <1>1, <1>2, <1>3

\* What is not all there yet is left, or refused for a fault of its own.
LEMMA PartIsAwaited ==
  ASSUME NEW what, Sayable(what), NEW b, Agrees(b, Marks(what)), Len(b) < Len(Marks(what))
  PROVE  read(b) = Nothing \/ (read(b) = Refused /\ Faulty(what))
<1>0. \A x : Line(x) # DOLLAR /\ Line(x).is = "line"
  BY DEF Line, DOLLAR
<1>1. IsSequence(Marks(what)) /\ IsSequence(b)
  BY MarksAre DEF Agrees
<1>2. CASE b = <<>>
  BY <1>2 DEF read
<1>3. CASE b # <<>>
  <2>1. b[1] = Marks(what)[1]
    <3>1. 1 \in 1..Len(b) /\ 1 <= Len(Marks(what))
      BY <1>1, <1>3 DEF IsSequence
    <3> QED
      BY <3>1 DEF Agrees
  <2>2. CASE what.is = "frame"
    <3>1. Marks(what) = interleave(what.channel, what.payload) /\ IsSequence(what.payload)
      BY <2>2, MarksAre DEF Sayable
    <3>2. read_interleaved(b) = Nothing
      BY <3>1, FrameIsAwaited
    <3>3. b[1] = DOLLAR
      BY <2>1, <3>1, FrameIs DEF Framed
    <3> QED
      BY <1>3, <3>2, <3>3, Zenon DEF read
  <2>3. CASE what.is = "request"
    <3>1. /\ Marks(what) = Text(what.line, what.headers, what.body)
          /\ IsSequence(what.headers) /\ IsSequence(what.body)
          /\ Honest(what.headers, what.body)
      BY <2>3, MarksAre DEF Sayable, Honest
    <3>2. \/ read_request(b) = Nothing
          \/ /\ read_request(b) = Refused
             /\ Bad(what.line, what.headers) \/ 2 * Len(what.headers) + 3 > MAX_HEAD + 1
      BY <3>1, RequestIsAwaited
    <3>3. b[1] = Line(what.line)
      BY <2>1, <3>1, TextIs DEF Laid
    <3>4. read(b) = read_request(b)
      BY <1>0, <1>3, <3>3 DEF read
    <3> QED
      BY <2>3, <3>2, <3>4, FaultyIs
  <2>4. CASE what.is \notin {"frame", "request"}
    <3>1. Len(Marks(what)) = 1
      BY <2>4, MarksAre
    <3>2. Len(b) # 0 /\ Len(b) \in Nat
      BY <1>1, <1>3 DEF IsSequence
    <3> QED
      BY <3>1, <3>2
  <2> QED
    BY <2>2, <2>3, <2>4
<1> QED
  BY <1>2, <1>3

(***************************************************************************)
(* What is on its way                                                      *)
(***************************************************************************)

\* The marks of the parts after the k-th, up to the m-th.
Span(parts, k, m) == FlattenSeq(SubSeq(parts, k + 1, m))

\* The marks of a span of parts are marks of these parts.
LEMMA SpanTyped ==
  ASSUME NEW X, NEW parts \in Seq(Seq(X)), NEW k \in 0..Len(parts), NEW m \in k..Len(parts)
  PROVE  Span(parts, k, m) \in Seq(X)
<1>1. SubSeq(parts, k + 1, m) \in Seq(Seq(X))
  OBVIOUS
<1> QED
  BY <1>1, FlattenTyped DEF Span

\* A span of no parts has no marks.
LEMMA SpanNothing ==
  ASSUME NEW X, NEW parts \in Seq(Seq(X)), NEW k \in 0..Len(parts)
  PROVE  Span(parts, k, k) = <<>>
<1>1. SubSeq(parts, k + 1, k) = <<>>
  OBVIOUS
<1> QED
  BY <1>1, FlattenNothing DEF Span

\* The first part of them comes first, and one more part comes last.
LEMMA SpanFirst ==
  ASSUME NEW X, NEW parts \in Seq(Seq(X)), NEW k \in 0..Len(parts), NEW m \in k..Len(parts),
         k < m
  PROVE  /\ parts[k + 1] \in Seq(X)
         /\ Span(parts, k, m) = parts[k + 1] \o Span(parts, k + 1, m)
<1> DEFINE a == parts[k + 1]
           rest == SubSeq(parts, k + 2, m)
           all == SubSeq(parts, k + 1, m)
<1>1. a \in Seq(X) /\ k \in Nat /\ m \in Nat /\ m <= Len(parts)
  <2>1. k + 1 \in 1..Len(parts)
    OBVIOUS
  <2> QED
    BY <2>1
<1>2. rest \in Seq(Seq(X)) /\ all \in Seq(Seq(X)) /\ Len(rest) = m - k - 1 /\ Len(all) = m - k
  OBVIOUS
<1>3. \A i \in 1..(m - k) : all[i] = parts[k + i]
  OBVIOUS
<1>4. \A i \in 1..(m - k - 1) : rest[i] = parts[k + 1 + i]
  OBVIOUS
<1> DEFINE both == <<a>> \o rest
<1>5. /\ both \in Seq(Seq(X)) /\ Len(both) = m - k
      /\ both[1] = a /\ \A i \in 2..(m - k) : both[i] = rest[i - 1]
  <2> HIDE DEF a, rest
  <2> QED
    BY <1>1, <1>2
<1> HIDE DEF a, rest, all, both
<1>6. \A i \in 1..Len(all) : all[i] = both[i]
  <2>1. ASSUME NEW i \in 1..(m - k)  PROVE all[i] = both[i]
    <3>1. CASE i = 1
      BY <1>1, <1>3, <1>5, <3>1 DEF a
    <3>2. CASE i # 1
      <4>1. i \in 2..(m - k) /\ i - 1 \in 1..(m - k - 1) /\ k + 1 + (i - 1) = k + i
        BY <1>1, <3>2
      <4> QED
        BY <1>3, <1>4, <1>5, <4>1
    <3> QED
      BY <3>1, <3>2
  <2> QED
    BY <1>2, <2>1
<1>7. all = both
  BY <1>2, <1>5, <1>6, SeqEqual
<1>8. FlattenSeq(<<a>> \o rest) = a \o FlattenSeq(rest)
  BY <1>1, <1>2, FlattenFirst
<1>9. Span(parts, k, m) = FlattenSeq(all)
  BY DEF Span, all
<1>10. Span(parts, k + 1, m) = FlattenSeq(rest)
  <2>1. k + 1 + 1 = k + 2
    BY <1>1
  <2> QED
    BY <2>1 DEF Span, rest
<1>11. Span(parts, k, m) = a \o Span(parts, k + 1, m)
  BY <1>7, <1>8, <1>9, <1>10 DEF both
<1> QED
  BY <1>1, <1>11 DEF a

\* What a part of a sequence, and one with something added, consist of.
LEMMA SubSeqIs ==
  ASSUME NEW S, NEW s \in Seq(S), NEW k \in Nat, NEW m \in Nat, k <= m, m <= Len(s)
  PROVE  /\ SubSeq(s, k + 1, m) \in Seq(S) /\ Len(SubSeq(s, k + 1, m)) = m - k
         /\ \A i \in 1..(m - k) : SubSeq(s, k + 1, m)[i] = s[k + i]
<1>1. SubSeq(s, k + 1, m) \in Seq(S) /\ Len(SubSeq(s, k + 1, m)) = m - k
  OBVIOUS
<1>2. ASSUME NEW i \in 1..(m - k)  PROVE SubSeq(s, k + 1, m)[i] = s[k + i]
  OBVIOUS
<1> QED
  BY <1>1, <1>2

\* What a sequence with one more thing consists of.
LEMMA AppendIs ==
  ASSUME NEW S, NEW s \in Seq(S), NEW a \in S, NEW n, n = Len(s)
  PROVE  /\ Append(s, a) \in Seq(S) /\ Len(Append(s, a)) = n + 1
         /\ Append(s, a)[n + 1] = a /\ \A i \in 1..n : Append(s, a)[i] = s[i]
  OBVIOUS

\* With one more part, what ends before it is as it was, and the rest ends with it.
LEMMA SpanMore ==
  ASSUME NEW X, NEW parts \in Seq(Seq(X)), NEW a \in Seq(X), NEW k \in 0..Len(parts),
         NEW m \in k..Len(parts)
  PROVE  /\ Append(parts, a) \in Seq(Seq(X))
         /\ Span(Append(parts, a), k, m) = Span(parts, k, m)
         /\ Span(Append(parts, a), k, Len(parts) + 1) = Span(parts, k, Len(parts)) \o a
<1> DEFINE n == Len(parts)
           more == Append(parts, a)
           Y == Seq(X)
<1>0. parts \in Seq(Y) /\ a \in Y
  OBVIOUS
<1>1. n \in Nat /\ k \in Nat /\ m \in Nat /\ k <= m /\ m <= n /\ k <= n
  OBVIOUS
<1> HIDE DEF Y
<1>2. /\ more \in Seq(Y) /\ Len(more) = n + 1 /\ more[n + 1] = a
      /\ \A i \in 1..n : more[i] = parts[i]
  BY <1>0, AppendIs
<1>3. n = Len(parts)
  OBVIOUS
<1> HIDE DEF more, n
<1>4. SubSeq(more, k + 1, m) = SubSeq(parts, k + 1, m)
  <2> DEFINE u == SubSeq(more, k + 1, m)  v == SubSeq(parts, k + 1, m)
  <2>1. u \in Seq(Y) /\ Len(u) = m - k /\ \A i \in 1..(m - k) : u[i] = more[k + i]
    <3>1. m <= Len(more)
      BY <1>1, <1>2
    <3> QED
      BY <1>1, <1>2, <3>1, SubSeqIs
  <2>2. v \in Seq(Y) /\ Len(v) = m - k /\ \A i \in 1..(m - k) : v[i] = parts[k + i]
    BY <1>0, <1>1, <1>3, SubSeqIs
  <2> HIDE DEF u, v
  <2>3. \A i \in 1..(m - k) : k + i \in 1..n
    BY <1>1
  <2>4. \A i \in 1..(m - k) : u[i] = v[i]
    BY <1>2, <2>1, <2>2, <2>3
  <2>5. u = v
    BY <2>1, <2>2, <2>4, SeqEqual
  <2> QED
    BY <2>5 DEF u, v
<1>5. SubSeq(parts, k + 1, n) \in Seq(Y)
  BY <1>0, <1>1, <1>3, SubSeqIs
<1>6. SubSeq(more, k + 1, n + 1) = Append(SubSeq(parts, k + 1, n), a)
  <2> DEFINE w == SubSeq(parts, k + 1, n)  u == SubSeq(more, k + 1, n + 1)  v == Append(w, a)
             l == n - k
  <2>1. w \in Seq(Y) /\ Len(w) = n - k /\ \A i \in 1..(n - k) : w[i] = parts[k + i]
    BY <1>0, <1>1, <1>3, SubSeqIs
  <2>2. /\ u \in Seq(Y) /\ Len(u) = n + 1 - k
        /\ \A i \in 1..(n + 1 - k) : u[i] = more[k + i]
    <3>1. n + 1 \in Nat /\ k <= n + 1 /\ n + 1 <= Len(more)
      BY <1>1, <1>2
    <3> QED
      BY <1>1, <1>2, <3>1, SubSeqIs
  <2>3. l \in Nat /\ n + 1 - k = l + 1 /\ k + (l + 1) = n + 1 /\ \A i \in 1..l : k + i \in 1..n
    BY <1>1
  <2>4. l = Len(w)
    BY <2>1
  <2> HIDE DEF u, w
  <2>5. v \in Seq(Y) /\ Len(v) = l + 1 /\ v[l + 1] = a /\ \A i \in 1..l : v[i] = w[i]
    BY <1>0, <2>1, <2>4, AppendIs
  <2>6. \A i \in 1..l : w[i] = parts[k + i]
    BY <2>1
  <2>7. Len(u) = l + 1 /\ \A i \in 1..(l + 1) : u[i] = more[k + i]
    BY <2>2, <2>3
  <2> HIDE DEF v, l
  <2>8. ASSUME NEW i \in 1..(l + 1)  PROVE u[i] = v[i]
    <3>1. CASE i \in 1..l
      BY <1>2, <2>3, <2>5, <2>6, <2>7, <3>1
    <3>2. CASE i = l + 1
      BY <1>2, <2>3, <2>5, <2>7, <3>2
    <3> QED
      BY <2>3, <3>1, <3>2
  <2>9. u = v
    BY <2>2, <2>5, <2>7, <2>8, SeqEqual
  <2> QED
    BY <2>9 DEF u, v, w
<1>7. SubSeq(parts, k + 1, n) \in Seq(Seq(X))
  BY <1>5 DEF Y
<1>8. FlattenSeq(Append(SubSeq(parts, k + 1, n), a)) = FlattenSeq(SubSeq(parts, k + 1, n)) \o a
  BY <1>7, FlattenLast
<1>9. Span(more, k, m) = Span(parts, k, m)
  BY <1>4, Zenon DEF Span
<1>10. Span(more, k, n + 1) = Span(parts, k, n) \o a
  BY <1>6, <1>8, Zenon DEF Span
<1>11. more \in Seq(Seq(X))
  BY <1>2 DEF Y
<1> QED
  BY <1>9, <1>10, <1>11 DEF more, n

\* Two ways to the same sequence, and what the first has behind that of the second.
Meet(a, b, m, r) == a \o b = m \o r
GoesOn(S, a, b, m, r) == \E c \in Seq(S) : a = m \o c /\ c \o b = r

\* What begins as something whole does goes on with what comes after it.
LEMMA SplitsOff ==
  ASSUME NEW S, NEW a \in Seq(S), NEW b \in Seq(S), NEW m \in Seq(S), NEW r \in Seq(S),
         Meet(a, b, m, r), Len(a) >= Len(m)
  PROVE  GoesOn(S, a, b, m, r)
<1> USE DEF Meet, GoesOn
<1> DEFINE c == SubSeq(a, Len(m) + 1, Len(a))
           w == a \o b
<1>1. Len(a) \in Nat /\ Len(b) \in Nat /\ Len(m) \in Nat /\ Len(r) \in Nat
  OBVIOUS
<1>2. /\ c \in Seq(S) /\ Len(c) = Len(a) - Len(m)
      /\ \A i \in 1..(Len(a) - Len(m)) : c[i] = a[Len(m) + i]
  OBVIOUS
<1>3. Joins(w, a, b) /\ Joins(w, m, r)
  BY JoinIs
<1> HIDE DEF c, w
<1> DEFINE u == m \o c  v == c \o b
<1>4. u \in Seq(S) /\ Joins(u, m, c) /\ v \in Seq(S) /\ Joins(v, c, b)
  BY <1>2, JoinIs
<1> HIDE DEF u, v
<1>5. a = u
  <2>1. Len(u) = Len(a)
    BY <1>1, <1>2, <1>4 DEF Joins
  <2>2. ASSUME NEW i \in 1..Len(a)  PROVE a[i] = u[i]
    <3>1. CASE i \in 1..Len(m)
      BY <1>1, <1>3, <1>4, <3>1 DEF Joins
    <3>2. CASE i > Len(m)
      <4> DEFINE j == i - Len(m)
      <4>1. j \in 1..Len(c) /\ Len(m) + j = i /\ j \in 1..(Len(a) - Len(m))
        BY <1>1, <1>2, <3>2
      <4> HIDE DEF j
      <4>2. u[Len(m) + j] = c[j] /\ c[j] = a[Len(m) + j]
        BY <1>2, <1>4, <4>1 DEF Joins
      <4> QED
        BY <4>1, <4>2
    <3> QED
      BY <1>1, <3>1, <3>2
  <2> QED
    BY <1>4, <2>1, <2>2, SeqEqual
<1>6. v = r
  <2>1. Len(v) = Len(r)
    BY <1>1, <1>2, <1>3, <1>4 DEF Joins
  <2>2. ASSUME NEW i \in 1..Len(r)  PROVE v[i] = r[i]
    <3>1. w[Len(m) + i] = r[i]
      BY <1>3 DEF Joins
    <3>2. CASE i \in 1..Len(c)
      <4>1. v[i] = c[i] /\ c[i] = a[Len(m) + i]
        BY <1>2, <1>4, <3>2 DEF Joins
      <4>2. Len(m) + i \in 1..Len(a)
        BY <1>1, <1>2, <3>2
      <4>3. w[Len(m) + i] = a[Len(m) + i]
        BY <1>3, <4>2 DEF Joins
      <4> QED
        BY <3>1, <4>1, <4>3
    <3>3. CASE i > Len(c)
      <4> DEFINE j == i - Len(c)
      <4>1. j \in 1..Len(b) /\ Len(c) + j = i /\ Len(a) + j = Len(m) + i
        BY <1>1, <1>2, <1>4, <2>1, <3>3 DEF Joins
      <4> HIDE DEF j
      <4>2. v[Len(c) + j] = b[j] /\ w[Len(a) + j] = b[j]
        BY <1>3, <1>4, <4>1 DEF Joins
      <4> QED
        BY <3>1, <4>1, <4>2
    <3> QED
      BY <1>1, <1>2, <3>2, <3>3
  <2> QED
    BY <1>4, <2>1, <2>2, SeqEqual
<1> QED
  BY <1>2, <1>5, <1>6 DEF u, v

\* What is less than that agrees with it.
LEMMA PartAgrees ==
  ASSUME NEW S, NEW a \in Seq(S), NEW b \in Seq(S), NEW m \in Seq(S), NEW r \in Seq(S),
         a \o b = m \o r, Len(a) < Len(m)
  PROVE  Agrees(a, m)
<1> DEFINE w == a \o b
<1>1. Joins(w, a, b) /\ Joins(w, m, r)
  BY JoinIs
<1> HIDE DEF w
<1>2. \A i \in 1..Len(a) : i \in 1..Len(m)
  OBVIOUS
<1>3. \A i \in 1..Len(a) : a[i] = m[i]
  BY <1>1, <1>2 DEF Joins
<1> QED
  BY <1>3, SequenceOf DEF Agrees

\* Parts that can be told apart in what they make.
Parts(parts) ==
  IsSequence(parts) /\ \A i \in 1..Len(parts) : IsSequence(parts[i]) /\ parts[i] # <<>>

\* They are sequences of whatever all of them consist of, with one more as well.
LEMMA PartsTyped ==
  ASSUME NEW parts, Parts(parts), NEW a, IsSequence(a)
  PROVE  \E X : parts \in Seq(Seq(X)) /\ a \in Seq(X)
<1> DEFINE n == Len(parts)
           X == (UNION {ToSet(parts[i]) : i \in 1..n}) \union ToSet(a)
<1>1. parts \in Seq(ToSet(parts)) /\ n \in Nat
  BY DEF Parts, IsSequence
<1>2. ToSet(a) \subseteq X /\ \A i \in 1..n : ToSet(parts[i]) \subseteq X
  OBVIOUS
<1>3. a \in Seq(ToSet(a)) /\ \A i \in 1..n : parts[i] \in Seq(ToSet(parts[i]))
  BY DEF Parts, IsSequence
<1> HIDE DEF X
<1>4. a \in Seq(X)
  BY <1>2, <1>3, WiderSequence
<1>5. ASSUME NEW i \in 1..n  PROVE parts[i] \in Seq(X)
  BY <1>2, <1>3, WiderSequence
<1>6. parts \in Seq(Seq(X))
  <2> DEFINE Y == Seq(X)
  <2>1. \A i \in 1..Len(parts) : parts[i] \in Y
    BY <1>5
  <2> HIDE DEF Y
  <2>2. parts \in Seq(Y)
    BY <1>1, <2>1
  <2> QED
    BY <2>2 DEF Y
<1> QED
  BY <1>4, <1>6

\* What some of them make is a sequence, nothing if there are none.
LEMMA SpanIs ==
  ASSUME NEW parts, Parts(parts), NEW k \in 0..Len(parts), NEW m \in k..Len(parts)
  PROVE  IsSequence(Span(parts, k, m)) /\ Span(parts, k, k) = <<>>
<1>1. IsSequence(<<>>)
  BY DEF IsSequence
<1>2. PICK X : parts \in Seq(Seq(X))
  BY <1>1, PartsTyped
<1>3. Span(parts, k, m) \in Seq(X)
  BY <1>2, SpanTyped
<1>4. Span(parts, k, k) = <<>>
  BY <1>2, SpanNothing
<1> QED
  BY <1>3, <1>4, SequenceOf

\* The first of them comes before the rest.
LEMMA SpanBegins ==
  ASSUME NEW parts, Parts(parts), NEW k \in 0..Len(parts), NEW m \in k..Len(parts), k < m
  PROVE  /\ k + 1 \in 0..Len(parts) /\ m \in (k + 1)..Len(parts)
         /\ IsSequence(parts[k + 1]) /\ parts[k + 1] # <<>>
         /\ IsSequence(Span(parts, k + 1, m))
         /\ Span(parts, k, m) = parts[k + 1] \o Span(parts, k + 1, m)
<1>0. Len(parts) \in Nat
  BY DEF Parts, IsSequence
<1>1. k + 1 \in 0..Len(parts) /\ m \in (k + 1)..Len(parts) /\ k + 1 \in 1..Len(parts)
  BY <1>0
<1>2. IsSequence(<<>>)
  BY DEF IsSequence
<1>3. PICK X : parts \in Seq(Seq(X))
  BY <1>2, PartsTyped
<1>4. Span(parts, k, m) = parts[k + 1] \o Span(parts, k + 1, m)
  BY <1>3, SpanFirst
<1>5. IsSequence(parts[k + 1]) /\ parts[k + 1] # <<>>
  BY <1>1 DEF Parts
<1>6. IsSequence(Span(parts, k + 1, m))
  BY <1>1, SpanIs
<1> QED
  BY <1>1, <1>4, <1>5, <1>6

\* One more comes after them.
Grows(parts, a, k, m) ==
  /\ Parts(Append(parts, a)) /\ Len(Append(parts, a)) = Len(parts) + 1
  /\ Span(Append(parts, a), k, m) = Span(parts, k, m)
  /\ Span(Append(parts, a), k, Len(parts) + 1) = Span(parts, k, Len(parts)) \o a

\* A span that goes on to a new part ends with the marks of that part.
LEMMA SpanEnds ==
  ASSUME NEW parts, Parts(parts), NEW a, IsSequence(a), a # <<>>,
         NEW k \in 0..Len(parts), NEW m \in k..Len(parts)
  PROVE  Grows(parts, a, k, m)
<1> USE DEF Grows
<1> DEFINE more == Append(parts, a)
           n == Len(parts)
<1>1. PICK X : parts \in Seq(Seq(X)) /\ a \in Seq(X)
  BY PartsTyped
<1>2. more \in Seq(Seq(X)) /\ Span(more, k, m) = Span(parts, k, m)
      /\ Span(more, k, n + 1) = Span(parts, k, n) \o a
  BY <1>1, SpanMore
<1>3. n \in Nat /\ Len(more) = n + 1 /\ more[n + 1] = a /\ \A i \in 1..n : more[i] = parts[i]
  <2> DEFINE Y == Seq(X)
  <2>1. parts \in Seq(Y) /\ a \in Y /\ n \in Nat
    BY <1>1
  <2> HIDE DEF Y
  <2> QED
    BY <2>1, AppendIs
<1>4. \A i \in 1..n : IsSequence(parts[i]) /\ parts[i] # <<>>
  BY DEF Parts
<1>5. IsSequence(more)
  BY <1>2, SequenceOf
<1> HIDE DEF more, n
<1>6. \A i \in 1..Len(more) : IsSequence(more[i]) /\ more[i] # <<>>
  <2>1. ASSUME NEW i \in 1..(n + 1)  PROVE IsSequence(more[i]) /\ more[i] # <<>>
    <3>1. CASE i \in 1..n
      BY <1>3, <1>4, <3>1
    <3>2. CASE i = n + 1
      BY <1>3, <3>2
    <3> QED
      BY <1>3, <3>1, <3>2
  <2> QED
    BY <1>3, <2>1
<1> QED
  BY <1>2, <1>3, <1>5, <1>6 DEF Parts, more, n

\* Sequences put together in whatever order.
Grouped(a, b, c) ==
  /\ IsSequence(a \o b) /\ IsSequence(b \o c)
  /\ a \o (b \o c) = (a \o b) \o c /\ a \o <<>> = a /\ <<>> \o a = a

\* Of three sequences it does not matter which two are put together first.
LEMMA Associates ==
  ASSUME NEW a, NEW b, NEW c, IsSequence(a), IsSequence(b), IsSequence(c)
  PROVE  Grouped(a, b, c)
<1> USE DEF Grouped
<1> DEFINE S == ToSet(a) \union ToSet(b) \union ToSet(c)
<1>1. a \in Seq(ToSet(a)) /\ b \in Seq(ToSet(b)) /\ c \in Seq(ToSet(c))
  BY DEF IsSequence
<1>2. ToSet(a) \subseteq S /\ ToSet(b) \subseteq S /\ ToSet(c) \subseteq S
  OBVIOUS
<1> HIDE DEF S
<1>3. a \in Seq(S) /\ b \in Seq(S) /\ c \in Seq(S)
  BY <1>1, <1>2, WiderSequence
<1>4. a \o b \in Seq(S) /\ b \o c \in Seq(S)
  BY <1>3
<1>5. a \o (b \o c) = (a \o b) \o c
  BY <1>3
<1>6. a \o <<>> = a /\ <<>> \o a = a
  BY <1>3
<1> QED
  BY <1>4, <1>5, <1>6, SequenceOf

\* What is there of something whole: it and what goes on, or its beginning.
WholeOrPart(a, b, m, r) ==
  /\ Len(a) \in Nat /\ Len(m) \in Nat
  /\ Len(a) >= Len(m) => \E c : IsSequence(c) /\ a = m \o c /\ c \o b = r
  /\ Len(a) < Len(m) => Agrees(a, m)

\* Where two ways of cutting the same marks meet, what is in front is whole or a part.
LEMMA Continues ==
  ASSUME NEW a, NEW b, NEW m, NEW r, IsSequence(a), IsSequence(b), IsSequence(m), IsSequence(r),
         Meet(a, b, m, r)
  PROVE  WholeOrPart(a, b, m, r)
<1> USE DEF WholeOrPart, Meet
<1> DEFINE S == (ToSet(a) \union ToSet(b)) \union (ToSet(m) \union ToSet(r))
<1>1. /\ a \in Seq(ToSet(a)) /\ b \in Seq(ToSet(b))
      /\ m \in Seq(ToSet(m)) /\ r \in Seq(ToSet(r))
  BY DEF IsSequence
<1>2. /\ ToSet(a) \subseteq S /\ ToSet(b) \subseteq S
      /\ ToSet(m) \subseteq S /\ ToSet(r) \subseteq S
  OBVIOUS
<1> HIDE DEF S
<1>3. a \in Seq(S) /\ b \in Seq(S) /\ m \in Seq(S) /\ r \in Seq(S)
  BY <1>1, <1>2, WiderSequence
<1>4. Len(a) \in Nat /\ Len(m) \in Nat
  BY <1>3
<1>5. CASE Len(a) >= Len(m)
  <2>1. Meet(a, b, m, r)
    BY DEF Meet
  <2>2. PICK c \in Seq(S) : a = m \o c /\ c \o b = r
    <3>1. GoesOn(S, a, b, m, r)
      BY <1>3, <1>5, <2>1, SplitsOff
    <3> QED
      BY <3>1 DEF GoesOn
  <2>3. IsSequence(c)
    BY SequenceOf
  <2>4. ~(Len(a) < Len(m))
    BY <1>4, <1>5
  <2> QED
    BY <1>4, <2>2, <2>3, <2>4
<1>6. CASE Len(a) < Len(m)
  <2>1. Agrees(a, m)
    BY <1>3, <1>6, PartAgrees
  <2>2. ~(Len(a) >= Len(m))
    BY <1>4, <1>6
  <2> QED
    BY <1>4, <2>1, <2>2
<1> QED
  BY <1>4, <1>5, <1>6

(***************************************************************************)
(* Numbers                                                                 *)
(***************************************************************************)

InFront(header, headers) == <<header>> \o headers

\* A header in front of others moves each of them on by one.
LEMMA InFrontIs ==
  ASSUME NEW header, NEW headers, IsSequence(headers)
  PROVE  /\ IsSequence(InFront(header, headers))
         /\ Len(headers) \in Nat /\ Len(InFront(header, headers)) = Len(headers) + 1
         /\ InFront(header, headers)[1] = header
         /\ \A i \in 1..Len(headers) : InFront(header, headers)[i + 1] = headers[i]
<1> DEFINE S == ToSet(headers) \union {header}
           a == <<header>>
           u == a \o headers
           n == Len(headers)
<1>1. headers \in Seq(ToSet(headers)) /\ ToSet(headers) \subseteq S /\ header \in S
  BY DEF IsSequence
<1> HIDE DEF S
<1>2. headers \in Seq(S)
  BY <1>1, WiderSequence
<1>3. a \in Seq(S) /\ Len(a) = 1 /\ a[1] = header
  BY <1>1
<1> HIDE DEF a
<1>4. u \in Seq(S) /\ Joins(u, a, headers) /\ n \in Nat
  BY <1>2, <1>3, JoinIs
<1>5. InFront(header, headers) = u
  BY DEF InFront, a
<1> HIDE DEF u
<1>6. IsSequence(u)
  BY <1>4, SequenceOf
<1>7. Len(u) = n + 1 /\ u[1] = header
  BY <1>3, <1>4 DEF Joins
<1>8. ASSUME NEW i \in 1..n  PROVE u[i + 1] = headers[i]
  <2>1. u[Len(a) + i] = headers[i]
    BY <1>4 DEF Joins
  <2> QED
    BY <1>3, <1>4, <2>1
<1> QED
  BY <1>4, <1>5, <1>6, <1>7, <1>8

\* Where there is a header of a name there is a first one, and it is got.
LEMMA GetIs ==
  ASSUME NEW headers, IsSequence(headers), NEW name
  PROVE  \/ /\ \A i \in 1..Len(headers) : headers[i].name # name
            /\ Get(headers, name) = None
         \/ \E i \in 1..Len(headers) :
              /\ headers[i].name = name /\ \A j \in 1..(i - 1) : headers[j].name # name
              /\ Get(headers, name) = headers[i].value
<1> DEFINE at == {i \in DOMAIN headers : headers[i].name = name}
<1>1. Len(headers) \in Nat /\ DOMAIN headers = 1..Len(headers)
  BY DEF IsSequence
<1>2. Get(headers, name) = IF at = {} THEN None ELSE headers[Min(at)].value
  BY Zenon DEF Get
<1>3. \A i \in 1..Len(headers) : i \in at <=> headers[i].name = name
  BY <1>1
<1>4. at \subseteq 1..Len(headers)
  BY <1>1
<1> HIDE DEF at
<1>5. CASE at = {}
  <2>1. \A i \in 1..Len(headers) : headers[i].name # name
    BY <1>3, <1>5
  <2> QED
    BY <1>2, <1>5, <2>1
<1>6. CASE at # {}
  <2>1. at \in SUBSET Nat /\ at \subseteq Int
    BY <1>1, <1>4
  <2>2. PICK i \in at : \A j \in at : i <= j
    BY <1>6, <2>1, LeastNatural
  <2>3. Min(at) = i
    BY <2>1, <2>2, MinIs
  <2>4. i \in 1..Len(headers) /\ headers[i].name = name
    BY <1>3, <1>4
  <2>5. ASSUME NEW j \in 1..(i - 1)  PROVE headers[j].name # name
    <3>1. j \in 1..Len(headers) /\ ~(i <= j)
      BY <1>1, <2>4
    <3> QED
      BY <1>3, <2>2, <3>1
  <2>6. Get(headers, name) = headers[i].value
    BY <1>2, <1>6, <2>3
  <2> QED
    BY <2>4, <2>5, <2>6
<1> QED
  BY <1>5, <1>6

\* It is got if no other of its name is before it.
LEMMA GotFirst ==
  ASSUME NEW headers, IsSequence(headers), NEW name, NEW i \in 1..Len(headers),
         headers[i].name = name, \A j \in 1..(i - 1) : headers[j].name # name
  PROVE  Get(headers, name) = headers[i].value
<1>0. Len(headers) \in Nat
  BY DEF IsSequence
<1>1. PICK k \in 1..Len(headers) :
        /\ headers[k].name = name /\ \A j \in 1..(k - 1) : headers[j].name # name
        /\ Get(headers, name) = headers[k].value
  BY GetIs
<1>2. ~(k \in 1..(i - 1)) /\ ~(i \in 1..(k - 1))
  BY <1>1
<1>3. k = i
  BY <1>0, <1>2
<1> QED
  BY <1>1, <1>3

\* A number in front is got as one, and of other names what was got before.
LEMMA NumberedGet ==
  ASSUME NEW header, NEW headers, IsSequence(headers), NEW name
  PROVE  Get(InFront(header, headers), name) =
           IF header.name = name THEN header.value ELSE Get(headers, name)
<1> DEFINE more == InFront(header, headers)
           n == Len(headers)
<1>1. /\ IsSequence(more) /\ n \in Nat /\ Len(more) = n + 1 /\ more[1] = header
      /\ \A i \in 1..n : more[i + 1] = headers[i]
  BY InFrontIs
<1> HIDE DEF more
<1>2. CASE header.name = name
  <2>1. 1 \in 1..Len(more) /\ \A j \in 1..(1 - 1) : more[j].name # name
    BY <1>1
  <2>2. Get(more, name) = more[1].value
    BY <1>1, <1>2, <2>1, GotFirst
  <2> QED
    BY <1>1, <1>2, <2>2 DEF more
<1>3. CASE header.name # name
  <2>1. ASSUME \A i \in 1..n : headers[i].name # name, Get(headers, name) = None
        PROVE  Get(more, name) = None
    <3>1. ASSUME NEW j \in 1..Len(more)  PROVE more[j].name # name
      <4>1. CASE j = 1
        BY <1>1, <1>3, <4>1
      <4>2. CASE j # 1
        <5> DEFINE i == j - 1
        <5>1. i \in 1..n /\ i + 1 = j
          BY <1>1, <4>2
        <5> HIDE DEF i
        <5>2. more[i + 1] = headers[i]
          BY <1>1, <5>1
        <5> QED
          BY <2>1, <5>1, <5>2
      <4> QED
        BY <4>1, <4>2
    <3> QED
      BY <1>1, <3>1, GetIs
  <2>2. ASSUME NEW i \in 1..n, headers[i].name = name,
               \A j \in 1..(i - 1) : headers[j].name # name,
               Get(headers, name) = headers[i].value
        PROVE  Get(more, name) = Get(headers, name)
    <3> DEFINE k == i + 1
    <3>1. k \in 1..Len(more) /\ more[k] = headers[i]
      BY <1>1
    <3>2. ASSUME NEW j \in 1..(k - 1)  PROVE more[j].name # name
      <4>1. CASE j = 1
        BY <1>1, <1>3, <4>1
      <4>2. CASE j # 1
        <5> DEFINE l == j - 1
        <5>1. l \in 1..n /\ l \in 1..(i - 1) /\ l + 1 = j
          BY <1>1, <4>2
        <5> HIDE DEF l
        <5>2. more[l + 1] = headers[l]
          BY <1>1, <5>1
        <5> QED
          BY <2>2, <5>1, <5>2
      <4> QED
        BY <4>1, <4>2
    <3> HIDE DEF k
    <3>3. Get(more, name) = more[k].value
      BY <1>1, <2>2, <3>1, <3>2, GotFirst
    <3> QED
      BY <2>2, <3>1, <3>3
  <2>3. Get(more, name) = Get(headers, name)
    BY <2>1, <2>2, GetIs
  <2> QED
    BY <1>3, <2>3 DEF more
<1> QED
  BY <1>2, <1>3

\* What is said may be said with a number, and is of the same kind and line.
LEMMA NumberedIs ==
  ASSUME NEW what, Sayable(what)
  PROVE  /\ Sayable(Numbered(what)) /\ Numbered(what).is = what.is
         /\ what.is = "request" =>
              /\ Numbered(what).line = what.line
              /\ Get(Numbered(what).headers, "CSeq") = Len(said) + 1
              /\ Get(Numbered(what).headers, "Transport") = Get(what.headers, "Transport")
<1>1. CASE what.is # "request"
  BY <1>1 DEF Numbered
<1>2. CASE what.is = "request"
  <2> DEFINE number == [name |-> "CSeq", value |-> Len(said) + 1]
             old == what.headers
             new == InFront(number, old)
             it == RequestOf(what.line, new, what.body)
  <2>1. what = RequestOf(what.line, old, what.body) /\ IsSequence(old) /\ IsSequence(what.body)
        /\ (Length(old) \in 0..MAX_BODY => Length(old) = Len(what.body))
    BY <1>2 DEF Sayable, RequestOf
  <2>2. Numbered(what) = [what EXCEPT !.headers = new]
    BY <1>2 DEF Numbered, InFront
  <2>3. Numbered(what) = it
    <3> HIDE DEF new
    <3> QED
      BY <2>1, <2>2 DEF RequestOf
  <2>4. IsSequence(new)
    BY <2>1, InFrontIs
  <2>5. number.name = "CSeq" /\ number.value = Len(said) + 1
    OBVIOUS
  <2> HIDE DEF number, new
  <2>6. Get(new, "CSeq") = Len(said) + 1 /\ Get(new, "Transport") = Get(old, "Transport")
        /\ Get(new, "Content-Length") = Get(old, "Content-Length")
    BY <2>1, <2>5, NumberedGet DEF new
  <2>7. Length(new) = Length(old)
    BY <2>6, Zenon DEF Length
  <2>8. it.is = "request" /\ it.line = what.line /\ it.headers = new /\ it.body = what.body
        /\ it = [is |-> "request", line |-> it.line, headers |-> it.headers, body |-> it.body]
    BY DEF RequestOf
  <2>9. Length(new) \in 0..MAX_BODY => Length(new) = Len(what.body)
    BY <2>1, <2>7
  <2> HIDE DEF it, old
  <2>10. Sayable(it)
    BY <2>1, <2>4, <2>8, <2>9 DEF Sayable
  <2> QED
    BY <1>2, <2>3, <2>6, <2>8, <2>10 DEF old
<1> QED
  BY <1>1, <1>2

\* So may the requests that follow what the client was told.
LEMMA RequestsAreSayable ==
  ASSUME NEW method, NEW uri, NEW header
  PROVE  /\ Sayable(Request(method, uri, <<>>))
         /\ Sayable(Request(method, uri, <<[name |-> "Transport", value |-> header]>>))
         /\ Get(<<[name |-> "Transport", value |-> header]>>, "Transport") = header
<1>1. ASSUME NEW headers, IsSequence(headers), Get(headers, "Content-Length") = None
      PROVE  Sayable(Request(method, uri, headers))
  <2> DEFINE it == Request(method, uri, headers)
  <2>1. it.is = "request" /\ it.headers = headers /\ it.body = <<>>
        /\ it = [is |-> "request", line |-> it.line, headers |-> it.headers, body |-> it.body]
    BY DEF Request
  <2>2. Length(headers) = 0
    BY <1>1 DEF Length
  <2>3. IsSequence(<<>>) /\ Len(<<>>) = 0
    BY DEF IsSequence
  <2> HIDE DEF it
  <2>4. Sayable(it)
    BY <1>1, <2>1, <2>2, <2>3 DEF Sayable
  <2> QED
    BY <2>4 DEF it
<1>2. IsSequence(<<>>) /\ Get(<<>>, "Content-Length") = None
  BY DEF IsSequence, Get
<1> DEFINE first == [name |-> "Transport", value |-> header]
           one == <<first>>
<1>3. IsSequence(one) /\ Len(one) = 1 /\ one[1].name = "Transport" /\ one[1].value = header
  <2>1. first.name = "Transport" /\ first.value = header
    OBVIOUS
  <2> HIDE DEF first
  <2>2. one \in Seq({first}) /\ Len(one) = 1 /\ one[1] = first
    OBVIOUS
  <2> QED
    BY <2>1, <2>2, SequenceOf
<1> HIDE DEF one
<1>4. Get(one, "Transport") = header
  <2>1. 1 \in 1..Len(one) /\ \A j \in 1..(1 - 1) : one[j].name # "Transport"
    BY <1>3
  <2> QED
    BY <1>3, <2>1, GotFirst
<1>5. Get(one, "Content-Length") = None
  <2>1. \A i \in 1..Len(one) : one[i].name # "Content-Length"
    BY <1>3
  <2> QED
    BY <1>3, <2>1, GetIs
<1> QED
  BY <1>1, <1>2, <1>3, <1>4, <1>5 DEF one

(***************************************************************************)
(* What the server takes                                                   *)
(***************************************************************************)

\* A sequence that has one more than another, and is the same before it.
LEMMA AppendOf ==
  ASSUME NEW u, NEW v, IsSequence(u), IsSequence(v), Len(v) = Len(u) + 1,
         \A i \in 1..Len(u) : v[i] = u[i]
  PROVE  v = Append(u, v[Len(u) + 1])
<1> DEFINE n == Len(u)
           a == v[n + 1]
           x == Append(u, a)
<1>1. n \in Nat
  BY DEF IsSequence
<1>2. PICK S : u \in Seq(S) /\ v \in Seq(S)
  BY Together
<1>3. a \in S
  BY <1>1, <1>2
<1> HIDE DEF a
<1>4. x \in Seq(S) /\ Len(x) = n + 1 /\ x[n + 1] = a /\ \A i \in 1..n : x[i] = u[i]
  BY <1>2, <1>3, AppendIs
<1> HIDE DEF x
<1>5. ASSUME NEW i \in 1..(n + 1)  PROVE v[i] = x[i]
  <2>1. CASE i \in 1..n
    BY <1>4, <2>1
  <2>2. CASE i = n + 1
    BY <1>4, <2>2 DEF a
  <2> QED
    BY <1>1, <2>1, <2>2
<1>6. v = x
  BY <1>2, <1>4, <1>5, SeqEqual
<1> QED
  BY <1>6 DEF x, a

\* The marks of each thing that was said.
Spoken(s) == [i \in 1..Len(s) |-> Marks(s[i])]

AllSayable(s) == IsSequence(s) /\ \A i \in 1..Len(s) : Sayable(s[i])

\* The marks of everything said are parts, one for each thing that was said.
LEMMA SpokenIs ==
  ASSUME NEW s, AllSayable(s)
  PROVE  /\ Len(s) \in Nat /\ Parts(Spoken(s)) /\ Len(Spoken(s)) = Len(s)
         /\ \A i \in 1..Len(s) : Spoken(s)[i] = Marks(s[i])
<1> DEFINE n == Len(s)
           u == Spoken(s)
<1>1. n \in Nat
  BY DEF AllSayable, IsSequence
<1>2. \A i \in 1..n : u[i] = Marks(s[i])
  BY Zenon DEF Spoken
<1>3. u = [i \in 1..n |-> u[i]]
  BY Zenon DEF Spoken
<1>4. \A i \in 1..n : IsSequence(Marks(s[i])) /\ Marks(s[i]) # <<>>
  BY MarksAre DEF AllSayable
<1> DEFINE S == {u[i] : i \in 1..n}
<1>5. \A i \in 1..n : u[i] \in S
  OBVIOUS
<1> HIDE DEF u, S
<1>6. u \in Seq(S) /\ Len(u) = n
  BY <1>1, <1>3, <1>5
<1>7. Parts(u)
  BY <1>2, <1>4, <1>6, SequenceOf DEF Parts
<1> QED
  BY <1>1, <1>2, <1>6, <1>7 DEF u

\* One more thing that is said is one more part.
LEMMA SpokenMore ==
  ASSUME NEW s, AllSayable(s), NEW w, Sayable(w)
  PROVE  /\ AllSayable(Append(s, w)) /\ Len(Append(s, w)) = Len(s) + 1
         /\ Append(s, w)[Len(s) + 1] = w
         /\ \A i \in 1..Len(s) : Append(s, w)[i] = s[i]
         /\ Spoken(Append(s, w)) = Append(Spoken(s), Marks(w))
<1> DEFINE n == Len(s)
           S == ToSet(s) \union {w}
           more == Append(s, w)
           u == Spoken(s)
           v == Spoken(more)
<1>1. n \in Nat /\ s \in Seq(ToSet(s))
  BY DEF AllSayable, IsSequence
<1>2. ToSet(s) \subseteq S /\ w \in S
  OBVIOUS
<1> HIDE DEF S
<1>3. s \in Seq(S)
  BY <1>1, <1>2, WiderSequence
<1>4. /\ more \in Seq(S) /\ Len(more) = n + 1 /\ more[n + 1] = w
      /\ \A i \in 1..n : more[i] = s[i]
  BY <1>2, <1>3, AppendIs
<1> HIDE DEF more
<1>5. \A i \in 1..n : Sayable(s[i])
  BY DEF AllSayable
<1>6. ASSUME NEW i \in 1..(n + 1)  PROVE Sayable(more[i])
  <2>1. CASE i \in 1..n
    BY <1>4, <1>5, <2>1
  <2>2. CASE i = n + 1
    BY <1>4, <2>2
  <2> QED
    BY <1>1, <2>1, <2>2
<1>7. AllSayable(more)
  BY <1>4, <1>6, SequenceOf DEF AllSayable
<1>8. Parts(u) /\ Len(u) = n /\ \A i \in 1..n : u[i] = Marks(s[i])
  BY SpokenIs
<1>9. Parts(v) /\ Len(v) = n + 1 /\ \A i \in 1..(n + 1) : v[i] = Marks(more[i])
  BY <1>4, <1>7, SpokenIs
<1> HIDE DEF u, v
<1>10. IsSequence(u) /\ IsSequence(v) /\ Len(v) = Len(u) + 1
  BY <1>8, <1>9 DEF Parts
<1>11. \A i \in 1..Len(u) : v[i] = u[i]
  BY <1>1, <1>4, <1>8, <1>9
<1>12. v = Append(u, v[Len(u) + 1])
  BY <1>10, <1>11, AppendOf
<1>13. v[Len(u) + 1] = Marks(w)
  BY <1>1, <1>4, <1>8, <1>9
<1> QED
  BY <1>4, <1>7, <1>12, <1>13 DEF more, u, v

\* What there is to read of what was said, k things of which were taken: all of
\* them, one that is to be refused, the beginning of one, or one.
WireReads(s, k, b, t) ==
  \/ k = Len(s) /\ b = <<>> /\ t = <<>> /\ read(b) = Nothing
  \/ k < Len(s) /\ read(b) = Refused /\ Faulty(s[k + 1])
  \/ k < Len(s) /\ read(b) = Nothing /\ t # <<>>
  \/ /\ k < Len(s) /\ s[k + 1].is \in {"frame", "request"}
     /\ \E c : /\ IsSequence(c) /\ read(b) = Taken(s[k + 1], c)
               /\ c \o t = Span(Spoken(s), k + 1, Len(s))

\* Whatever of what is on the wire has arrived, read() takes the next thing that was
\* said, waits for the rest of it, or refuses it with a reason.
LEMMA WireIsRead ==
  ASSUME NEW s, AllSayable(s), NEW k \in 0..Len(s), NEW b, NEW t, IsSequence(b), IsSequence(t),
         b \o t = Span(Spoken(s), k, Len(s))
  PROVE  WireReads(s, k, b, t)
<1> DEFINE n == Len(s)
           parts == Spoken(s)
<1>1. n \in Nat /\ Parts(parts) /\ Len(parts) = n
      /\ \A i \in 1..n : parts[i] = Marks(s[i])
  BY SpokenIs
<1>2. b \o t = Span(parts, k, n)
  OBVIOUS
<1> HIDE DEF parts
<1>3. Len(b) \in Nat /\ Len(t) \in Nat /\ Len(b \o t) = Len(b) + Len(t)
  <2>1. PICK S : b \in Seq(S) /\ t \in Seq(S)
    BY Together
  <2> QED
    BY <2>1
<1>4. CASE k = n
  <2>1. Span(parts, n, n) = <<>>
    BY <1>1, SpanIs
  <2>2. Len(b) = 0 /\ Len(t) = 0
    BY <1>2, <1>3, <1>4, <2>1
  <2>3. b = <<>> /\ t = <<>>
    BY <2>2 DEF IsSequence
  <2>4. read(b) = Nothing
    BY <2>3 DEF read
  <2> QED
    BY <1>4, <2>3, <2>4 DEF WireReads
<1>5. CASE k # n
  <2> DEFINE w == s[k + 1]
             m == Marks(w)
             rest == Span(parts, k + 1, n)
  <2>1. k < n /\ k + 1 \in 1..n /\ k \in 0..Len(parts) /\ n \in k..Len(parts)
    BY <1>1, <1>5
  <2>2. IsSequence(parts[k + 1]) /\ IsSequence(rest) /\ Span(parts, k, n) = parts[k + 1] \o rest
    BY <1>1, <2>1, SpanBegins
  <2>3. parts[k + 1] = m
    BY <1>1, <2>1
  <2>4. Sayable(w)
    BY <2>1 DEF AllSayable
  <2>5. IsSequence(m)
    BY <2>2, <2>3
  <2> HIDE DEF w, m, rest
  <2>6. b \o t = m \o rest
    BY <1>2, <2>2, <2>3
  <2>7. /\ Len(m) \in Nat
        /\ Len(b) >= Len(m) => \E c : IsSequence(c) /\ b = m \o c /\ c \o t = rest
        /\ Len(b) < Len(m) => Agrees(b, m)
    <3>1. Meet(b, t, m, rest)
      BY <2>6 DEF Meet
    <3>2. WholeOrPart(b, t, m, rest)
      BY <2>2, <2>5, <3>1, Continues
    <3> QED
      BY <3>2, Zenon DEF WholeOrPart
  <2>8. CASE Len(b) >= Len(m)
    <3>1. PICK c : IsSequence(c) /\ b = m \o c /\ c \o t = rest
      BY <2>7, <2>8
    <3>2. \/ w.is \in {"frame", "request"} /\ read(b) = Taken(w, c)
          \/ read(b) = Refused /\ Faulty(w)
      BY <2>4, <3>1, WholeIsRead DEF m
    <3>3. CASE w.is \in {"frame", "request"} /\ read(b) = Taken(w, c)
      BY <2>1, <3>1, <3>3, Zenon DEF WireReads, w, rest, parts
    <3>4. CASE read(b) = Refused /\ Faulty(w)
      BY <2>1, <3>4 DEF WireReads, w
    <3> QED
      BY <3>2, <3>3, <3>4
  <2>9. CASE Len(b) < Len(m)
    <3>1. read(b) = Nothing \/ (read(b) = Refused /\ Faulty(w))
      BY <2>4, <2>7, <2>9, PartIsAwaited DEF m
    <3>2. t # <<>>
      <4>1. SUFFICES ASSUME t = <<>>  PROVE FALSE
        OBVIOUS
      <4>2. Len(b \o t) = Len(b)
        BY <1>3, <4>1
      <4>3. Len(m \o rest) = Len(m) + Len(rest) /\ Len(rest) \in Nat
        <5>1. PICK S : m \in Seq(S) /\ rest \in Seq(S)
          BY <2>2, <2>5, Together
        <5> QED
          BY <5>1
      <4> QED
        BY <1>3, <2>6, <2>7, <2>9, <4>2, <4>3
    <3> QED
      BY <2>1, <3>1, <3>2 DEF WireReads, w
  <2> QED
    BY <1>3, <2>7, <2>8, <2>9
<1> QED
  BY <1>4, <1>5

\* A sequence and what it is the beginning of.
Begins(s, t) ==
  IsSequence(s) /\ IsSequence(t) /\ Len(s) <= Len(t) /\ \A i \in 1..Len(s) : s[i] = t[i]

\* A beginning is a prefix, and no longer than the whole.
LEMMA BeginsIsPrefix ==
  ASSUME NEW s, NEW t, Begins(s, t)
  PROVE  IsPrefix(s, t) /\ Len(s) \in Nat /\ Len(t) \in Nat
<1> DEFINE n == Len(s)
           u == SubSeq(s, 1, n)
           v == SubSeq(t, 1, n)
<1>1. PICK S : s \in Seq(S) /\ t \in Seq(S)
  BY Together DEF Begins
<1>2. n \in Nat /\ Len(t) \in Nat /\ n <= Len(t) /\ \A i \in 1..n : s[i] = t[i]
  BY <1>1 DEF Begins
<1>3. u \in Seq(S) /\ Len(u) = n /\ \A i \in 1..n : u[i] = s[i]
  BY <1>1, <1>2
<1>4. v \in Seq(S) /\ Len(v) = n /\ \A i \in 1..n : v[i] = t[i]
  BY <1>1, <1>2
<1> HIDE DEF u, v
<1>5. u = v
  BY <1>2, <1>3, <1>4, SeqEqual
<1> QED
  BY <1>2, <1>5 DEF IsPrefix, u, v

\* A sequence with something added to it.
LEMMA SequenceMore ==
  ASSUME NEW s, IsSequence(s), NEW w
  PROVE  /\ IsSequence(Append(s, w)) /\ Len(s) \in Nat /\ Len(Append(s, w)) = Len(s) + 1
         /\ Append(s, w)[Len(s) + 1] = w /\ \A i \in 1..Len(s) : Append(s, w)[i] = s[i]
<1> DEFINE S == ToSet(s) \union {w}
<1>1. s \in Seq(ToSet(s)) /\ ToSet(s) \subseteq S /\ w \in S
  BY DEF IsSequence
<1> HIDE DEF S
<1>2. s \in Seq(S)
  BY <1>1, WiderSequence
<1>3. /\ Append(s, w) \in Seq(S) /\ Len(Append(s, w)) = Len(s) + 1
      /\ Append(s, w)[Len(s) + 1] = w /\ \A i \in 1..Len(s) : Append(s, w)[i] = s[i]
  BY <1>1, <1>2, AppendIs
<1>4. Len(s) \in Nat
  BY <1>2
<1> QED
  BY <1>3, <1>4, SequenceOf

\* It remains the beginning when the other grows, and when it takes over what is next.
LEMMA BeginsMore ==
  ASSUME NEW s, NEW t, Begins(s, t), NEW w
  PROVE  Begins(s, Append(t, w))
<1>1. /\ IsSequence(Append(t, w)) /\ Len(t) \in Nat /\ Len(Append(t, w)) = Len(t) + 1
      /\ \A i \in 1..Len(t) : Append(t, w)[i] = t[i]
  BY SequenceMore DEF Begins
<1>2. Len(s) \in Nat /\ Len(s) <= Len(t)
  BY DEF Begins, IsSequence
<1>3. \A i \in 1..Len(s) : i \in 1..Len(t)
  BY <1>1, <1>2
<1> QED
  BY <1>1, <1>2, <1>3 DEF Begins

\* A beginning with what comes next is a beginning.
LEMMA BeginsNext ==
  ASSUME NEW s, NEW t, Begins(s, t), Len(s) < Len(t)
  PROVE  /\ Begins(Append(s, t[Len(s) + 1]), t)
         /\ Len(Append(s, t[Len(s) + 1])) = Len(s) + 1 /\ Len(s) \in Nat
<1> DEFINE n == Len(s)
           w == t[n + 1]
           u == Append(s, w)
<1>1. /\ IsSequence(u) /\ n \in Nat /\ Len(u) = n + 1 /\ u[n + 1] = w
      /\ \A i \in 1..n : u[i] = s[i]
  BY SequenceMore DEF Begins
<1>2. Len(t) \in Nat /\ IsSequence(t) /\ \A i \in 1..n : s[i] = t[i]
  BY DEF Begins, IsSequence
<1> HIDE DEF u
<1>3. ASSUME NEW i \in 1..(n + 1)  PROVE u[i] = t[i]
  <2>1. CASE i \in 1..n
    BY <1>1, <1>2, <2>1
  <2>2. CASE i = n + 1
    BY <1>1, <2>2
  <2> QED
    BY <1>1, <2>1, <2>2
<1>4. n + 1 <= Len(t)
  BY <1>1, <1>2
<1> QED
  BY <1>1, <1>2, <1>3, <1>4 DEF Begins, u

\* Everything that is said can be, and a request says where it stands.
SaidOK ==
  /\ AllSayable(said)
  /\ \A k \in 1..Len(said) : said[k].is = "request" => Get(said[k].headers, "CSeq") = k

\* What is in the buffer and on its way is the marks of what was not taken yet.
SentOK ==
  pc # "closed" =>
    /\ IsSequence(buf) /\ IsSequence(sent)
    /\ buf \o sent = Span(Spoken(said), Len(taken), Len(said))

WaitOK ==
  /\ pc = "waiting" => read(buf) = Nothing
  /\ pc \in {"waiting", "closed"} => out = <<>>

\* A TEARDOWN is the last thing that is taken.
LeavingOK ==
  /\ pc = "leaving" => Left
  /\ \A i \in 1..Len(taken) :
       IsTeardown(taken[i]) => i = Len(taken) /\ pc \in {"leaving", "closed"}

ClosedOK ==
  pc = "closed" => Left \/ (Len(taken) < Len(said) /\ Faulty(said[Len(taken) + 1]))

Taking ==
  /\ pc \in {"waiting", "handling", "leaving", "closed"}
  /\ SaidOK /\ Begins(taken, said) /\ SentOK /\ WaitOK /\ LeavingOK /\ ClosedOK

\* At the start nothing was said, sent or taken.
LEMMA TakingFirst == Init => Taking
<1> SUFFICES ASSUME Init  PROVE Taking
  OBVIOUS
<1>1. IsSequence(<<>>) /\ Len(<<>>) = 0 /\ <<>> \o <<>> = <<>>
  BY DEF IsSequence
<1>2. /\ said = <<>> /\ taken = <<>> /\ sent = <<>> /\ buf = <<>> /\ pc = "waiting"
      /\ out = <<>>
  BY DEF Init
<1>3. AllSayable(said) /\ Len(said) = 0
  BY <1>1, <1>2 DEF AllSayable
<1>4. SaidOK /\ Begins(taken, said) /\ LeavingOK /\ ClosedOK
  BY <1>1, <1>2, <1>3 DEF SaidOK, Begins, LeavingOK, ClosedOK
<1>5. Parts(Spoken(said)) /\ Len(Spoken(said)) = 0
  BY <1>3, SpokenIs
<1>6. Span(Spoken(said), 0, 0) = <<>>
  BY <1>5, SpanIs
<1>7. SentOK
  BY <1>1, <1>2, <1>6 DEF SentOK
<1>8. WaitOK
  BY <1>2 DEF WaitOK, read
<1> QED
  BY <1>2, <1>4, <1>7, <1>8 DEF Taking

\* Nothing ends the session while the server reads.
LEMMA NotLeft ==
  ASSUME Taking, pc \in {"waiting", "handling"}
  PROVE  ~Left
<1> SUFFICES ASSUME Left  PROVE FALSE
  OBVIOUS
<1>1. IsSequence(taken) /\ taken # <<>>
  BY DEF Taking, Begins, Left
<1>2. Len(taken) \in 1..Len(taken)
  BY <1>1 DEF IsSequence
<1>3. IsTeardown(taken[Len(taken)])
  BY DEF Left, Last
<1>4. pc \in {"leaving", "closed"}
  BY <1>2, <1>3 DEF Taking, LeavingOK
<1> QED
  BY <1>4

\* What there is to read while the connection is open.
LEMMA OpenReads ==
  ASSUME Taking, pc # "closed"
  PROVE  WireReads(said, Len(taken), buf, sent) /\ Len(taken) \in 0..Len(said)
<1>1. AllSayable(said) /\ Begins(taken, said)
  BY DEF Taking, SaidOK
<1>2. Len(taken) \in 0..Len(said)
  BY <1>1, BeginsIsPrefix DEF Begins
<1>3. /\ IsSequence(buf) /\ IsSequence(sent)
      /\ buf \o sent = Span(Spoken(said), Len(taken), Len(said))
  BY DEF Taking, SentOK
<1> QED
  BY <1>1, <1>2, <1>3, WireIsRead

\* What the client says joins what is on its way.
LEMMA TakingSays ==
  ASSUME Taking, NEW what, Sayable(what), Says(what)
  PROVE  Taking'
<1> DEFINE w == Numbered(what)
           n == Len(said)
           k == Len(taken)
           a == Marks(w)
           parts == Spoken(said)
<1>1. /\ pc # "closed" /\ said' = Append(said, w) /\ sent' = sent \o a
      /\ UNCHANGED <<pc, buf, out, taken>>
  BY DEF Says
<1>2. Sayable(w) /\ w.is = what.is /\ (w.is = "request" => Get(w.headers, "CSeq") = n + 1)
  BY NumberedIs
<1>3. AllSayable(said) /\ Begins(taken, said) /\ n \in Nat
  BY SpokenIs DEF Taking, SaidOK
<1>4. /\ IsSequence(buf) /\ IsSequence(sent) /\ buf \o sent = Span(parts, k, n)
  BY <1>1 DEF Taking, SentOK
<1> HIDE DEF w
<1>5. /\ AllSayable(said') /\ Len(said') = n + 1 /\ said'[n + 1] = w
      /\ \A i \in 1..n : said'[i] = said[i]
      /\ Spoken(said') = Append(parts, a)
  BY <1>1, <1>2, <1>3, SpokenMore
<1>6. Begins(taken, said')
  BY <1>1, <1>3, BeginsMore
<1>7. SaidOK'
  <2>1. ASSUME NEW i \in 1..(n + 1), said'[i].is = "request"
        PROVE  Get(said'[i].headers, "CSeq") = i
    <3>1. CASE i \in 1..n
      BY <1>5, <2>1, <3>1 DEF Taking, SaidOK
    <3>2. CASE i = n + 1
      BY <1>2, <1>5, <2>1, <3>2
    <3> QED
      BY <1>3, <3>1, <3>2
  <2> QED
    BY <1>5, <2>1 DEF SaidOK
<1>8. IsSequence(a) /\ a # <<>>
  BY <1>2, MarksAre
<1>9. Parts(parts) /\ Len(parts) = n
  BY <1>3, SpokenIs
<1>10. k \in 0..n
  BY <1>3, BeginsIsPrefix DEF Begins
<1> HIDE DEF parts, a
<1>11. Span(Append(parts, a), k, n + 1) = Span(parts, k, n) \o a
  <2>1. n \in k..n
    BY <1>3, <1>10
  <2>2. Grows(parts, a, k, n)
    BY <1>8, <1>9, <1>10, <2>1, SpanEnds
  <2> QED
    BY <1>9, <2>2 DEF Grows
<1>12. IsSequence(sent \o a) /\ buf \o (sent \o a) = (buf \o sent) \o a
  <2>1. Grouped(buf, sent, a)
    BY <1>4, <1>8, Associates
  <2> QED
    BY <2>1, Zenon DEF Grouped
<1>13. SentOK'
  BY <1>1, <1>4, <1>5, <1>11, <1>12 DEF SentOK
<1>14. WaitOK' /\ LeavingOK' /\ ClosedOK'
  BY <1>1 DEF Taking, WaitOK, LeavingOK, ClosedOK, Left
<1> QED
  BY <1>1, <1>6, <1>7, <1>13, <1>14 DEF Taking

\* However much of it arrives, it is the same.
LEMMA TakingArrive ==
  ASSUME Taking, NEW n \in 1..Len(sent), Arrive(n)
  PROVE  Taking'
<1>1. /\ pc = "waiting" /\ pc' = "handling" /\ buf' = buf \o SubSeq(sent, 1, n)
      /\ sent' = SubSeq(sent, n + 1, Len(sent)) /\ UNCHANGED <<said, out, taken>>
  BY DEF Arrive, client
<1>2. /\ IsSequence(buf) /\ IsSequence(sent)
      /\ buf \o sent = Span(Spoken(said), Len(taken), Len(said))
  BY <1>1 DEF Taking, SentOK
<1> DEFINE a == SubSeq(sent, 1, n)
           b == SubSeq(sent, n + 1, Len(sent))
           u == a \o b
<1>3. IsSequence(a) /\ IsSequence(b) /\ a \o b = sent
  <2> DEFINE S == ToSet(sent)
             l == Len(sent)
  <2>1. sent \in Seq(S) /\ l \in Nat /\ n \in Nat /\ n <= l
    BY <1>2 DEF IsSequence
  <2> HIDE DEF S
  <2>2. a \in Seq(S) /\ Len(a) = n /\ \A i \in 1..n : a[i] = sent[i]
    BY <2>1
  <2>3. b \in Seq(S) /\ Len(b) = l - n /\ \A i \in 1..(l - n) : b[i] = sent[n + i]
    BY <2>1, SubSeqIs
  <2> HIDE DEF a, b
  <2>4. u \in Seq(S) /\ Joins(u, a, b)
    BY <2>2, <2>3, JoinIs
  <2> HIDE DEF u
  <2>5. Len(u) = l
    BY <2>1, <2>2, <2>3, <2>4 DEF Joins
  <2>6. ASSUME NEW i \in 1..l  PROVE u[i] = sent[i]
    <3>1. CASE i <= n
      <4>1. i \in 1..n
        BY <3>1
      <4> QED
        BY <2>2, <2>4, <4>1 DEF Joins
    <3>2. CASE n < i
      <4> DEFINE j == i - n
      <4>1. j \in 1..(l - n) /\ n + j = i
        BY <2>1, <3>2
      <4> HIDE DEF j
      <4>2. u[n + j] = b[j] /\ b[j] = sent[n + j]
        BY <2>2, <2>3, <2>4, <4>1 DEF Joins
      <4> QED
        BY <4>1, <4>2
    <3> QED
      BY <2>1, <3>1, <3>2
  <2>7. u = sent
    BY <2>1, <2>4, <2>5, <2>6, SeqEqual
  <2> QED
    BY <2>2, <2>3, <2>7, SequenceOf DEF u
<1> HIDE DEF a, b
<1>4. IsSequence(buf \o a) /\ buf \o (a \o b) = (buf \o a) \o b
  <2>1. Grouped(buf, a, b)
    BY <1>2, <1>3, Associates
  <2> QED
    BY <2>1, Zenon DEF Grouped
<1>5. buf' = buf \o a /\ sent' = b
  BY <1>1 DEF a, b
<1>6. SentOK'
  BY <1>1, <1>2, <1>3, <1>4, <1>5 DEF SentOK
<1>7. pc' = "handling" /\ SaidOK' /\ Begins(taken, said)'
  BY <1>1 DEF Taking, SaidOK
<1>8. LeavingOK'
  BY <1>1 DEF Taking, LeavingOK
<1> QED
  BY <1>6, <1>7, <1>8 DEF Taking, WaitOK, ClosedOK

\* What becomes of what is taken.
Handled(what) ==
  IF what.is = "frame" THEN UNCHANGED <<out, session, given>>
  ELSE IF what.line.method = "DESCRIBE" THEN Describe(what)
  ELSE IF what.line.method = "SETUP" THEN Setup(what)
  ELSE Other(what)

\* What is taken is what comes next of what was said.
TakesNext ==
  /\ Len(taken) < Len(said) /\ taken' = Append(taken, said[Len(taken) + 1])
  /\ IsSequence(buf') /\ buf' \o sent = Span(Spoken(said), Len(taken) + 1, Len(said))
  /\ UNCHANGED <<client, sent, back>> /\ pc = "handling"
  /\ pc' = IF IsTeardown(said[Len(taken) + 1]) THEN "leaving" ELSE pc
  /\ said[Len(taken) + 1].is \in {"frame", "request"} /\ Handled(said[Len(taken) + 1])

\* Take takes what comes next of what was said, and handles it.
LEMMA TakeIs ==
  ASSUME Taking, Take
  PROVE  TakesNext
<1> DEFINE k == Len(taken)
           w == said[k + 1]
           r == read(buf)
<1>1. /\ pc = "handling" /\ r.is = "taken" /\ buf' = r.rest /\ taken' = Append(taken, r.what)
      /\ Handled(r.what) /\ UNCHANGED <<client, sent, back>>
      /\ pc' = IF IsTeardown(r.what) THEN "leaving" ELSE pc
  BY Zenon DEF Take, Handled
<1>2. WireReads(said, k, buf, sent)
  BY <1>1, OpenReads
<1>3. Nothing.is # "taken" /\ Refused.is # "taken"
  BY DEF Nothing, Refused
<1> HIDE DEF r, k
<1>4. r # Nothing /\ r # Refused
  BY <1>1, <1>3
<1>5. r = read(buf)
  BY DEF r
<1>6. /\ k < Len(said) /\ w.is \in {"frame", "request"}
      /\ \E c : /\ IsSequence(c) /\ r = Taken(w, c)
                /\ c \o sent = Span(Spoken(said), k + 1, Len(said))
  BY <1>2, <1>4, <1>5, Zenon DEF WireReads
<1>7. PICK c : /\ IsSequence(c) /\ r = Taken(w, c)
               /\ c \o sent = Span(Spoken(said), k + 1, Len(said))
  BY <1>6
<1>8. r.what = w /\ r.rest = c
  BY <1>7 DEF Taken
<1>9. /\ taken' = Append(taken, w) /\ buf' = c /\ Handled(w)
      /\ pc' = IF IsTeardown(w) THEN "leaving" ELSE pc
  BY <1>1, <1>8
<1> QED
  BY <1>1, <1>6, <1>7, <1>9, Zenon DEF TakesNext, k

\* What is taken leaves the marks of what comes after it.
LEMMA TakingTake ==
  ASSUME Taking, Take
  PROVE  Taking'
<1> DEFINE k == Len(taken)
           w == said[k + 1]
<1>1. /\ k < Len(said) /\ taken' = Append(taken, w)
      /\ IsSequence(buf') /\ buf' \o sent = Span(Spoken(said), k + 1, Len(said))
      /\ UNCHANGED <<client, sent, back>> /\ pc = "handling"
      /\ pc' = IF IsTeardown(w) THEN "leaving" ELSE pc
  BY TakeIs, Zenon DEF TakesNext
<1>2. /\ said' = said /\ sent' = sent /\ pc' \in {"handling", "leaving"}
      /\ IsTeardown(w) <=> pc' = "leaving"
  BY <1>1 DEF client
<1>3. Begins(taken, said)
  BY DEF Taking
<1>4. Begins(taken', said) /\ Len(taken') = k + 1
  BY <1>1, <1>3, BeginsNext
<1>5. IsSequence(sent)
  BY <1>1 DEF Taking, SentOK
<1>6. SentOK'
  BY <1>1, <1>2, <1>4, <1>5, Zenon DEF SentOK
<1>7. SaidOK' /\ Begins(taken, said)'
  BY <1>2, <1>4 DEF Taking, SaidOK
<1>8. LeavingOK'
  <2>1. /\ k \in Nat /\ taken'[k + 1] = w /\ \A i \in 1..k : taken'[i] = taken[i]
    BY <1>1, <1>3, SequenceMore DEF Begins
  <2>2. \A i \in 1..k : ~IsTeardown(taken[i])
    BY <1>1 DEF Taking, LeavingOK
  <2> HIDE DEF w
  <2>3. ASSUME NEW i \in 1..(k + 1), IsTeardown(taken'[i])  PROVE i = k + 1 /\ pc' = "leaving"
    <3>1. i \notin 1..k
      BY <2>1, <2>2, <2>3
    <3>2. i = k + 1
      BY <2>1, <3>1
    <3> QED
      BY <1>2, <2>1, <2>3, <3>2
  <2>4. ASSUME pc' = "leaving"  PROVE Left'
    <3>1. Last(taken') = w
      BY <1>4, <2>1 DEF Last
    <3>2. taken' # <<>>
      <4>1. Len(taken') # 0
        BY <1>4, <2>1
      <4> QED
        BY <4>1
    <3>3. IsTeardown(Last(taken'))
      BY <1>2, <2>4, <3>1
    <3> QED
      BY <3>2, <3>3 DEF Left, IsTeardown
  <2>5. \A i \in 1..Len(taken') : IsTeardown(taken'[i]) => i = Len(taken') /\ pc' = "leaving"
    BY <1>4, <2>3
  <2> QED
    BY <2>4, <2>5 DEF LeavingOK, IsTeardown
<1> QED
  BY <1>2, <1>6, <1>7, <1>8 DEF Taking, WaitOK, ClosedOK

\* After a TEARDOWN the connection is closed.
LEMMA TakingLeave ==
  ASSUME Taking, Leave
  PROVE  Taking'
<1>1. pc = "leaving" /\ pc' = "closed" /\ out' = <<>> /\ UNCHANGED <<said, taken>>
  BY DEF Leave, Close, client
<1>2. Left /\ Left'
  BY <1>1 DEF Taking, LeavingOK, Left
<1>3. LeavingOK' /\ ClosedOK'
  BY <1>1, <1>2 DEF Taking, LeavingOK, ClosedOK
<1>4. SaidOK' /\ Begins(taken, said)'
  BY <1>1 DEF Taking, SaidOK
<1> QED
  BY <1>1, <1>3, <1>4 DEF Taking, SentOK, WaitOK

\* The connection is closed at what cannot be read.
LEMMA TakingRefuse ==
  ASSUME Taking, Refuse
  PROVE  Taking'
<1>1. /\ pc = "handling" /\ read(buf) = Refused /\ pc' = "closed" /\ out' = <<>>
      /\ UNCHANGED <<said, taken>>
  BY DEF Refuse, Close, client
<1>2. WireReads(said, Len(taken), buf, sent)
  BY <1>1, OpenReads
<1>3. Nothing # Refused /\ \A w, c : Taken(w, c) # Refused
  BY DEF Nothing, Refused, Taken
<1>4. Len(taken) < Len(said) /\ Faulty(said[Len(taken) + 1])
  BY <1>1, <1>2, <1>3 DEF WireReads
<1>5. ClosedOK'
  BY <1>1, <1>4 DEF ClosedOK
<1>6. SaidOK' /\ Begins(taken, said)'
  BY <1>1 DEF Taking, SaidOK
<1>7. LeavingOK'
  BY <1>1 DEF Taking, LeavingOK
<1> QED
  BY <1>1, <1>5, <1>6, <1>7 DEF Taking, SentOK, WaitOK

\* Once written, what is in the buffer is nothing whole.
LEMMA TakingWrite ==
  ASSUME Taking, Write
  PROVE  Taking'
<1>1. /\ pc = "handling" /\ read(buf) = Nothing /\ pc' = "waiting" /\ out' = <<>>
      /\ UNCHANGED <<said, taken, buf, sent>>
  BY DEF Write, client
<1>2. SaidOK' /\ Begins(taken, said)' /\ WaitOK' /\ LeavingOK' /\ ClosedOK'
  BY <1>1 DEF Taking, SaidOK, WaitOK, LeavingOK, ClosedOK
<1>3. SentOK'
  BY <1>1 DEF Taking, SentOK
<1> QED
  BY <1>1, <1>2, <1>3 DEF Taking

\* Steps of the other direction leave this one as it is.
LEMMA TakingSame ==
  ASSUME Taking, UNCHANGED <<said, taken, pc, buf, sent, out>>
  PROVE  Taking'
<1>1. SaidOK' /\ Begins(taken, said)' /\ SentOK'
  BY DEF Taking, SaidOK, SentOK
<1>2. WaitOK' /\ LeavingOK' /\ ClosedOK' /\ pc' \in {"waiting", "handling", "leaving", "closed"}
  BY DEF Taking, WaitOK, LeavingOK, ClosedOK, Left
<1> QED
  BY <1>1, <1>2 DEF Taking

\* Everything a client says is said as it may be.
LEMMA SaysWhat ==
  ASSUME Next
  PROVE  \/ Take \/ Refuse \/ Leave \/ Write \/ Send \/ Hear
         \/ \E n \in 1..Len(sent) : Arrive(n)
         \/ \E what : Sayable(what) /\ Says(what)
<1>1. ASSUME NEW uri \in Uris, Says(Request("DESCRIBE", uri, << >>))
      PROVE  \E what : Sayable(what) /\ Says(what)
  <2>1. Sayable(Request("DESCRIBE", uri, << >>))
    BY RequestsAreSayable
  <2> QED
    BY <1>1, <2>1
<1>2. ASSUME NEW numeral \in DOMAIN Numerals, NEW header \in Headers, SaysSetup(numeral, header)
      PROVE  \E what : Sayable(what) /\ Says(what)
  <2> DEFINE what == Request("SETUP", base \o Control(numeral),
                             <<[name |-> "Transport", value |-> header]>>)
  <2>1. Sayable(what)
    BY RequestsAreSayable
  <2>2. Says(what)
    BY <1>2, Zenon DEF SaysSetup
  <2> QED
    BY <2>1, <2>2
<1>3. ASSUME NEW what \in Others, Says(what)
      PROVE  \E it : Sayable(it) /\ Says(it)
  <2>1. Sayable(what)
    BY MessagesAssumption, Zenon
  <2> QED
    BY <1>3, <2>1
<1> QED
  BY <1>1, <1>2, <1>3, Zenon DEF Next

\* Every step keeps it.
LEMMA TakingNext ==
  ASSUME Taking, [Next]_vars
  PROVE  Taking'
<1>1. CASE UNCHANGED vars
  BY <1>1, TakingSame DEF vars, client
<1>2. CASE Next
  <2>1. CASE Take
    BY <2>1, TakingTake
  <2>2. CASE Refuse
    BY <2>2, TakingRefuse
  <2>3. CASE Write
    BY <2>3, TakingWrite
  <2>4. CASE Send
    <3>1. UNCHANGED <<said, taken, pc, buf, sent, out>>
      BY <2>4 DEF Send, client
    <3> QED
      BY <3>1, TakingSame
  <2>5. CASE Hear
    <3>1. UNCHANGED <<said, taken, pc, buf, sent, out>>
      BY <2>5, Zenon DEF Hear
    <3> QED
      BY <3>1, TakingSame
  <2>6. ASSUME NEW n \in 1..Len(sent), Arrive(n)  PROVE Taking'
    BY <2>6, TakingArrive
  <2>7. ASSUME NEW what, Sayable(what), Says(what)  PROVE Taking'
    BY <2>7, TakingSays
  <2>8. CASE Leave
    BY <2>8, TakingLeave
  <2> QED
    BY <1>2, <2>1, <2>2, <2>3, <2>4, <2>5, <2>6, <2>7, <2>8, SaysWhat
<1> QED
  BY <1>1, <1>2

\* What is in the buffer and on its way are always the marks of what was said and
\* not taken yet, and what was taken is how what was said begins (message.rs, read).
THEOREM TakingIsInvariant == Spec => []Taking
<1>1. Init => Taking
  BY TakingFirst
<1>2. Taking /\ [Next]_vars => Taking'
  BY TakingNext
<1> QED
  BY <1>1, <1>2, PTL DEF Spec

\* However what a client says is cut into pieces, it is taken as it was said:
\* every request with its own body and every frame, in order, nothing after a
\* TEARDOWN; and the connection ends only after one or at something that cannot
\* be read.
THEOREM TakenAsSaid == Spec => []TakesWhatWasSent
<1>1. Taking => TakesWhatWasSent
  <2> SUFFICES ASSUME Taking  PROVE TakesWhatWasSent
    OBVIOUS
  <2>1. IsPrefix(taken, said)
    BY BeginsIsPrefix DEF Taking
  <2>2. DOMAIN taken = 1..Len(taken)
    BY DEF Taking, Begins, IsSequence
  <2> QED
    BY <2>1, <2>2 DEF Taking, LeavingOK, ClosedOK, TakesWhatWasSent
<1> QED
  BY <1>1, TakingIsInvariant, PTL

(***************************************************************************)
(* What comes back                                                         *)
(***************************************************************************)

\* An answer has all the fields of one; what else is written is a packet.
IsAnswer(g) ==
  /\ g = [status |-> g.status, base |-> g.base, transport |-> g.transport, track |-> g.track,
          body |-> g.body, sequence |-> g.sequence]
  /\ IsSequence(g.body)

Counts(g) == "sequence" \in DOMAIN g

MarksOf(g) == IF Counts(g) THEN to_bytes(g) ELSE interleave(0, Packet)

Given(g) == IF Counts(g) THEN IsAnswer(g) ELSE g = Frame(0, Packet)

\* A packet has no number, and an answer has one.
LEMMA WhatIsGiven ==
  /\ ~Counts(Frame(0, Packet))
  /\ \A g : IsAnswer(g) => Counts(g)
<1>1. ~Counts(Frame(0, Packet))
  BY DEF Counts, Frame
<1>2. ASSUME NEW g, IsAnswer(g)  PROVE Counts(g)
  <2> DEFINE it == [status |-> g.status, base |-> g.base, transport |-> g.transport,
                    track |-> g.track, body |-> g.body, sequence |-> g.sequence]
  <2>1. g = it
    BY <1>2 DEF IsAnswer
  <2>2. "sequence" \in DOMAIN it
    OBVIOUS
  <2> HIDE DEF it
  <2> QED
    BY <2>1, <2>2 DEF Counts
<1> QED
  BY <1>1, <1>2

\* The headers of an answer.
Answered(g) ==
  <<[name |-> "answer", value |-> g], [name |-> "Content-Length", value |-> Len(g.body)]>>

\* The headers of an answer hold it and state the length of its body.
LEMMA AnsweredIs ==
  ASSUME NEW g, IsSequence(g.body)
  PROVE  /\ IsSequence(Answered(g)) /\ Len(Answered(g)) = 2
         /\ Get(Answered(g), "answer") = g
         /\ Length(Answered(g)) = Len(g.body)
<1> DEFINE n == Len(g.body)
           first == [name |-> "answer", value |-> g]
           second == [name |-> "Content-Length", value |-> n]
           hs == <<first, second>>
<1>1. /\ first.name = "answer" /\ first.value = g
      /\ second.name = "Content-Length" /\ second.value = n
  OBVIOUS
<1>2. n \in Nat /\ n # None
  BY MessagesAssumption DEF IsSequence
<1>3. Answered(g) = hs
  BY DEF Answered
<1> HIDE DEF first, second, n
<1>4. hs \in Seq({first, second}) /\ Len(hs) = 2 /\ hs[1] = first /\ hs[2] = second
  OBVIOUS
<1> HIDE DEF hs
<1>5. IsSequence(hs)
  BY <1>4, SequenceOf
<1>6. Get(hs, "answer") = g
  <2>1. 1 \in 1..Len(hs) /\ \A j \in 1..(1 - 1) : hs[j].name # "answer"
    BY <1>4
  <2> QED
    BY <1>1, <1>4, <1>5, <2>1, GotFirst
<1>7. Get(hs, "Content-Length") = n
  <2>1. 2 \in 1..Len(hs) /\ \A j \in 1..(2 - 1) : hs[j].name # "Content-Length"
    BY <1>1, <1>4
  <2> QED
    BY <1>1, <1>4, <1>5, <2>1, GotFirst
<1>8. Length(hs) = n
  BY <1>2, <1>7 DEF Length
<1> QED
  BY <1>3, <1>4, <1>5, <1>6, <1>8 DEF n

\* How something is heard.
Hears(b, g, rest) ==
  /\ b # <<>>
  /\ (IF b[1] = DOLLAR THEN read_interleaved(b) ELSE HearsAnswer(b)) = Taken(g, rest)
  /\ (b[1] = DOLLAR) <=> ~Counts(g)

\* Whatever was written is heard as it was given, and nothing else.
LEMMA GivenIsHeard ==
  ASSUME NEW g, Given(g), NEW rest, IsSequence(rest), NEW b, b = MarksOf(g) \o rest
  PROVE  Hears(b, g, rest)
<1>1. CASE ~Counts(g)
  <2>1. g = Frame(0, Packet) /\ MarksOf(g) = interleave(0, Packet)
    BY <1>1 DEF Given, MarksOf
  <2>2. IsSequence(Packet)
    BY MessagesAssumption
  <2>3. b = interleave(0, Packet) \o rest
    BY <2>1
  <2>4. b # <<>> /\ b[1] = DOLLAR /\ read_interleaved(b) = Taken(Frame(0, Packet), rest)
    BY <2>2, <2>3, FrameIsTaken
  <2> QED
    BY <1>1, <2>1, <2>4, Zenon DEF Hears
<1>2. CASE Counts(g)
  <2> DEFINE first == [status |-> g.status]
             hs == Answered(g)
             body == g.body
             n == Len(body)
  <2>1. IsAnswer(g) /\ IsSequence(body)
    BY <1>2 DEF Given, IsAnswer
  <2>2. MarksOf(g) = Text(first, hs, body)
    BY <1>2, Zenon DEF MarksOf, to_bytes, Answered
  <2>3. IsSequence(hs) /\ Len(hs) = 2 /\ Get(hs, "answer") = g /\ Length(hs) = n
    BY <2>1, AnsweredIs
  <2> HIDE DEF first, hs
  <2>4. b = Text(first, hs, body) \o rest
    BY <2>2
  <2>5. Stands(b, first, hs, body, rest)
    BY <2>1, <2>3, <2>4, TextStands
  <2>6. n \in Nat
    BY <2>1 DEF IsSequence
  <2>7. /\ b # <<>> /\ Headed(b, first, hs)
        /\ Cut(b, 2 * Len(hs) + 2 + 1, n) = body
        /\ SubSeq(b, 2 * Len(hs) + 2 + 2 + n, Len(b)) = rest
    BY <2>5, Zenon DEF Stands
  <2>8. 2 * Len(hs) + 2 = 6
    BY <2>3
  <2>9. Cut(b, 6 + 1, n) = body /\ SubSeq(b, 6 + 2 + n, Len(b)) = rest
    BY <2>7, <2>8
  <2>10. Blank(b) # {} /\ Min(Blank(b)) = 6 /\ b[1] = Line(first) /\ HeaderLines(b, 6) = hs
    BY <2>7, <2>8 DEF Headed
  <2>11. b[1].is = "line" /\ b[1] # DOLLAR
    BY <2>10 DEF Line, DOLLAR
  <2> HIDE DEF n, body
  <2>12. HearsAnswer(b) = Taken([g EXCEPT !.body = body], rest)
    <3>1. HearsAnswer(b) =
            [is |-> "taken", rest |-> SubSeq(b, 6 + 2 + Length(hs), Len(b)),
             what |-> [Get(hs, "answer") EXCEPT !.body = Cut(b, 6 + 1, Length(hs))]]
      BY <2>10, <2>11, Zenon DEF HearsAnswer
    <3> QED
      BY <2>3, <2>9, <3>1, Zenon DEF Taken
  <2>13. [g EXCEPT !.body = body] = g
    BY <2>1 DEF IsAnswer, body
  <2>14. HearsAnswer(b) = Taken(g, rest)
    BY <2>12, <2>13
  <2> QED
    BY <1>2, <2>7, <2>11, <2>14, Zenon DEF Hears
<1> QED
  BY <1>1, <1>2

\* It is a sequence of at least one mark.
LEMMA MarksOfIs ==
  ASSUME NEW g, Given(g)
  PROVE  IsSequence(MarksOf(g)) /\ MarksOf(g) # <<>>
<1>1. CASE ~Counts(g)
  <2>1. MarksOf(g) = interleave(0, Packet)
    BY <1>1 DEF MarksOf
  <2>2. IsSequence(Packet)
    BY MessagesAssumption
  <2>3. Framed(interleave(0, Packet), 0, Packet)
    BY <2>2, FrameIs
  <2>4. Len(Packet) \in Nat
    BY <2>2 DEF IsSequence
  <2> QED
    BY <2>1, <2>3, <2>4 DEF Framed
<1>2. CASE Counts(g)
  <2> DEFINE first == [status |-> g.status]
             hs == Answered(g)
             body == g.body
             text == Text(first, hs, body)
  <2>1. IsSequence(body)
    BY <1>2 DEF Given, IsAnswer
  <2>2. MarksOf(g) = text
    BY <1>2, Zenon DEF MarksOf, to_bytes, Answered
  <2>3. IsSequence(hs)
    BY <2>1, AnsweredIs
  <2> HIDE DEF first, hs, body
  <2>4. Laid(text, first, hs, body)
    BY <2>1, <2>3, TextIs
  <2> HIDE DEF text
  <2>5. IsSequence(text) /\ text # <<>>
    BY <2>1, <2>3, <2>4, LaidLength
  <2> QED
    BY <2>2, <2>5
<1> QED
  BY <1>1, <1>2

\* The marks of each thing that was given.
Written(s) == [i \in 1..Len(s) |-> MarksOf(s[i])]

AllGiven(s) == IsSequence(s) /\ \A i \in 1..Len(s) : Given(s[i])

\* The marks of everything given are parts, one for each answer and packet.
LEMMA WrittenIs ==
  ASSUME NEW s, AllGiven(s)
  PROVE  /\ Len(s) \in Nat /\ Parts(Written(s)) /\ Len(Written(s)) = Len(s)
         /\ \A i \in 1..Len(s) : Written(s)[i] = MarksOf(s[i])
<1> DEFINE n == Len(s)
           u == Written(s)
<1>1. n \in Nat
  BY DEF AllGiven, IsSequence
<1>2. \A i \in 1..n : u[i] = MarksOf(s[i])
  BY Zenon DEF Written
<1>3. u = [i \in 1..n |-> u[i]]
  BY Zenon DEF Written
<1>4. \A i \in 1..n : IsSequence(MarksOf(s[i])) /\ MarksOf(s[i]) # <<>>
  BY MarksOfIs DEF AllGiven
<1> DEFINE S == {u[i] : i \in 1..n}
<1>5. \A i \in 1..n : u[i] \in S
  OBVIOUS
<1> HIDE DEF u, S
<1>6. u \in Seq(S) /\ Len(u) = n
  BY <1>1, <1>3, <1>5
<1>7. Parts(u)
  BY <1>2, <1>4, <1>6, SequenceOf DEF Parts
<1> QED
  BY <1>1, <1>2, <1>6, <1>7 DEF u

\* One more thing that is given is one more part.
LEMMA WrittenMore ==
  ASSUME NEW s, AllGiven(s), NEW g, Given(g)
  PROVE  /\ AllGiven(Append(s, g)) /\ Len(Append(s, g)) = Len(s) + 1
         /\ Append(s, g)[Len(s) + 1] = g
         /\ \A i \in 1..Len(s) : Append(s, g)[i] = s[i]
         /\ Written(Append(s, g)) = Append(Written(s), MarksOf(g))
<1> DEFINE n == Len(s)
           more == Append(s, g)
           u == Written(s)
           v == Written(more)
<1>1. /\ n \in Nat /\ IsSequence(more) /\ Len(more) = n + 1 /\ more[n + 1] = g
      /\ \A i \in 1..n : more[i] = s[i]
  BY SequenceMore DEF AllGiven
<1> HIDE DEF more
<1>2. \A i \in 1..n : Given(s[i])
  BY DEF AllGiven
<1>3. ASSUME NEW i \in 1..(n + 1)  PROVE Given(more[i])
  <2>1. CASE i \in 1..n
    BY <1>1, <1>2, <2>1
  <2>2. CASE i = n + 1
    BY <1>1, <2>2
  <2> QED
    BY <1>1, <2>1, <2>2
<1>4. AllGiven(more)
  BY <1>1, <1>3 DEF AllGiven
<1>5. Parts(u) /\ Len(u) = n /\ \A i \in 1..n : u[i] = MarksOf(s[i])
  BY WrittenIs
<1>6. Parts(v) /\ Len(v) = n + 1 /\ \A i \in 1..(n + 1) : v[i] = MarksOf(more[i])
  BY <1>1, <1>4, WrittenIs
<1> HIDE DEF u, v
<1>7. IsSequence(u) /\ IsSequence(v) /\ Len(v) = Len(u) + 1
  BY <1>5, <1>6 DEF Parts
<1>8. \A i \in 1..Len(u) : v[i] = u[i]
  BY <1>1, <1>5, <1>6
<1>9. v = Append(u, v[Len(u) + 1])
  BY <1>7, <1>8, AppendOf
<1>10. v[Len(u) + 1] = MarksOf(g)
  BY <1>1, <1>5, <1>6
<1> QED
  BY <1>1, <1>4, <1>9, <1>10 DEF more, u, v

\* What is taken is a request that is answered with its number, or a frame.
Responds(n) == \E answer : IsAnswer(answer) /\ answer.sequence = n /\ Respond(answer)

\* Whatever its method, a request is answered once, with its number.
LEMMA EveryRequestIsAnswered ==
  ASSUME NEW w, w.is = "request", NEW n \in Int, Get(w.headers, "CSeq") = n, Handled(w)
  PROVE  Responds(n)
<1>1. n # None /\ IsSequence(Sdp)
  BY MessagesAssumption
<1>2. IsSequence(<<>>)
  BY DEF IsSequence
<1>3. ASSUME NEW status
      PROVE  /\ IsAnswer(Reply(w, status)) /\ Reply(w, status).sequence = n
             /\ Reply(w, status) = [status |-> status, base |-> None, transport |-> None,
                                    track |-> None, body |-> <<>>, sequence |-> n]
  <2>1. Reply(w, status) = [status |-> status, base |-> None, transport |-> None,
                            track |-> None, body |-> <<>>, sequence |-> n]
    BY <1>1 DEF Reply
  <2> QED
    BY <1>2, <2>1 DEF IsAnswer
<1>4. ASSUME NEW status, Respond(Reply(w, status))  PROVE Responds(n)
  BY <1>3, <1>4 DEF Responds
<1>5. ASSUME Describe(w)  PROVE Responds(n)
  <2> DEFINE there == ContentBase(w.line.uri)
             answer == [Reply(w, 200) EXCEPT !.base = there, !.body = Sdp]
  <2>1. Respond(Reply(w, 404)) \/ Respond(answer)
    BY <1>5, Zenon DEF Describe
  <2>2. IsAnswer(answer) /\ answer.sequence = n
    <3> HIDE DEF there
    <3> DEFINE plain == [status |-> 200, base |-> None, transport |-> None,
                         track |-> None, body |-> <<>>, sequence |-> n]
    <3>1. Reply(w, 200) = plain
      BY <1>3
    <3>2. [plain EXCEPT !.base = there, !.body = Sdp]
            = [status |-> 200, base |-> there, transport |-> None,
               track |-> None, body |-> Sdp, sequence |-> n]
      <4> DEFINE half == [plain EXCEPT !.base = there]
                 p == plain
      <4>1. half = [status |-> 200, base |-> there, transport |-> None,
                    track |-> None, body |-> <<>>, sequence |-> n]
        <5>1. p = plain
          OBVIOUS
        <5> HIDE DEF p
        <5>2. [p EXCEPT !.base = there] = [status |-> 200, base |-> there, transport |-> None,
                    track |-> None, body |-> <<>>, sequence |-> n]
          BY <5>1
        <5> QED
          BY <5>1, <5>2
      <4>2. [plain EXCEPT !.base = there, !.body = Sdp] = [half EXCEPT !.body = Sdp]
        OBVIOUS
      <4> HIDE DEF half
      <4>3. [half EXCEPT !.body = Sdp]
              = [status |-> 200, base |-> there, transport |-> None,
               track |-> None, body |-> Sdp, sequence |-> n]
        BY <4>1
      <4> QED
        BY <4>2, <4>3
    <3>3. answer = [status |-> 200, base |-> there, transport |-> None,
                    track |-> None, body |-> Sdp, sequence |-> n]
      BY <3>1, <3>2
    <3> HIDE DEF answer
    <3> QED
      BY <1>1, <3>3 DEF IsAnswer
  <2> HIDE DEF answer
  <2> QED
    BY <1>4, <2>1, <2>2 DEF Responds
<1>6. ASSUME Setup(w)  PROVE Responds(n)
  <2> DEFINE A(t, k) == [Reply(w, 200) EXCEPT !.transport = t, !.track = k]
  <2>1. \/ \E status : Respond(Reply(w, status))
        \/ \E t, k : Respond(A(t, k))
    BY <1>6, Zenon DEF Setup
  <2>2. ASSUME NEW t, NEW k  PROVE IsAnswer(A(t, k)) /\ A(t, k).sequence = n
    <3> DEFINE plain == [status |-> 200, base |-> None, transport |-> None,
                         track |-> None, body |-> <<>>, sequence |-> n]
               answer == A(t, k)
    <3>1. Reply(w, 200) = plain
      BY <1>3
    <3>2. [plain EXCEPT !.transport = t, !.track = k]
            = [status |-> 200, base |-> None, transport |-> t,
               track |-> k, body |-> <<>>, sequence |-> n]
      <4> DEFINE half == [plain EXCEPT !.transport = t]
                 p == plain
      <4>1. half = [status |-> 200, base |-> None, transport |-> t,
                    track |-> None, body |-> <<>>, sequence |-> n]
        <5>1. p = plain
          OBVIOUS
        <5> HIDE DEF p
        <5>2. [p EXCEPT !.transport = t] = [status |-> 200, base |-> None, transport |-> t,
                    track |-> None, body |-> <<>>, sequence |-> n]
          BY <5>1
        <5> QED
          BY <5>1, <5>2
      <4>2. [plain EXCEPT !.transport = t, !.track = k] = [half EXCEPT !.track = k]
        OBVIOUS
      <4> HIDE DEF half
      <4>3. [half EXCEPT !.track = k]
              = [status |-> 200, base |-> None, transport |-> t,
               track |-> k, body |-> <<>>, sequence |-> n]
        BY <4>1
      <4> QED
        BY <4>2, <4>3
    <3>3. answer = [status |-> 200, base |-> None, transport |-> t,
                    track |-> k, body |-> <<>>, sequence |-> n]
      BY <3>1, <3>2
    <3> HIDE DEF answer
    <3>4. IsAnswer(answer) /\ answer.sequence = n
      BY <1>2, <3>3 DEF IsAnswer
    <3> QED
      BY <3>4 DEF answer
  <2> HIDE DEF A
  <2> QED
    BY <1>4, <2>1, <2>2 DEF Responds
<1>7. ASSUME Other(w)  PROVE Responds(n)
  <2>1. \E status : Respond(Reply(w, status))
    BY <1>7, Zenon DEF Other, Play, Pause
  <2> QED
    BY <1>4, <2>1
<1> QED
  BY <1>5, <1>6, <1>7 DEF Handled

\* Every request that was taken has been answered once, in order.
NumbersOK ==
  /\ \A i \in 1..Len(given) : Counts(given[i]) => given[i].sequence \in 1..Len(taken)
  /\ \A i, j \in 1..Len(given) :
       i < j /\ Counts(given[i]) /\ Counts(given[j]) => given[i].sequence < given[j].sequence
  /\ \A k \in 1..Len(taken) : taken[k].is = "request" =>
       \E i \in 1..Len(given) : Counts(given[i]) /\ given[i].sequence = k

\* What is on its way back is the marks of what was not heard yet, and with what
\* was not written yet those of everything that was given: also at the end, if a
\* TEARDOWN was answered.
BackOK ==
  /\ IsSequence(back)
  /\ \E m \in Len(heard)..Len(given) : back = Span(Written(given), Len(heard), m)

OutOK ==
  pc # "closed" \/ Left =>
    /\ IsSequence(out)
    /\ back \o out = Span(Written(given), Len(heard), Len(given))

Answering == AllGiven(given) /\ Begins(heard, given) /\ NumbersOK /\ BackOK /\ OutOK

\* At the start nothing was given or heard.
LEMMA AnsweringFirst == Init => Answering
<1> SUFFICES ASSUME Init  PROVE Answering
  OBVIOUS
<1>1. IsSequence(<<>>) /\ Len(<<>>) = 0 /\ <<>> \o <<>> = <<>>
  BY DEF IsSequence
<1>2. heard = <<>> /\ given = <<>> /\ taken = <<>> /\ back = <<>> /\ out = <<>>
  BY DEF Init
<1>3. AllGiven(given) /\ Begins(heard, given) /\ NumbersOK /\ Len(given) = 0 /\ Len(heard) = 0
  BY <1>1, <1>2 DEF AllGiven, Begins, NumbersOK
<1>4. Parts(Written(given)) /\ Len(Written(given)) = 0
  BY <1>3, WrittenIs
<1>5. Span(Written(given), 0, 0) = <<>>
  BY <1>4, SpanIs
<1>6. BackOK
  <2>1. 0 \in 0..0
    OBVIOUS
  <2> QED
    BY <1>1, <1>2, <1>3, <1>5, <2>1 DEF BackOK
<1>7. OutOK
  BY <1>1, <1>2, <1>3, <1>5 DEF OutOK
<1> QED
  BY <1>3, <1>6, <1>7 DEF Answering

\* What is given goes on with one more, and so do its marks.
GivesOneMore(g) ==
  /\ AllGiven(given') /\ Len(given') = Len(given) + 1 /\ given'[Len(given) + 1] = g
  /\ \A i \in 1..Len(given) : given'[i] = given[i]
  /\ Begins(heard, given') /\ IsSequence(MarksOf(g))
  /\ Len(given) \in Nat /\ Len(heard) \in Nat
  /\ \A m \in Len(heard)..Len(given) :
       Span(Written(given'), Len(heard), m) = Span(Written(given), Len(heard), m)
  /\ Span(Written(given'), Len(heard), Len(given) + 1)
       = Span(Written(given), Len(heard), Len(given)) \o MarksOf(g)

\* One more answer or packet goes behind the marks of the others.
LEMMA GivenMore ==
  ASSUME Answering, NEW g, Given(g), given' = Append(given, g)
  PROVE  GivesOneMore(g)
<1> DEFINE n == Len(given)
           h == Len(heard)
           parts == Written(given)
           a == MarksOf(g)
           more == Append(parts, a)
<1>1. AllGiven(given) /\ Begins(heard, given)
  BY DEF Answering
<1>2. /\ AllGiven(given') /\ Len(given') = n + 1 /\ given'[n + 1] = g
      /\ \A i \in 1..n : given'[i] = given[i]
      /\ Written(given') = more
  BY <1>1, WrittenMore
<1>3. Begins(heard, given')
  BY <1>1, BeginsMore
<1>4. h \in Nat /\ n \in Nat /\ h <= n
  BY <1>1, BeginsIsPrefix DEF Begins
<1>5. Parts(parts) /\ Len(parts) = n
  BY <1>1, WrittenIs
<1>6. IsSequence(a) /\ a # <<>>
  BY MarksOfIs
<1> HIDE DEF parts, a, more
<1>7. ASSUME NEW m \in h..n  PROVE Grows(parts, a, h, m)
  BY <1>4, <1>5, <1>6, SpanEnds
<1>8. \A m \in h..n : Span(more, h, m) = Span(parts, h, m)
  BY <1>7 DEF Grows, more
<1>9. Span(more, h, n + 1) = Span(parts, h, n) \o a
  <2>1. n \in h..n
    BY <1>4
  <2> QED
    BY <1>5, <1>7, <2>1 DEF Grows, more
<1>10. IsSequence(a)
  BY <1>6
<1> QED
  BY <1>2, <1>3, <1>4, <1>8, <1>9, <1>10 DEF GivesOneMore, parts, a

\* A request that is taken is answered behind the others; a frame is not answered.
LEMMA AnsweringTake ==
  ASSUME Taking, Answering, Take
  PROVE  Answering'
<1> DEFINE k == Len(taken)
           w == said[k + 1]
           n == Len(given)
           h == Len(heard)
<1>1. /\ k < Len(said) /\ taken' = Append(taken, w) /\ UNCHANGED <<client, sent, back>>
      /\ pc = "handling" /\ w.is \in {"frame", "request"} /\ Handled(w)
  BY TakeIs, Zenon DEF TakesNext
<1>2. Begins(taken, said) /\ SaidOK
  BY DEF Taking
<1>3. /\ k \in Nat /\ Len(taken') = k + 1 /\ taken'[k + 1] = w
      /\ \A i \in 1..k : taken'[i] = taken[i]
  BY <1>1, <1>2, SequenceMore DEF Begins
<1>4. heard' = heard /\ back' = back
  BY <1>1 DEF client
<1> HIDE DEF w
<1>5. AllGiven(given) /\ Begins(heard, given) /\ NumbersOK /\ BackOK /\ OutOK
  BY DEF Answering
<1>6. CASE w.is = "frame"
  <2>1. out' = out /\ given' = given
    BY <1>1, <1>6 DEF Handled
  <2>2. AllGiven(given)' /\ Begins(heard, given)' /\ BackOK' /\ OutOK'
    BY <1>1, <1>4, <1>5, <2>1 DEF BackOK, OutOK
  <2>3. NumbersOK'
    <3>1. ASSUME NEW i \in 1..(k + 1), taken'[i].is = "request"
          PROVE  \E j \in 1..Len(given) : Counts(given[j]) /\ given[j].sequence = i
      <4>1. i \in 1..k
        BY <1>3, <1>6, <3>1
      <4>2. taken'[i] = taken[i]
        BY <1>3, <4>1
      <4> QED
        BY <1>5, <3>1, <4>1, <4>2 DEF NumbersOK
    <3>2. 1..k \subseteq 1..(k + 1)
      BY <1>3
    <3> QED
      BY <1>3, <1>5, <2>1, <3>1, <3>2 DEF NumbersOK
  <2> QED
    BY <2>2, <2>3 DEF Answering
<1>7. CASE w.is = "request"
  <2>1. k + 1 \in 1..Len(said)
    BY <1>1, <1>2, <1>3, BeginsIsPrefix
  <2>2. Get(w.headers, "CSeq") = k + 1
    BY <1>2, <1>7, <2>1 DEF SaidOK, w
  <2>3. k + 1 \in Int
    BY <1>3
  <2>4. Responds(k + 1)
    BY <1>1, <1>7, <2>2, <2>3, EveryRequestIsAnswered
  <2>5. PICK answer : IsAnswer(answer) /\ answer.sequence = k + 1 /\ Respond(answer)
    BY <2>4 DEF Responds
  <2> DEFINE a == MarksOf(answer)
  <2>6. Counts(answer) /\ Given(answer) /\ a = to_bytes(answer)
    BY <2>5, WhatIsGiven DEF Given, MarksOf
  <2> HIDE DEF a
  <2>7. out' = out \o a /\ given' = Append(given, answer)
    BY <2>5, <2>6 DEF Respond
  <2>8. GivesOneMore(answer)
    BY <2>6, <2>7, GivenMore
  <2>9. /\ AllGiven(given') /\ Len(given') = n + 1 /\ given'[n + 1] = answer
        /\ \A i \in 1..n : given'[i] = given[i]
        /\ Begins(heard, given') /\ IsSequence(a) /\ n \in Nat /\ h \in Nat
    BY <2>8, Zenon DEF GivesOneMore, a
  <2>10. /\ \A m \in h..n : Span(Written(given'), h, m) = Span(Written(given), h, m)
         /\ Span(Written(given'), h, n + 1) = Span(Written(given), h, n) \o a
    BY <2>8, Zenon DEF GivesOneMore, a
  <2>11. NumbersOK'
    <3>1. ASSUME NEW i \in 1..(n + 1), Counts(given'[i])
          PROVE  given'[i].sequence \in 1..(k + 1) /\ (i # n + 1 => given'[i].sequence \in 1..k)
      <4>1. CASE i \in 1..n
        <5>1. given[i].sequence \in 1..k
          BY <1>5, <2>9, <3>1, <4>1 DEF NumbersOK
        <5> QED
          BY <1>3, <2>9, <4>1, <5>1
      <4>2. CASE i = n + 1
        BY <1>3, <2>5, <2>9, <4>2
      <4> QED
        BY <2>9, <4>1, <4>2
    <3>2. ASSUME NEW i \in 1..(n + 1), NEW j \in 1..(n + 1), i < j,
                 Counts(given'[i]), Counts(given'[j])
          PROVE  given'[i].sequence < given'[j].sequence
      <4>1. i \in 1..n /\ i # n + 1
        BY <2>9, <3>2
      <4>2. CASE j \in 1..n
        BY <1>5, <2>9, <3>2, <4>1, <4>2 DEF NumbersOK
      <4>3. CASE j = n + 1
        <5>1. given'[i].sequence \in 1..k
          BY <3>1, <3>2, <4>1
        <5>2. given'[j].sequence = k + 1
          BY <2>5, <2>9, <4>3
        <5> QED
          BY <1>3, <5>1, <5>2
      <4> QED
        BY <2>9, <4>2, <4>3
    <3>3. ASSUME NEW i \in 1..(k + 1), taken'[i].is = "request"
          PROVE  \E j \in 1..(n + 1) : Counts(given'[j]) /\ given'[j].sequence = i
      <4>1. CASE i \in 1..k
        <5>1. PICK j \in 1..n : Counts(given[j]) /\ given[j].sequence = i
          BY <1>3, <1>5, <3>3, <4>1 DEF NumbersOK
        <5>2. j \in 1..(n + 1) /\ given'[j] = given[j]
          BY <2>9
        <5> QED
          BY <5>1, <5>2
      <4>2. CASE i = k + 1
        <5>1. n + 1 \in 1..(n + 1)
          BY <2>9
        <5> QED
          BY <2>5, <2>6, <2>9, <4>2, <5>1
      <4> QED
        BY <1>3, <4>1, <4>2
    <3> QED
      BY <1>3, <2>9, <3>1, <3>2, <3>3 DEF NumbersOK
  <2>12. BackOK'
    <3>1. PICK m \in h..n : back = Span(Written(given), h, m)
      BY <1>5 DEF BackOK
    <3>2. m \in h..(n + 1)
      BY <2>9
    <3>3. back = Span(Written(given'), h, m)
      BY <2>10, <3>1
    <3> QED
      BY <1>4, <1>5, <2>9, <3>2, <3>3 DEF BackOK
  <2>13. OutOK'
    <3>1. IsSequence(back) /\ IsSequence(out) /\ back \o out = Span(Written(given), h, n)
      BY <1>1, <1>5 DEF BackOK, OutOK
    <3>2. Grouped(back, out, a)
      BY <2>9, <3>1, Associates
    <3>3. IsSequence(out \o a) /\ back \o (out \o a) = (back \o out) \o a
      BY <3>2, Zenon DEF Grouped
    <3>4. back \o (out \o a) = Span(Written(given'), h, n + 1)
      BY <2>10, <3>1, <3>3
    <3> QED
      BY <1>4, <2>7, <2>9, <3>3, <3>4 DEF OutOK
  <2>14. AllGiven(given)' /\ Begins(heard, given)'
    BY <1>4, <2>9
  <2> QED
    BY <2>11, <2>12, <2>13, <2>14 DEF Answering
<1> QED
  BY <1>1, <1>6, <1>7

\* A packet is sent whole, between answers.
LEMMA AnsweringSend ==
  ASSUME Taking, Answering, Send
  PROVE  Answering'
<1> DEFINE n == Len(given)
           h == Len(heard)
           g == Frame(0, Packet)
           a == MarksOf(g)
<1>1. /\ pc = "waiting" /\ back' = back \o interleave(0, Packet) /\ given' = Append(given, g)
      /\ UNCHANGED <<heard, taken, pc, out>>
  BY DEF Send, client
<1>2. ~Counts(g) /\ Given(g) /\ back' = back \o a
  BY <1>1, WhatIsGiven DEF Given, MarksOf
<1>3. AllGiven(given) /\ Begins(heard, given) /\ NumbersOK /\ BackOK /\ OutOK
  BY DEF Answering
<1>4. GivesOneMore(g)
  BY <1>1, <1>2, GivenMore
<1> HIDE DEF g, a
<1>5. /\ AllGiven(given') /\ Len(given') = n + 1 /\ given'[n + 1] = g
      /\ \A i \in 1..n : given'[i] = given[i]
      /\ Begins(heard, given') /\ IsSequence(a) /\ n \in Nat /\ h \in Nat
      /\ Span(Written(given'), h, n + 1) = Span(Written(given), h, n) \o a
  BY <1>4, Zenon DEF GivesOneMore, a
<1>6. out = <<>>
  BY <1>1 DEF Taking, WaitOK
<1>7. IsSequence(back) /\ back \o out = Span(Written(given), h, n)
  BY <1>1, <1>3 DEF BackOK, OutOK
<1>8. IsSequence(back \o a) /\ (back \o a) \o <<>> = back \o a /\ back \o out = back
  <2>1. Grouped(back, a, a) /\ Grouped(back, back, back)
    BY <1>5, <1>7, Associates
  <2>2. IsSequence(back \o a) /\ back \o <<>> = back
    BY <2>1, Zenon DEF Grouped
  <2>3. Grouped(back \o a, back, back)
    BY <1>7, <2>2, Associates
  <2>4. (back \o a) \o <<>> = back \o a
    BY <2>3, Zenon DEF Grouped
  <2> QED
    BY <1>6, <2>2, <2>4
<1>9. Span(Written(given'), h, n + 1) = back \o a
  BY <1>5, <1>7, <1>8
<1>10. BackOK' /\ OutOK'
  <2>1. n + 1 \in h..(n + 1)
    BY <1>3, <1>5 DEF Begins
  <2>2. IsSequence(<<>>)
    BY DEF IsSequence
  <2>3. IsSequence(back') /\ back' = Span(Written(given'), h, n + 1) /\ back' \o out' = back'
    BY <1>1, <1>2, <1>6, <1>8, <1>9
  <2>4. h = Len(heard') /\ n + 1 = Len(given') /\ IsSequence(out')
    BY <1>1, <1>5, <1>6, <2>2
  <2> QED
    BY <2>1, <2>3, <2>4 DEF BackOK, OutOK
<1>11. NumbersOK'
  <2>1. \A i \in 1..(n + 1) : Counts(given'[i]) => i \in 1..n /\ given'[i] = given[i]
    <3>1. ASSUME NEW i \in 1..(n + 1), Counts(given'[i])  PROVE i \in 1..n
      BY <1>2, <1>5, <3>1
    <3> QED
      BY <1>5, <3>1
  <2>2. 1..n \subseteq 1..(n + 1)
    BY <1>5
  <2> QED
    BY <1>1, <1>3, <1>5, <2>1, <2>2 DEF NumbersOK
<1>12. AllGiven(given)' /\ Begins(heard, given)'
  BY <1>1, <1>5
<1> QED
  BY <1>10, <1>11, <1>12 DEF Answering

\* What is written goes behind what was not heard yet.
LEMMA AnsweringWrite ==
  ASSUME Taking, Answering, Write \/ Leave
  PROVE  Answering'
<1>1. /\ pc # "closed" /\ back' = back \o out /\ out' = <<>>
      /\ UNCHANGED <<heard, given, taken>>
  BY DEF Write, Leave, Close, client
<1>2. AllGiven(given) /\ Begins(heard, given) /\ NumbersOK /\ BackOK /\ OutOK
  BY DEF Answering
<1>3. /\ IsSequence(back) /\ IsSequence(out)
      /\ back \o out = Span(Written(given), Len(heard), Len(given))
  BY <1>1, <1>2 DEF BackOK, OutOK
<1>4. IsSequence(<<>>)
  BY DEF IsSequence
<1>5. Grouped(back, out, <<>>)
  BY <1>3, <1>4, Associates
<1>6. IsSequence(back \o out)
  BY <1>5 DEF Grouped
<1>7. Grouped(back \o out, <<>>, <<>>)
  BY <1>4, <1>6, Associates
<1>8. (back \o out) \o <<>> = back \o out
  BY <1>7, Zenon DEF Grouped
<1>9. Len(given) \in Len(heard)..Len(given)
  BY <1>2, BeginsIsPrefix DEF Begins
<1>10. BackOK'
  BY <1>1, <1>3, <1>6, <1>9 DEF BackOK
<1>11. OutOK'
  BY <1>1, <1>3, <1>4, <1>8 DEF OutOK
<1>12. AllGiven(given)' /\ Begins(heard, given)' /\ NumbersOK'
  BY <1>1, <1>2 DEF NumbersOK
<1> QED
  BY <1>10, <1>11, <1>12 DEF Answering

\* Steps of the other direction leave this one as it is.
LEMMA AnsweringSame ==
  ASSUME Answering, UNCHANGED <<heard, given, taken, back>>,
         \/ UNCHANGED out /\ (pc' = pc \/ pc # "closed")
         \/ pc' = "closed" /\ ~Left
  PROVE  Answering'
<1>1. AllGiven(given)' /\ Begins(heard, given)' /\ NumbersOK'
  BY DEF Answering, NumbersOK
<1>2. Left' = Left
  BY DEF Left
<1>3. BackOK' /\ OutOK'
  BY <1>2 DEF Answering, BackOK, OutOK
<1> QED
  BY <1>1, <1>3 DEF Answering

\* Two sequences are as long together as each of them is.
LEMMA JoinLength ==
  ASSUME NEW a, NEW b, IsSequence(a), IsSequence(b)
  PROVE  Len(a \o b) = Len(a) + Len(b) /\ Len(a) \in Nat /\ Len(b) \in Nat
<1>1. PICK S : a \in Seq(S) /\ b \in Seq(S)
  BY Together
<1> QED
  BY <1>1

\* What follows the same is the same.
LEMMA Cancels ==
  ASSUME NEW a, NEW b, NEW c, IsSequence(a), IsSequence(b), IsSequence(c), Meet(a, b, a, c)
  PROVE  b = c
<1>1. WholeOrPart(a, b, a, c)
  BY Continues
<1>2. Len(a) \in Nat
  BY <1>1 DEF WholeOrPart
<1>3. PICK d : IsSequence(d) /\ a = a \o d /\ d \o b = c
  <2>1. Len(a) >= Len(a)
    BY <1>2
  <2> QED
    BY <1>1, <2>1, Zenon DEF WholeOrPart
<1>4. d = <<>>
  <2>1. Len(a \o d) = Len(a) + Len(d) /\ Len(d) \in Nat
    BY <1>3, JoinLength
  <2>2. Len(d) = 0
    BY <1>2, <1>3, <2>1
  <2> QED
    BY <1>3, <2>2 DEF IsSequence
<1>5. Grouped(b, b, b)
  BY Associates
<1>6. <<>> \o b = b
  BY <1>5, Zenon DEF Grouped
<1> QED
  BY <1>3, <1>4, <1>6

\* What is heard is what comes next of what was given.
HearsNext ==
  /\ Len(heard) < Len(given) /\ heard' = Append(heard, given[Len(heard) + 1])
  /\ BackOK' /\ OutOK'

\* The client hears what comes next of what was given.
LEMMA HearIs ==
  ASSUME Taking, Answering, Hear
  PROVE  HearsNext
<1> DEFINE n == Len(given)
           h == Len(heard)
           g == given[h + 1]
           W == Written(given)
           a == MarksOf(g)
           r == IF back[1] = DOLLAR THEN read_interleaved(back) ELSE HearsAnswer(back)
<1>1. AllGiven(given) /\ Begins(heard, given) /\ BackOK /\ OutOK
  BY DEF Answering
<1>2. /\ back # <<>> /\ UNCHANGED <<pc, out, given, taken>>
      /\ (r.is = "taken" => back' = r.rest /\ heard' = Append(heard, r.what))
  BY Zenon DEF Hear
<1>3. h \in Nat /\ n \in Nat /\ h <= n
  BY <1>1, BeginsIsPrefix DEF Begins
<1>4. Parts(W) /\ Len(W) = n /\ \A i \in 1..n : W[i] = MarksOf(given[i])
  BY <1>1, WrittenIs
<1> HIDE DEF W
<1>5. PICK m \in h..n : back = Span(W, h, m)
  BY <1>1 DEF BackOK, W
<1>6. h \in 0..Len(W) /\ m \in h..Len(W) /\ n \in h..Len(W)
  BY <1>3, <1>4
<1>7. h < m
  <2>1. Span(W, h, h) = <<>>
    BY <1>4, <1>6, SpanIs
  <2>2. h # m
    BY <1>2, <1>5, <2>1
  <2> QED
    BY <1>3, <2>2
<1>8. h < n /\ h + 1 \in 1..n /\ h + 1 \in 0..Len(W) /\ m \in (h + 1)..n
  BY <1>3, <1>4, <1>7
<1>9. W[h + 1] = a /\ Given(g)
  BY <1>1, <1>4, <1>8 DEF AllGiven
<1> DEFINE rest == Span(W, h + 1, m)
           all == Span(W, h + 1, n)
<1>10. IsSequence(rest) /\ Span(W, h, m) = W[h + 1] \o rest
  BY <1>4, <1>6, <1>7, SpanBegins
<1>11. IsSequence(all) /\ Span(W, h, n) = W[h + 1] \o all
  BY <1>4, <1>6, <1>8, SpanBegins
<1>12. IsSequence(a)
  BY <1>9, MarksOfIs
<1> HIDE DEF a, g, rest, all
<1>13. back = a \o rest /\ Span(W, h, n) = a \o all
  BY <1>5, <1>9, <1>10, <1>11
<1>14. Hears(back, g, rest)
  <2>1. back = MarksOf(g) \o rest
    BY <1>13 DEF a
  <2> QED
    BY <1>9, <1>10, <2>1, GivenIsHeard
<1>15. r = Taken(g, rest)
  BY <1>14, Zenon DEF Hears
<1> HIDE DEF r
<1>16. r.is = "taken" /\ r.rest = rest /\ r.what = g
  BY <1>15 DEF Taken
<1>17. back' = rest /\ heard' = Append(heard, g)
  BY <1>2, <1>16
<1>18. Len(heard') = h + 1
  BY <1>1, <1>17, SequenceMore DEF Begins
<1>19. BackOK'
  BY <1>2, <1>8, <1>10, <1>17, <1>18 DEF BackOK, rest, W
<1>20. ASSUME pc # "closed" \/ Left  PROVE IsSequence(out) /\ rest \o out = all
  <2>1. IsSequence(out) /\ back \o out = Span(W, h, n)
    BY <1>1, <1>20 DEF OutOK, W
  <2>2. Grouped(a, rest, out)
    BY <1>10, <1>12, <2>1, Associates
  <2>3. IsSequence(rest \o out) /\ a \o (rest \o out) = (a \o rest) \o out
    BY <2>2, Zenon DEF Grouped
  <2>4. Meet(a, rest \o out, a, all)
    BY <1>13, <2>1, <2>3, Zenon DEF Meet
  <2> QED
    BY <1>11, <1>12, <2>1, <2>3, <2>4, Cancels
<1>21. OutOK'
  <2>1. Left' = Left
    BY <1>2 DEF Left
  <2> QED
    BY <1>2, <1>17, <1>18, <1>20, <2>1 DEF OutOK, all, W
<1> QED
  BY <1>8, <1>17, <1>19, <1>21 DEF HearsNext, g

\* What is heard leaves the marks of what comes after it.
LEMMA AnsweringHear ==
  ASSUME Taking, Answering, Hear
  PROVE  Answering'
<1>1. /\ Len(heard) < Len(given) /\ heard' = Append(heard, given[Len(heard) + 1])
      /\ BackOK' /\ OutOK'
  BY HearIs DEF HearsNext
<1>2. given' = given /\ taken' = taken
  BY Zenon DEF Hear
<1>3. AllGiven(given) /\ Begins(heard, given) /\ NumbersOK
  BY DEF Answering
<1>4. Begins(heard', given)
  BY <1>1, <1>3, BeginsNext
<1>5. AllGiven(given)' /\ Begins(heard, given)' /\ NumbersOK'
  BY <1>2, <1>3, <1>4 DEF NumbersOK
<1> QED
  BY <1>1, <1>5 DEF Answering

\* Every step keeps it.
LEMMA AnsweringNext ==
  ASSUME Taking, Answering, [Next]_vars
  PROVE  Answering'
<1>1. CASE UNCHANGED vars
  <2>1. UNCHANGED <<heard, given, taken, back, pc, out>>
    BY <1>1 DEF vars, client
  <2> QED
    BY <2>1, AnsweringSame
<1>2. CASE Next
  <2>1. CASE Take
    BY <2>1, AnsweringTake
  <2>2. CASE Refuse
    <3>1. UNCHANGED <<heard, given, taken, back>> /\ pc' = "closed" /\ pc = "handling"
      BY <2>2 DEF Refuse, Close, client
    <3>2. ~Left
      BY <3>1, NotLeft
    <3> QED
      BY <3>1, <3>2, AnsweringSame
  <2>3. CASE Write \/ Leave
    BY <2>3, AnsweringWrite
  <2>4. CASE Send
    BY <2>4, AnsweringSend
  <2>5. CASE Hear
    BY <2>5, AnsweringHear
  <2>6. ASSUME NEW n \in 1..Len(sent), Arrive(n)  PROVE Answering'
    <3>1. UNCHANGED <<heard, given, taken, back, out>> /\ pc = "waiting"
      BY <2>6 DEF Arrive, client
    <3> QED
      BY <3>1, AnsweringSame
  <2>7. ASSUME NEW what, Says(what)  PROVE Answering'
    <3>1. UNCHANGED <<heard, given, taken, back, out, pc>>
      BY <2>7 DEF Says
    <3> QED
      BY <3>1, AnsweringSame
  <2> QED
    BY <1>2, <2>1, <2>2, <2>3, <2>4, <2>5, <2>6, <2>7, SaysWhat
<1> QED
  BY <1>1, <1>2

\* What is on its way back are always the marks of what was given and not heard yet,
\* and what was heard is how what was given begins (message.rs, to_bytes and interleave).
THEOREM AnsweringIsInvariant == Spec => [](Taking /\ Answering)
<1>1. Init => Taking /\ Answering
  BY TakingFirst, AnsweringFirst
<1>2. (Taking /\ Answering) /\ [Next]_vars => (Taking /\ Answering)'
  BY TakingNext, AnsweringNext
<1> QED
  BY <1>1, <1>2, PTL DEF Spec

\* The client reads the answers and the packets it was given, each whole and in
\* the order of what was asked.
THEOREM HeardAsGiven == Spec => []AnswersComeBackWhole
<1>1. Answering => AnswersComeBackWhole
  <2> SUFFICES ASSUME Answering  PROVE AnswersComeBackWhole
    OBVIOUS
  <2>1. AllGiven(given) /\ Begins(heard, given) /\ NumbersOK
    BY DEF Answering
  <2>2. IsPrefix(heard, given)
    BY <2>1, BeginsIsPrefix
  <2>3. DOMAIN given = 1..Len(given)
    BY <2>1 DEF AllGiven, IsSequence
  <2> QED
    BY <2>1, <2>2, <2>3, Zenon DEF NumbersOK, Counts, AnswersComeBackWhole
<1> QED
  BY <1>1, AnsweringIsInvariant, PTL

\* Nothing that is whole waits for what comes after it: once all that was said
\* has arrived all of it is taken, and while the server waits, or after a TEARDOWN,
\* every request that was taken is answered once all that was written is heard.
THEOREM AllIsTakenAndAnswered == Spec => []NothingIsHeldBack
<1>1. Taking /\ Answering => NothingIsHeldBack
  <2> SUFFICES ASSUME Taking, Answering  PROVE NothingIsHeldBack
    OBVIOUS
  <2>1. Begins(taken, said) /\ AllSayable(said)
    BY DEF Taking, SaidOK
  <2>2. ASSUME pc = "waiting", sent = <<>>  PROVE taken = said
    <3>1. WireReads(said, Len(taken), buf, sent)
      BY <2>2, OpenReads
    <3>2. read(buf) = Nothing
      BY <2>2 DEF Taking, WaitOK
    <3>3. Nothing # Refused /\ \A w, c : Taken(w, c) # Nothing
      BY DEF Nothing, Refused, Taken
    <3>4. Len(taken) = Len(said)
      BY <2>2, <3>1, <3>2, <3>3 DEF WireReads
    <3>5. PICK S : taken \in Seq(S) /\ said \in Seq(S)
      BY <2>1, Together DEF Begins
    <3>6. \A i \in 1..Len(taken) : taken[i] = said[i]
      BY <2>1 DEF Begins
    <3> QED
      BY <3>4, <3>5, <3>6, SeqEqual
  <2>3. ASSUME back = <<>>, pc = "waiting" \/ (pc = "closed" /\ Left),
               NEW k \in DOMAIN taken, taken[k].is = "request"
        PROVE  \E i \in DOMAIN heard : "sequence" \in DOMAIN heard[i] /\ heard[i].sequence = k
    <3> DEFINE n == Len(given)
               h == Len(heard)
               W == Written(given)
    <3>1. AllGiven(given) /\ Begins(heard, given) /\ NumbersOK /\ OutOK
      BY DEF Answering
    <3>2. h \in Nat /\ n \in Nat /\ h <= n
      BY <3>1, BeginsIsPrefix DEF Begins
    <3>3. Parts(W) /\ Len(W) = n
      BY <3>1, WrittenIs
    <3>4. Span(W, h, n) = <<>>
      <4>1. IsSequence(out) /\ <<>> \o out = Span(W, h, n)
        BY <2>3, <3>1 DEF OutOK
      <4>2. out = <<>>
        BY <2>3 DEF Taking, WaitOK
      <4> QED
        BY <4>1, <4>2
    <3>5. h = n
      <4>1. SUFFICES ASSUME h < n  PROVE FALSE
        BY <3>2
      <4> HIDE DEF W
      <4>2. h \in 0..Len(W) /\ n \in h..Len(W)
        BY <3>2, <3>3
      <4> DEFINE a == W[h + 1]
                 rest == Span(W, h + 1, n)
      <4>3. IsSequence(a) /\ a # <<>> /\ IsSequence(rest) /\ Span(W, h, n) = a \o rest
        BY <3>3, <4>1, <4>2, SpanBegins
      <4> HIDE DEF a, rest
      <4>4. Len(a \o rest) = Len(a) + Len(rest) /\ Len(a) \in Nat /\ Len(rest) \in Nat
        BY <4>3, JoinLength
      <4>5. a \o rest = <<>>
        BY <3>4, <4>3
      <4>6. Len(a) = 0
        BY <4>4, <4>5
      <4> QED
        BY <4>3, <4>6 DEF IsSequence
    <3>6. k \in 1..Len(taken)
      BY <2>1, <2>3 DEF Begins, IsSequence
    <3>7. PICK i \in 1..n : Counts(given[i]) /\ given[i].sequence = k
      BY <2>3, <3>1, <3>6 DEF NumbersOK
    <3>8. heard[i] = given[i] /\ i \in DOMAIN heard
      BY <3>1, <3>5 DEF Begins, IsSequence
    <3> QED
      BY <3>7, <3>8 DEF Counts
  <2> QED
    BY <2>2, <2>3 DEF NothingIsHeldBack
<1> QED
  BY <1>1, AnsweringIsInvariant, PTL

(***************************************************************************)
(* What a SETUP is answered with                                           *)
(***************************************************************************)

\* How a SETUP was answered, and of which path the session is by then.
SetupAnswer(w, g) ==
  LET named == split_track(path_of(w.line.uri))
      header == Get(w.headers, "Transport")
      transport == IF header = None THEN None ELSE Chosen(header)
  IN \/ g.status = 455
     \/ /\ g.status = 404 /\ path' = path
        /\ \/ path \notin {None, named.stream} \/ named.stream \notin DOMAIN Tracks
           \/ named.track = None
           \/ named.track \notin Tracks[named.stream]
     \/ g.status = 461 /\ transport = None
     \/ /\ g.status = 200 /\ transport # None
        /\ g.transport = to_header(transport) /\ g.track = named.track

\* SETUP answers once, in one of those ways.
LEMMA SetupIs ==
  ASSUME NEW w, w.is = "request", NEW n \in Int, Get(w.headers, "CSeq") = n, Setup(w)
  PROVE  \E g : IsAnswer(g) /\ g.sequence = n /\ Respond(g) /\ SetupAnswer(w, g)
<1>1. n # None /\ IsSequence(<<>>)
  BY MessagesAssumption DEF IsSequence
<1> DEFINE named == split_track(path_of(w.line.uri))
           header == Get(w.headers, "Transport")
           transport == IF header = None THEN None ELSE Chosen(header)
           plain(status) == [status |-> status, base |-> None, transport |-> None,
                             track |-> None, body |-> <<>>, sequence |-> n]
<1>2. ASSUME NEW status
      PROVE  /\ IsAnswer(Reply(w, status)) /\ Reply(w, status).sequence = n
             /\ Reply(w, status).status = status /\ Reply(w, status) = plain(status)
  <2>1. Reply(w, status) = plain(status)
    BY <1>1 DEF Reply
  <2> QED
    BY <1>1, <2>1 DEF IsAnswer
<1> DEFINE agreed(t, k) == [Reply(w, 200) EXCEPT !.transport = t, !.track = k]
<1>3. ASSUME NEW t, NEW k
      PROVE  /\ IsAnswer(agreed(t, k)) /\ agreed(t, k).sequence = n
             /\ agreed(t, k).status = 200 /\ agreed(t, k).transport = t /\ agreed(t, k).track = k
  <2> DEFINE g == agreed(t, k)
             p == plain(200)
             half == [p EXCEPT !.transport = t]
  <2>1. g = [half EXCEPT !.track = k]
    BY <1>2
  <2>2. half = [status |-> 200, base |-> None, transport |-> t,
                track |-> None, body |-> <<>>, sequence |-> n]
    <3>1. p = plain(200)
      OBVIOUS
    <3> HIDE DEF p
    <3> QED
      BY <3>1
  <2> HIDE DEF half
  <2>3. g = [status |-> 200, base |-> None, transport |-> t,
             track |-> k, body |-> <<>>, sequence |-> n]
    BY <2>1, <2>2
  <2> HIDE DEF agreed
  <2>4. IsAnswer(g) /\ g.sequence = n /\ g.status = 200 /\ g.transport = t /\ g.track = k
    BY <1>1, <2>3 DEF IsAnswer
  <2> QED
    BY <2>4
<1>4. \/ Respond(Reply(w, 455))
      \/ /\ Respond(Reply(w, 404)) /\ UNCHANGED session
         /\ \/ path \notin {None, named.stream} \/ named.stream \notin DOMAIN Tracks
            \/ named.track = None
            \/ named.track \notin Tracks[named.stream]
      \/ Respond(Reply(w, 461)) /\ transport = None
      \/ /\ transport # None
         /\ Respond([Reply(w, 200) EXCEPT !.transport = to_header(transport),
                                          !.track = named.track])
  BY Zenon DEF Setup
<1>5. CASE Respond(Reply(w, 455))
  BY <1>2, <1>5 DEF SetupAnswer
<1>6. CASE /\ Respond(Reply(w, 404)) /\ UNCHANGED session
           /\ \/ path \notin {None, named.stream} \/ named.stream \notin DOMAIN Tracks
              \/ named.track = None
              \/ named.track \notin Tracks[named.stream]
  <2> DEFINE g == Reply(w, 404)
  <2>1. IsAnswer(g) /\ g.sequence = n /\ g.status = 404
    BY <1>2
  <2> HIDE DEF g
  <2>2. SetupAnswer(w, g)
    BY <1>6, <2>1 DEF SetupAnswer, session
  <2> QED
    BY <1>6, <2>1, <2>2 DEF g
<1>7. CASE Respond(Reply(w, 461)) /\ transport = None
  BY <1>2, <1>7 DEF SetupAnswer
<1>8. CASE /\ transport # None
           /\ Respond([Reply(w, 200) EXCEPT !.transport = to_header(transport),
                                            !.track = named.track])
  <2> DEFINE t == to_header(transport)
             k == named.track
             g == agreed(t, k)
  <2>1. Respond(g)
    BY <1>8
  <2> HIDE DEF agreed
  <2>2. IsAnswer(g) /\ g.sequence = n /\ g.status = 200 /\ g.transport = t /\ g.track = k
    BY <1>3
  <2> HIDE DEF g
  <2>3. SetupAnswer(w, g)
    BY <1>8, <2>2 DEF SetupAnswer
  <2> QED
    BY <2>1, <2>2, <2>3
<1> QED
  BY <1>4, <1>5, <1>6, <1>7, <1>8

\* What a step does to the last answer, if that is to a SETUP.
StaysLast ==
  /\ UNCHANGED <<path, given>> /\ LastSetup' = LastSetup
  /\ \A k \in LastSetup : said'[k] = said[k]

ComesLast(k, g) ==
  /\ k \in 1..Len(said) /\ LastSetup' = {k} /\ said' = said /\ Last(given') = g
  /\ said[k].is = "request" /\ said[k].line.method = "SETUP"
  /\ SetupAnswer(said[k], g)

LastStep == StaysLast \/ LastSetup' = {} \/ \E k, g : ComesLast(k, g)

\* The last answer is to a SETUP if it has the number of one.
LEMMA WhatIsLast ==
  ASSUME Taking, Answering
  PROVE  /\ DOMAIN said = 1..Len(said) /\ Len(said) \in Nat
         /\ \A k : k \in LastSetup <=>
              /\ k \in 1..Len(said) /\ said[k].is = "request" /\ given # <<>>
              /\ Counts(Last(given)) /\ Last(given).sequence = k
              /\ said[k].line.method = "SETUP"
<1>1. DOMAIN said = 1..Len(said) /\ Len(said) \in Nat
  BY DEF Taking, SaidOK, AllSayable, IsSequence
<1> QED
  BY <1>1 DEF LastSetup, Requests, Counts

\* What stays what was given stays the last answer, whatever else is said.
LEMMA LastStays ==
  ASSUME Taking, Answering, Taking', UNCHANGED <<path, given>>,
         \A k \in 1..Len(said) : k \in 1..Len(said') /\ said'[k] = said[k]
  PROVE  LastStep
<1> DEFINE g == Last(given)
<1>1. /\ \A k \in 1..Len(given) : Counts(given[k]) => given[k].sequence \in 1..Len(taken)
      /\ IsSequence(given) /\ Begins(taken, said)
  BY DEF Answering, AllGiven, NumbersOK, Taking
<1>2. ASSUME given # <<>>, Counts(g)  PROVE g.sequence \in 1..Len(said)
  <2>1. Len(given) \in 1..Len(given)
    BY <1>1, <1>2 DEF IsSequence
  <2>2. g.sequence \in 1..Len(taken)
    BY <1>1, <1>2, <2>1 DEF Last
  <2>3. Len(taken) \in Nat /\ Len(said) \in Nat /\ Len(taken) <= Len(said)
    BY <1>1, BeginsIsPrefix DEF Begins
  <2> QED
    BY <2>2, <2>3
<1> HIDE DEF g
<1>3. DOMAIN said = 1..Len(said)
  BY WhatIsLast
<1>4. DOMAIN said' = 1..Len(said')
  BY DEF Taking, SaidOK, AllSayable, IsSequence
<1>5. Last(given') = g
  BY DEF g
<1>6. LastSetup = {k \in 1..Len(said) : /\ said[k].is = "request" /\ given # <<>>
                                        /\ Counts(g) /\ g.sequence = k
                                        /\ said[k].line.method = "SETUP"}
  BY <1>3 DEF LastSetup, Requests, Counts, g
<1>7. LastSetup' = {k \in 1..Len(said') : /\ said'[k].is = "request" /\ given # <<>>
                                          /\ Counts(g) /\ g.sequence = k
                                          /\ said'[k].line.method = "SETUP"}
  BY <1>4, <1>5 DEF LastSetup, Requests, Counts
<1>8. LastSetup' = LastSetup
  BY <1>2, <1>6, <1>7
<1>9. \A k \in LastSetup : said'[k] = said[k]
  BY <1>6
<1> QED
  BY <1>8, <1>9 DEF LastStep, StaysLast

\* What is taken makes its answer the last one, if it is a request.
LEMMA LastTake ==
  ASSUME Taking, Answering, Taking', Take
  PROVE  LastStep
<1> DEFINE k == Len(taken)
           w == said[k + 1]
<1>1. /\ k < Len(said) /\ UNCHANGED <<client, sent, back>>
      /\ w.is \in {"frame", "request"} /\ Handled(w)
  BY TakeIs, Zenon DEF TakesNext
<1>2. Begins(taken, said) /\ SaidOK
  BY DEF Taking
<1>3. k + 1 \in 1..Len(said) /\ k + 1 \in Int
  BY <1>1, <1>2, BeginsIsPrefix
<1>4. said' = said
  BY <1>1 DEF client
<1> HIDE DEF w
<1>5. CASE w.is = "frame"
  <2>1. UNCHANGED <<path, given>>
    BY <1>1, <1>5 DEF Handled, session
  <2> QED
    BY <1>4, <2>1, LastStays
<1>6. CASE w.is = "request"
  <2>1. Get(w.headers, "CSeq") = k + 1
    BY <1>2, <1>3, <1>6 DEF SaidOK, w
  <2>2. ASSUME NEW g, IsAnswer(g), g.sequence = k + 1, Respond(g)
        PROVE  /\ Last(given') = g /\ given' # <<>>
               /\ w.line.method # "SETUP" => LastSetup' = {}
               /\ w.line.method = "SETUP" => LastSetup' = {k + 1}
    <3>1. given' = Append(given, g) /\ IsSequence(given)
      BY <2>2 DEF Respond, Answering, AllGiven
    <3>2. Len(given) \in Nat /\ Len(given') = Len(given) + 1 /\ given'[Len(given) + 1] = g
      BY <3>1, SequenceMore
    <3>3. Last(given') = g
      BY <3>2 DEF Last
    <3>4. given' # <<>>
      <4>1. Len(given') # 0
        BY <3>2
      <4> QED
        BY <4>1
    <3>5. Counts(g)
      BY <2>2, WhatIsGiven
    <3>6. DOMAIN said = 1..Len(said)
      BY WhatIsLast
    <3>7. LastSetup' = {i \in 1..Len(said) : /\ said[i].is = "request"
                                             /\ g.sequence = i
                                             /\ said[i].line.method = "SETUP"}
      BY <1>4, <3>3, <3>4, <3>5, <3>6 DEF LastSetup, Requests, Counts
    <3>8. w.line.method # "SETUP" => LastSetup' = {}
      BY <2>2, <3>7 DEF w
    <3>9. w.line.method = "SETUP" => LastSetup' = {k + 1}
      BY <1>3, <1>6, <2>2, <3>7 DEF w
    <3> QED
      BY <3>3, <3>4, <3>8, <3>9
  <2>3. CASE w.line.method # "SETUP"
    <3>1. Responds(k + 1)
      BY <1>1, <1>3, <1>6, <2>1, EveryRequestIsAnswered
    <3>2. LastSetup' = {}
      BY <2>2, <2>3, <3>1 DEF Responds
    <3> QED
      BY <3>2 DEF LastStep
  <2>4. CASE w.line.method = "SETUP"
    <3>1. Setup(w)
      BY <1>1, <1>6, <2>4 DEF Handled
    <3>2. PICK g : IsAnswer(g) /\ g.sequence = k + 1 /\ Respond(g) /\ SetupAnswer(w, g)
      BY <1>3, <1>6, <2>1, <3>1, SetupIs
    <3>3. Last(given') = g /\ LastSetup' = {k + 1}
      BY <2>2, <2>4, <3>2
    <3>4. ComesLast(k + 1, g)
      BY <1>3, <1>4, <1>6, <2>4, <3>2, <3>3 DEF ComesLast, w
    <3> QED
      BY <3>4 DEF LastStep
  <2> QED
    BY <2>3, <2>4
<1> QED
  BY <1>1, <1>5, <1>6

\* Every step is one of those.
LEMMA LastNext ==
  ASSUME Taking, Answering, Taking', [Next]_vars
  PROVE  LastStep
<1>1. ASSUME UNCHANGED <<path, given, said>>  PROVE LastStep
  BY <1>1, LastStays
<1>2. CASE UNCHANGED vars
  BY <1>1, <1>2 DEF vars, client, session
<1>3. CASE Next
  <2>1. CASE Take
    BY <2>1, LastTake
  <2>2. CASE Refuse
    BY <1>1, <2>2 DEF Refuse, client, session
  <2>3. CASE Write \/ Leave
    BY <1>1, <2>3 DEF Write, Leave, client, session
  <2>4. CASE Send
    <3> DEFINE g == Frame(0, Packet)
    <3>1. given' = Append(given, g) /\ IsSequence(given)
      BY <2>4 DEF Send, Answering, AllGiven
    <3>2. ~Counts(g)
      BY WhatIsGiven
    <3> HIDE DEF g
    <3>3. Len(given) \in Nat /\ Len(given') = Len(given) + 1 /\ given'[Len(given) + 1] = g
      BY <3>1, SequenceMore
    <3>4. Last(given') = g
      BY <3>3 DEF Last
    <3>5. LastSetup' = {}
      BY <3>2, <3>4 DEF LastSetup, Counts
    <3> QED
      BY <3>5 DEF LastStep
  <2>5. CASE Hear
    <3>1. UNCHANGED <<path, given, said>>
      BY <2>5, Zenon DEF Hear, session
    <3> QED
      BY <1>1, <3>1
  <2>6. ASSUME NEW n \in 1..Len(sent), Arrive(n)  PROVE LastStep
    BY <1>1, <2>6 DEF Arrive, client, session
  <2>7. ASSUME NEW what, Sayable(what), Says(what)  PROVE LastStep
    <3>1. UNCHANGED <<path, given>> /\ said' = Append(said, Numbered(what)) /\ IsSequence(said)
      BY <2>7 DEF Says, session, Taking, SaidOK, AllSayable
    <3> DEFINE w == Numbered(what)
    <3> HIDE DEF w
    <3>2. /\ Len(said) \in Nat /\ Len(said') = Len(said) + 1
          /\ \A i \in 1..Len(said) : said'[i] = said[i]
      BY <3>1, SequenceMore
    <3>3. \A i \in 1..Len(said) : i \in 1..Len(said')
      BY <3>2
    <3> QED
      BY <3>1, <3>2, <3>3, LastStays
  <2> QED
    BY <1>3, <2>1, <2>2, <2>3, <2>4, <2>5, <2>6, <2>7, SaysWhat
<1> QED
  BY <1>2, <1>3

\* The one parameter of a name is the one that is stated.
LEMMA StatedIs ==
  ASSUME NEW params, NEW name, NEW i \in DOMAIN params, params[i][1] = name,
         DOMAIN params \subseteq Int, \A j \in DOMAIN params : params[j][1] = name => j = i
  PROVE  Stated(params, name) = Pair(params[i][2])
<1> DEFINE at == {j \in DOMAIN params : params[j][1] = name}
<1>1. at = {i} /\ i \in Int
  OBVIOUS
<1>2. Max({i}) = i
  BY <1>1 DEF Max
<1>3. Stated(params, name) = IF at = {} THEN << >> ELSE Pair(params[Max(at)][2])
  BY Zenon DEF Stated
<1> HIDE DEF at
<1>4. at # {}
  BY <1>1
<1> QED
  BY <1>1, <1>2, <1>3, <1>4

\* Two numbers that a channel can be of.
Channels == {<<a, b>> : a, b \in 0..(U8 - 1)}

\* A form of one client.
IsForm(f) ==
  LET params == f.params
  IN /\ IsSequence(params)
     /\ \A j \in DOMAIN params : /\ params[j] = <<params[j][1], params[j][2]>>
                                 /\ params[j][2] \in {<< >>} \union (Nat \X Nat)
     /\ \A j, k \in DOMAIN params : params[j][1] = params[k][1] => j = k

\* It can be sent on if it is over TCP and states the channels, which it is then
\* parsed to.
Sendable(f) == f.protocol = "RTP/AVP/TCP" /\ \A p \in ToSet(f.params) : p[1] # "multicast"

\* Such a form is parsed to the channels it states, and to nothing if it states none.
LEMMA SendableIs ==
  ASSUME NEW f, IsForm(f), Sendable(f)
  PROVE  \/ \E pair \in Channels : /\ <<"interleaved", pair>> \in ToSet(f.params)
                                   /\ parse_one(f) = Interleaved(pair)
         \/ /\ parse_one(f) = None
            /\ \A pair \in Channels : <<"interleaved", pair>> \notin ToSet(f.params)
<1> DEFINE params == f.params
           name == "interleaved"
           pair == Stated(params, name)
<1>1. /\ IsSequence(params)
      /\ \A j \in DOMAIN params : /\ params[j] = <<params[j][1], params[j][2]>>
                                  /\ params[j][2] \in {<< >>} \union (Nat \X Nat)
      /\ \A j, k \in DOMAIN params : params[j][1] = params[k][1] => j = k
  BY Zenon DEF IsForm
<1>2. DOMAIN params \subseteq Int
  BY <1>1 DEF IsSequence
<1>3. U8 \in Nat /\ U16 \in Nat /\ U8 <= U16
  BY AddressingAssumption
<1>4. \A i \in DOMAIN params : params[i][1] # "multicast"
  BY DEF Sendable, ToSet
<1>5. parse_one(f) = IF pair = << >> \/ pair[1] >= U8 \/ pair[2] >= U8 THEN None
                     ELSE Interleaved(pair)
  <2>1. f.protocol = "RTP/AVP/TCP"
    BY DEF Sendable
  <2>2. parse_one(f) =
          IF \/ f.protocol \notin {"RTP/AVP", "RTP/AVP/UDP", "RTP/AVP/TCP"}
             \/ \E i \in DOMAIN params : params[i][1] = "multicast"
             \/ pair = << >>
             \/ TRUE /\ (pair[1] >= U8 \/ pair[2] >= U8)
          THEN None ELSE Interleaved(pair)
    <3>1. (f.protocol = "RTP/AVP/TCP") = TRUE
      BY <2>1
    <3> QED
      BY <3>1, Zenon DEF parse_one
  <2> HIDE DEF params, pair
  <2> QED
    BY <1>4, <2>1, <2>2
<1> HIDE DEF params
<1>6. ASSUME NEW i \in DOMAIN params, params[i][1] = name
      PROVE  pair = Pair(params[i][2])
    BY <1>1, <1>2, <1>6, StatedIs
<1>7. CASE \A i \in DOMAIN params : params[i][1] # name
  <2>1. pair = << >>
    BY <1>7 DEF Stated
  <2>2. parse_one(f) = None
    BY <1>5, <2>1
  <2>3. \A p : p \in ToSet(params) => p[1] # name
    BY <1>7 DEF ToSet
  <2>4. ASSUME NEW two \in Channels  PROVE <<name, two>> \notin ToSet(params)
    <3>1. <<name, two>>[1] = name
      OBVIOUS
    <3> QED
      BY <2>3, <3>1
  <2> QED
    BY <2>2, <2>4 DEF params
<1>8. ASSUME NEW i \in DOMAIN params, params[i][1] = name
      PROVE  \/ \E two \in Channels : /\ <<name, two>> \in ToSet(params)
                                      /\ parse_one(f) = Interleaved(two)
             \/ /\ parse_one(f) = None
                /\ \A two \in Channels : <<name, two>> \notin ToSet(params)
  <2> DEFINE v == params[i][2]
  <2>1. params[i] = <<name, v>> /\ v \in {<< >>} \union (Nat \X Nat)
    BY <1>1, <1>8
  <2>2. pair = Pair(v)
    BY <1>6, <1>8
  <2>3. ASSUME NEW two, <<name, two>> \in ToSet(params)  PROVE two = v
    <3>1. PICK j \in DOMAIN params : params[j] = <<name, two>>
      BY <2>3 DEF ToSet
    <3>2. params[j][1] = name
      BY <3>1
    <3>3. j = i
      BY <1>1, <1>8, <3>2
    <3> HIDE DEF v
    <3>4. <<name, two>> = <<name, v>>
      BY <2>1, <3>1, <3>3
    <3> QED
      BY <3>4
  <2>4. <<name, v>> \in ToSet(params)
    BY <2>1 DEF ToSet
  <2> HIDE DEF v, pair
  <2>5. CASE v = << >>
    <3>1. pair = << >>
      BY <2>2, <2>5 DEF Pair
    <3>2. parse_one(f) = None
      BY <1>5, <3>1
    <3>3. << >> \notin Channels
      BY DEF Channels
    <3> QED
      BY <2>3, <2>5, <3>2, <3>3
  <2>6. CASE v \in Nat \X Nat
    <3>1. Len(v) = 2 /\ v[1] \in Nat /\ v[2] \in Nat /\ v = <<v[1], v[2]>> /\ v # << >>
      BY <2>6
    <3>2. pair = IF v[1] < U16 /\ v[2] < U16 THEN v ELSE << >>
      BY <2>2, <3>1 DEF Pair
    <3>3. CASE v[1] < U8 /\ v[2] < U8
      <4>1. v \in Channels
        <5>1. v[1] \in 0..(U8 - 1) /\ v[2] \in 0..(U8 - 1)
          BY <1>3, <3>1, <3>3
        <5> QED
          BY <3>1, <5>1 DEF Channels
      <4>2. v[1] < U16 /\ v[2] < U16
        BY <1>3, <3>1, <3>3
      <4>3. pair = v
        BY <3>2, <4>2
      <4>4. ~(pair = << >> \/ pair[1] >= U8 \/ pair[2] >= U8)
        BY <1>3, <3>1, <3>3, <4>3
      <4>5. parse_one(f) = Interleaved(v)
        BY <1>5, <4>3, <4>4
      <4> QED
        BY <2>4, <4>1, <4>5
    <3>4. CASE ~(v[1] < U8 /\ v[2] < U8)
      <4>1. parse_one(f) = None
        <5>1. pair = << >> \/ pair[1] >= U8 \/ pair[2] >= U8
          BY <1>3, <3>1, <3>2, <3>4
        <5> QED
          BY <1>5, <5>1
      <4>2. v \notin Channels
        <5>1. ASSUME NEW a \in 0..(U8 - 1), NEW b \in 0..(U8 - 1), v = <<a, b>>  PROVE FALSE
          <6>1. v[1] = a /\ v[2] = b
            BY <5>1
          <6>2. a < U8 /\ b < U8
            BY <1>3
          <6> QED
            BY <3>4, <6>1, <6>2
        <5> QED
          BY <5>1 DEF Channels
      <4> QED
        BY <2>3, <4>1, <4>2
    <3> QED
      BY <3>3, <3>4
  <2> QED
    BY <2>1, <2>5, <2>6
<1> QED
  BY <1>7, <1>8 DEF params

\* What cannot be sent on is not parsed to channels.
LEMMA OtherFormIs ==
  ASSUME NEW f, ~Sendable(f)
  PROVE  parse_one(f) = None \/ parse_one(f).is # "interleaved"
<1>1. CASE f.protocol = "RTP/AVP/TCP"
  <2>1. \E i \in DOMAIN f.params : f.params[i][1] = "multicast"
    BY <1>1 DEF Sendable, ToSet
  <2> QED
    BY <2>1, Zenon DEF parse_one
<1>2. CASE f.protocol # "RTP/AVP/TCP"
  <2>1. \/ parse_one(f) = None
        \/ parse_one(f) = Udp(Stated(f.params, "client_port"))
    BY <1>2, Zenon DEF parse_one
  <2>2. \A pair : Udp(pair).is = "udp"
    BY DEF Udp
  <2> QED
    BY <2>1, <2>2
<1> QED
  BY <1>1, <1>2

\* What is agreed to of a header, and when nothing is.
Agreement(header, transport) ==
  IF transport = None THEN Wanted(header) = {}
  ELSE \E pair \in Wanted(header) : <<"interleaved", pair>> \in ToSet(to_header(transport).params)

\* What is wanted, in the words of the lemmas above.
LEMMA WantedIs ==
  ASSUME NEW header, NEW pair
  PROVE  pair \in Wanted(header) <=>
           /\ pair \in Channels
           /\ \E f \in ToSet(header) : Sendable(f) /\ <<"interleaved", pair>> \in ToSet(f.params)
<1> DEFINE Writes(f) == /\ f.protocol = "RTP/AVP/TCP"
                        /\ \A p \in ToSet(f.params) : p[1] # "multicast"
                        /\ <<"interleaved", pair>> \in ToSet(f.params)
           Asks(f) == Sendable(f) /\ <<"interleaved", pair>> \in ToSet(f.params)
<1>1. \A f : Writes(f) <=> Asks(f)
  BY Zenon DEF Sendable
<1>2. pair \in Wanted(header) <=> pair \in Channels /\ \E f \in ToSet(header) : Writes(f)
  BY SMT DEF Wanted, Channels
<1> HIDE DEF Writes, Asks
<1>3. pair \in Wanted(header) <=> pair \in Channels /\ \E f \in ToSet(header) : Asks(f)
  BY <1>1, <1>2
<1> QED
  BY <1>3 DEF Asks

\* setup() agrees to channels the header asks for, if it asks for any.
LEMMA ChosenIs ==
  ASSUME NEW header, OffersWell(header)
  PROVE  Agreement(header, Chosen(header))
<1> DEFINE good == {i \in offered(header) : parse_one(header[i]).is = "interleaved"}
           t == Chosen(header)
<1>1. IsSequence(header) /\ \A i \in DOMAIN header : IsForm(header[i])
  BY Zenon DEF OffersWell, IsForm
<1>2. t = IF good = {} THEN None ELSE parse_one(header[Min(good)])
  BY Zenon DEF Chosen
<1>3. \A i : i \in good <=> /\ i \in DOMAIN header /\ parse_one(header[i]) # None
                            /\ parse_one(header[i]).is = "interleaved"
  BY DEF offered
<1>4. DOMAIN header \subseteq Nat
  BY <1>1 DEF IsSequence
<1> HIDE DEF good, t
<1>5. ASSUME NEW pair \in Channels
      PROVE  /\ Interleaved(pair) # None /\ Interleaved(pair).is = "interleaved"
             /\ <<"interleaved", pair>> \in ToSet(to_header(Interleaved(pair)).params)
  <2>1. PICK a \in 0..(U8 - 1), b \in 0..(U8 - 1) : pair = <<a, b>>
    BY DEF Channels
  <2>2. U8 \in Nat /\ None \notin [is : {"interleaved", "udp"}, rtp : Int, rtcp : Int]
    BY AddressingAssumption
  <2>3. a \in Int /\ b \in Int
    BY <2>2
  <2> DEFINE it == Interleaved(pair)
  <2>4. it = [is |-> "interleaved", rtp |-> a, rtcp |-> b]
    BY <2>1 DEF Interleaved
  <2> HIDE DEF it
  <2>5. it.is = "interleaved" /\ it.rtp = a /\ it.rtcp = b
    BY <2>4
  <2>6. it # None
    BY <2>2, <2>3, <2>4
  <2> DEFINE first == <<"unicast", << >>>>  second == <<"interleaved", pair>>
             params == <<first, second>>
  <2>7. to_header(it) = [protocol |-> "RTP/AVP/TCP", params |-> params]
    BY <2>1, <2>5 DEF to_header
  <2> HIDE DEF first, second
  <2>8. 2 \in DOMAIN params /\ params[2] = second
    OBVIOUS
  <2> HIDE DEF params
  <2>9. to_header(it).params = params
    BY <2>7
  <2>10. second \in ToSet(params)
    BY <2>8 DEF ToSet
  <2> QED
    BY <2>5, <2>6, <2>9, <2>10 DEF it, second
<1>6. CASE good = {}
  <2>1. t = None
    BY <1>2, <1>6
  <2>2. ASSUME NEW f \in ToSet(header), Sendable(f), NEW pair \in Channels,
               <<"interleaved", pair>> \in ToSet(f.params)
        PROVE  FALSE
    <3>1. PICK i \in DOMAIN header : f = header[i]
      BY <2>2 DEF ToSet
    <3>2. IsForm(f)
      BY <1>1, <3>1
    <3>3. PICK two \in Channels : parse_one(f) = Interleaved(two)
      BY <2>2, <3>2, SendableIs
    <3>4. parse_one(f) # None /\ parse_one(f).is = "interleaved"
      BY <1>5, <3>3
    <3> QED
      BY <1>3, <1>6, <3>1, <3>4
  <2>3. Wanted(header) = {}
    BY <2>2, WantedIs
  <2> QED
    BY <2>1, <2>3 DEF Agreement, t
<1>7. CASE good # {}
  <2>1. good \in SUBSET Nat /\ good \subseteq Int
    BY <1>3, <1>4
  <2>2. PICK i \in good : \A j \in good : i <= j
    BY <1>7, <2>1, LeastNatural
  <2>3. Min(good) = i
    BY <2>1, <2>2, MinIs
  <2> DEFINE f == header[i]
  <2>4. /\ t = parse_one(f) /\ i \in DOMAIN header /\ parse_one(f) # None
        /\ parse_one(f).is = "interleaved"
    BY <1>2, <1>3, <1>7, <2>3
  <2>5. IsForm(f) /\ f \in ToSet(header)
    BY <1>1, <2>4 DEF ToSet
  <2> HIDE DEF f
  <2>6. Sendable(f)
    BY <2>4, OtherFormIs
  <2>7. PICK pair \in Channels : /\ <<"interleaved", pair>> \in ToSet(f.params)
                                 /\ parse_one(f) = Interleaved(pair)
    BY <2>4, <2>5, <2>6, SendableIs
  <2>8. t # None /\ <<"interleaved", pair>> \in ToSet(to_header(t).params)
    BY <1>5, <2>4, <2>7
  <2>9. pair \in Wanted(header)
    BY <2>5, <2>6, <2>7, WantedIs
  <2> QED
    BY <2>8, <2>9 DEF Agreement, t
<1> QED
  BY <1>6, <1>7

\* Every offer that was made is one of those.
OffersOK == \A k \in 1..Len(said) : OffersOf(said[k])

\* At the start nothing was offered.
LEMMA OffersFirst == Init => OffersOK
<1> SUFFICES ASSUME Init  PROVE OffersOK
  OBVIOUS
<1>1. Len(said) = 0
  BY DEF Init
<1> QED
  BY <1>1 DEF OffersOK

\* Nothing else is offered in any step.
LEMMA OffersNext ==
  ASSUME EveryOfferIsWell, Taking, OffersOK, [Next]_vars
  PROVE  OffersOK'
<1>1. ASSUME UNCHANGED said  PROVE OffersOK'
  BY <1>1 DEF OffersOK
<1>2. ASSUME NEW what, Sayable(what), OffersOf(what), Says(what)  PROVE OffersOK'
  <2> DEFINE w == Numbered(what)
             n == Len(said)
  <2>1. said' = Append(said, w) /\ IsSequence(said)
    BY <1>2 DEF Says, Taking, SaidOK, AllSayable
  <2>2. /\ w.is = what.is
        /\ what.is = "request" =>
             w.line = what.line /\ Get(w.headers, "Transport") = Get(what.headers, "Transport")
    BY <1>2, NumberedIs
  <2> HIDE DEF w
  <2>3. OffersOf(w)
    BY <1>2, <2>2 DEF OffersOf
  <2>4. /\ n \in Nat /\ Len(said') = n + 1 /\ said'[n + 1] = w
        /\ \A i \in 1..n : said'[i] = said[i]
    BY <2>1, SequenceMore
  <2>5. ASSUME NEW i \in 1..(n + 1)  PROVE OffersOf(said'[i])
    <3>1. CASE i \in 1..n
      BY <2>4, <3>1 DEF OffersOK
    <3>2. CASE i = n + 1
      BY <2>3, <2>4, <3>2
    <3> QED
      BY <2>4, <3>1, <3>2
  <2>6. \A i \in 1..Len(said') : OffersOf(said'[i])
    BY <2>4, <2>5
  <2> QED
    BY <2>6, Zenon DEF OffersOK
<1>3. ASSUME NEW uri \in Uris, Says(Request("DESCRIBE", uri, << >>))  PROVE OffersOK'
  <2> DEFINE what == Request("DESCRIBE", uri, << >>)
  <2>1. Sayable(what)
    BY RequestsAreSayable
  <2>2. what.line.method = "DESCRIBE"
    BY DEF Request
  <2>3. OffersOf(what)
    BY <2>2 DEF OffersOf
  <2> HIDE DEF what
  <2> QED
    BY <1>2, <1>3, <2>1, <2>3 DEF what
<1>4. ASSUME NEW numeral \in DOMAIN Numerals, NEW header \in Headers, SaysSetup(numeral, header)
      PROVE  OffersOK'
  <2> DEFINE one == <<[name |-> "Transport", value |-> header]>>
             what == Request("SETUP", base \o Control(numeral), one)
  <2>1. Sayable(what) /\ Get(one, "Transport") = header
    BY RequestsAreSayable
  <2>2. Says(what)
    BY <1>4, Zenon DEF SaysSetup
  <2> HIDE DEF one
  <2>3. what.headers = one
    BY DEF Request
  <2>4. OffersWell(header)
    BY DEF EveryOfferIsWell
  <2>5. OffersOf(what)
    BY <2>1, <2>3, <2>4 DEF OffersOf
  <2> HIDE DEF what
  <2> QED
    BY <1>2, <2>1, <2>2, <2>5
<1>5. ASSUME NEW what \in Others, Says(what)  PROVE OffersOK'
  <2>1. Sayable(what) /\ OffersOf(what)
    BY MessagesAssumption, Zenon DEF EveryOfferIsWell
  <2> QED
    BY <1>2, <1>5, <2>1
<1>6. CASE UNCHANGED vars
  BY <1>1, <1>6 DEF vars, client
<1>7. CASE Take \/ Refuse \/ Leave \/ Write \/ Send
  <2>1. UNCHANGED client
    BY <1>7, Zenon DEF Take, Refuse, Leave, Write, Send
  <2> QED
    BY <1>1, <2>1 DEF client
<1>8. CASE Hear
  <2>1. UNCHANGED said
    BY <1>8, Zenon DEF Hear
  <2> QED
    BY <1>1, <2>1
<1>9. ASSUME NEW n \in 1..Len(sent), Arrive(n)  PROVE OffersOK'
  BY <1>1, <1>9 DEF Arrive, client
<1> QED
  BY <1>3, <1>4, <1>5, <1>6, <1>7, <1>8, <1>9, Zenon DEF Next

\* At the start nothing was agreed to.
LEMMA AgreesFirst == Init => AgreesToWhatWasOffered
<1> SUFFICES ASSUME Init  PROVE AgreesToWhatWasOffered
  OBVIOUS
<1>1. given = << >>
  BY DEF Init
<1>2. LastSetup = {}
  BY <1>1 DEF LastSetup
<1> QED
  BY <1>2 DEF AgreesToWhatWasOffered

\* An answer that becomes the last one agrees to what was offered.
LEMMA AgreesNext ==
  ASSUME Taking, OffersOK, AgreesToWhatWasOffered, LastStep
  PROVE  AgreesToWhatWasOffered'
<1>1. CASE StaysLast
  <2>1. \A k \in LastSetup' : AgreesIn(Get(said'[k].headers, "Transport"), Last(given'))
    BY <1>1 DEF StaysLast, AgreesToWhatWasOffered
  <2> QED
    BY <2>1 DEF AgreesToWhatWasOffered
<1>2. CASE LastSetup' = {}
  BY <1>2 DEF AgreesToWhatWasOffered
<1>3. ASSUME NEW k, NEW g, ComesLast(k, g)  PROVE AgreesToWhatWasOffered'
  <2> DEFINE w == said[k]
             header == Get(w.headers, "Transport")
  <2>1. /\ k \in 1..Len(said) /\ LastSetup' = {k} /\ said' = said /\ Last(given') = g
        /\ w.is = "request" /\ w.line.method = "SETUP" /\ SetupAnswer(w, g)
    BY <1>3 DEF ComesLast
  <2>2. OffersWell(header)
    BY <2>1 DEF OffersOK, OffersOf
  <2>3. header # None /\ Agreement(header, Chosen(header))
    BY <2>2, ChosenIs DEF OffersWell
  <2>4. /\ g.status = 200 => Chosen(header) # None /\ g.transport = to_header(Chosen(header))
        /\ g.status = 461 => Chosen(header) = None
    <3> HIDE DEF header
    <3>1. \/ g.status = 455 \/ g.status = 404
          \/ g.status = 461 /\ Chosen(header) = None
          \/ /\ g.status = 200 /\ Chosen(header) # None
             /\ g.transport = to_header(Chosen(header))
      BY <2>1, <2>3, Zenon DEF SetupAnswer, header
    <3> QED
      BY <3>1
  <2>5. AgreesIn(header, g)
    <3> HIDE DEF header
    <3> QED
      BY <2>3, <2>4 DEF Agreement, AgreesIn
  <2>6. \A i \in LastSetup' : AgreesIn(Get(said'[i].headers, "Transport"), Last(given'))
    BY <2>1, <2>5
  <2> QED
    BY <2>6 DEF AgreesToWhatWasOffered
<1> QED
  BY <1>1, <1>2, <1>3 DEF LastStep

\* What is agreed is one of the forms the client wrote, on this connection, and
\* nothing is refused that it wrote so, if no form names a parameter twice.
THEOREM AgreesAsOffered ==
  ASSUME EveryOfferIsWell
  PROVE  Spec => []AgreesToWhatWasOffered
<1> DEFINE Inv == Taking /\ Answering /\ OffersOK /\ AgreesToWhatWasOffered
<1>1. Init => Inv
  BY TakingFirst, AnsweringFirst, OffersFirst, AgreesFirst
<1>2. Inv /\ [Next]_vars => Inv'
  <2> SUFFICES ASSUME Inv, [Next]_vars  PROVE Inv'
    OBVIOUS
  <2>1. Taking' /\ Answering'
    BY TakingNext, AnsweringNext
  <2>2. OffersOK'
    BY OffersNext
  <2>3. AgreesToWhatWasOffered'
    BY <2>1, LastNext, AgreesNext
  <2> QED
    BY <2>1, <2>2, <2>3
<1>3. Inv => AgreesToWhatWasOffered
  OBVIOUS
<1> QED
  BY <1>1, <1>2, <1>3, PTL DEF Spec

(***************************************************************************)
(* Where a request is to go                                                *)
(***************************************************************************)

\* The greatest of a set is what none of it is more than.
LEMMA MaxIs ==
  ASSUME NEW A, A \subseteq Int, NEW m \in A, \A x \in A : x <= m
  PROVE  Max(A) = m
<1>1. Max(A) = CHOOSE x \in A : \A y \in A : x >= y
  BY DEF Max
<1>2. Max(A) \in A /\ \A y \in A : Max(A) >= y
  <2>1. \E x \in A : \A y \in A : x >= y
    OBVIOUS
  <2> QED
    BY <1>1, <2>1, Zenon
<1>3. Max(A) >= m /\ m >= Max(A) /\ Max(A) \in Int /\ m \in Int
  BY <1>2
<1> QED
  BY <1>3

\* Every set of places in a sequence that is not empty has a greatest.
LEMMA GreatestPlace ==
  ASSUME NEW n \in Nat, NEW G \in SUBSET (1..n), G # {}
  PROVE  \E m \in G : \A k \in G : k <= m
<1> DEFINE H == {n - k : k \in G}
<1>1. \A k \in G : n - k \in Nat
  OBVIOUS
<1>2. H \in SUBSET Nat /\ H # {}
  BY <1>1
<1>3. PICK h \in H : \A k \in H : h <= k
  <2> HIDE DEF H
  <2> QED
    BY <1>2, LeastNatural
<1>4. PICK m \in G : h = n - m
  BY <1>3
<1>5. ASSUME NEW k \in G  PROVE k <= m
  <2>1. n - k \in H
    OBVIOUS
  <2>2. h <= n - k
    BY <1>3, <2>1
  <2> QED
    BY <1>4, <2>2
<1> QED
  BY <1>5

\* What lies between two places, if nothing but separators lies around them.
LEMMA TrimIs ==
  ASSUME NEW S, NEW s \in Seq(S), NEW d \in Nat, NEW lo \in Nat, NEW hi \in Nat,
         d < lo, lo <= hi, hi <= Len(s), s[lo] # "/", s[hi] # "/",
         \A i \in (d + 1)..(lo - 1) : s[i] = "/", \A i \in (hi + 1)..Len(s) : s[i] = "/"
  PROVE  Trim(SubSeq(s, d + 1, Len(s))) = SubSeq(s, lo, hi)
<1> DEFINE n == Len(s)
           q == SubSeq(s, d + 1, n)
           kept == {i \in DOMAIN q : q[i] # "/"}
           a == lo - d
           z == hi - d
<1>1. n \in Nat /\ d <= n
  OBVIOUS
<1>2. q \in Seq(S) /\ Len(q) = n - d /\ \A i \in 1..(n - d) : q[i] = s[d + i]
  BY <1>1, SubSeqIs
<1>3. Trim(q) = IF kept = {} THEN << >> ELSE SubSeq(q, Min(kept), Max(kept))
  BY Zenon DEF Trim
<1> HIDE DEF q
<1>4. DOMAIN q = 1..(n - d)
  BY <1>2
<1>5. a \in 1..(n - d) /\ z \in 1..(n - d) /\ d + a = lo /\ d + z = hi
  BY <1>1
<1>6. a \in kept /\ z \in kept /\ kept \subseteq Int
  <2>1. q[a] = s[lo] /\ q[z] = s[hi]
    BY <1>2, <1>5
  <2>2. kept \subseteq 1..(n - d)
    BY <1>4
  <2> QED
    BY <1>4, <1>5, <2>1, <2>2
<1>7. ASSUME NEW i \in kept  PROVE a <= i /\ i <= z
  <2>1. i \in 1..(n - d) /\ s[d + i] # "/"
    BY <1>2, <1>4
  <2>2. ~(d + i < lo)
    <3>1. d + i < lo => d + i \in (d + 1)..(lo - 1)
      BY <2>1
    <3> QED
      BY <2>1, <3>1
  <2>3. ~(d + i > hi)
    <3>1. d + i > hi => d + i \in (hi + 1)..n
      BY <1>1, <2>1
    <3> QED
      BY <2>1, <3>1
  <2> QED
    BY <2>1, <2>2, <2>3
<1> HIDE DEF kept
<1>8. Min(kept) = a /\ Max(kept) = z
  BY <1>6, <1>7, MinIs, MaxIs
<1>9. Trim(q) = SubSeq(q, a, z)
  BY <1>3, <1>6, <1>8
<1>10. SubSeq(q, a, z) = SubSeq(s, lo, hi)
  <2> DEFINE x == SubSeq(q, a, z)
             y == SubSeq(s, lo, hi)
  <2>1. /\ x \in Seq(S) /\ Len(x) = z - a + 1
        /\ \A i \in 1..(z - a + 1) : x[i] = q[a - 1 + i]
    <3>1. a - 1 \in Nat /\ z \in Nat /\ a - 1 <= z /\ z <= Len(q) /\ (a - 1) + 1 = a
      BY <1>2, <1>5
    <3> DEFINE k == a - 1
    <3>2. k + 1 = a
      BY <3>1
    <3> HIDE DEF k
    <3>3. /\ SubSeq(q, k + 1, z) \in Seq(S) /\ Len(SubSeq(q, k + 1, z)) = z - k
          /\ \A i \in 1..(z - k) : SubSeq(q, k + 1, z)[i] = q[k + i]
      BY <1>2, <3>1, SubSeqIs DEF k
    <3>4. z - k = z - a + 1
      BY <1>5 DEF k
    <3> QED
      BY <3>2, <3>3, <3>4 DEF k
  <2>2. /\ y \in Seq(S) /\ Len(y) = hi - lo + 1
        /\ \A i \in 1..(hi - lo + 1) : y[i] = s[lo - 1 + i]
    <3> DEFINE k == lo - 1
    <3>1. k \in Nat /\ k <= hi /\ k + 1 = lo
      OBVIOUS
    <3> HIDE DEF k
    <3>3. /\ SubSeq(s, k + 1, hi) \in Seq(S) /\ Len(SubSeq(s, k + 1, hi)) = hi - k
          /\ \A i \in 1..(hi - k) : SubSeq(s, k + 1, hi)[i] = s[k + i]
      BY <3>1, SubSeqIs
    <3>4. hi - k = hi - lo + 1
      BY DEF k
    <3> QED
      BY <3>1, <3>3, <3>4 DEF k
  <2> HIDE DEF x, y
  <2>3. z - a + 1 = hi - lo + 1
    OBVIOUS
  <2>4. ASSUME NEW i \in 1..(hi - lo + 1)  PROVE x[i] = y[i]
    <3>1. a - 1 + i \in 1..(n - d) /\ d + (a - 1 + i) = lo - 1 + i
      BY <1>1, <1>5
    <3>2. x[i] = q[a - 1 + i]
      BY <2>1, <2>3
    <3> DEFINE j == a - 1 + i
    <3>3. q[j] = s[d + j]
      BY <1>2, <3>1
    <3> HIDE DEF a
    <3>4. d + j = lo - 1 + i
      BY <3>1
    <3> QED
      BY <2>2, <3>2, <3>3, <3>4
  <2>5. Len(x) = Len(y) /\ \A i \in 1..Len(x) : x[i] = y[i]
    BY <2>1, <2>2, <2>3, <2>4
  <2>6. x = y
    BY <2>1, <2>2, <2>5, SeqEqual
  <2> QED
    BY <2>6 DEF x, y
<1> QED
  BY <1>9, <1>10 DEF q

\* Nothing is left of separators.
LEMMA TrimNothing ==
  ASSUME NEW S, NEW s \in Seq(S), NEW d \in Nat, d <= Len(s),
         \A i \in (d + 1)..Len(s) : s[i] = "/"
  PROVE  Trim(SubSeq(s, d + 1, Len(s))) = << >>
<1> DEFINE n == Len(s)
           q == SubSeq(s, d + 1, n)
           kept == {i \in DOMAIN q : q[i] # "/"}
<1>1. n \in Nat /\ d <= n
  OBVIOUS
<1>2. q \in Seq(S) /\ Len(q) = n - d /\ \A i \in 1..(n - d) : q[i] = s[d + i]
  BY <1>1, SubSeqIs
<1>3. Trim(q) = IF kept = {} THEN << >> ELSE SubSeq(q, Min(kept), Max(kept))
  BY Zenon DEF Trim
<1> HIDE DEF q
<1>4. ASSUME NEW i \in DOMAIN q  PROVE q[i] = "/"
  <2>1. i \in 1..(n - d)
    BY <1>2
  <2>2. d + i \in (d + 1)..n
    BY <1>1, <2>1
  <2> QED
    BY <1>2, <2>1, <2>2
<1>5. kept = {}
  BY <1>4
<1> QED
  BY <1>3, <1>5 DEF q

\* Where the path of a URI begins, which is after its authority if it has one.
Starts(s, d) ==
  \/ d = 0 /\ \A i \in 1..Len(s) : s[i] # "://"
  \/ \E p \in 1..(d - 1) : /\ d \in 1..Len(s) /\ s[p] = "://" /\ s[d] = "/"
                           /\ \A i \in 1..(p - 1) : s[i] # "://"
                           /\ \A i \in (p + 1)..(d - 1) : s[i] # "/"

\* The first of two places, and what is after it.
LEMMA FirstIs ==
  ASSUME NEW S, NEW s \in Seq(S), NEW sep, NEW p \in 1..Len(s), s[p] = sep,
         \A i \in 1..(p - 1) : s[i] # sep
  PROVE  Places(s, sep) # {} /\ FirstAt(s, sep) = p
<1> DEFINE at == {i \in DOMAIN s : s[i] = sep}
<1>1. DOMAIN s = 1..Len(s) /\ Len(s) \in Nat
  OBVIOUS
<1>2. p \in at /\ at \subseteq Int
  BY <1>1
<1>3. ASSUME NEW i \in at  PROVE p <= i
  <2>1. i \in 1..Len(s) /\ s[i] = sep
    BY <1>1
  <2>2. i < p => i \in 1..(p - 1)
    BY <2>1
  <2> QED
    BY <2>1, <2>2
<1> HIDE DEF at
<1>4. Min(at) = p
  BY <1>2, <1>3, MinIs
<1>5. Places(s, sep) = at
  BY DEF Places, at
<1> QED
  BY <1>2, <1>4, <1>5 DEF FirstAt

\* There is a first place of a separator that is there.
LEMMA FirstExists ==
  ASSUME NEW S, NEW s \in Seq(S), NEW sep, Places(s, sep) # {}
  PROVE  \E p \in 1..Len(s) : /\ s[p] = sep /\ \A i \in 1..(p - 1) : s[i] # sep
                              /\ FirstAt(s, sep) = p
<1> DEFINE at == {i \in DOMAIN s : s[i] = sep}
<1>1. DOMAIN s = 1..Len(s) /\ Len(s) \in Nat
  OBVIOUS
<1>2. at \in SUBSET Nat /\ at # {}
  BY <1>1 DEF Places
<1>3. PICK p \in at : \A i \in at : p <= i
  <2> HIDE DEF at
  <2> QED
    BY <1>2, LeastNatural
<1>4. p \in 1..Len(s) /\ s[p] = sep
  BY <1>1
<1>5. ASSUME NEW i \in 1..(p - 1)  PROVE s[i] # sep
  <2>1. i \in DOMAIN s /\ i \in Int /\ i < p
    BY <1>1, <1>4
  <2>2. ~(p <= i)
    BY <1>4, <2>1
  <2> QED
    BY <1>3, <2>1, <2>2
<1>6. FirstAt(s, sep) = p
  BY <1>4, <1>5, FirstIs
<1> QED
  BY <1>4, <1>5, <1>6

\* A part of a part is a part.
LEMMA PartOfPart ==
  ASSUME NEW S, NEW s \in Seq(S), NEW p \in Nat, NEW a \in Nat, p + a <= Len(s)
  PROVE  SubSeq(SubSeq(s, p + 1, Len(s)), a + 1, Len(SubSeq(s, p + 1, Len(s))))
           = SubSeq(s, p + a + 1, Len(s))
<1> DEFINE n == Len(s)
           q == SubSeq(s, p + 1, n)
           m == Len(q)
           x == SubSeq(q, a + 1, m)
           d == p + a
           y == SubSeq(s, d + 1, n)
<1>1. n \in Nat /\ p <= n /\ d \in Nat /\ d <= n
  OBVIOUS
<1>2. q \in Seq(S) /\ m = n - p /\ \A i \in 1..(n - p) : q[i] = s[p + i]
  BY <1>1, SubSeqIs
<1> HIDE DEF q
<1>3. m \in Nat /\ a <= m
  BY <1>1, <1>2
<1>4. x \in Seq(S) /\ Len(x) = m - a /\ \A i \in 1..(m - a) : x[i] = q[a + i]
  BY <1>2, <1>3, SubSeqIs
<1> HIDE DEF d
<1>5. y \in Seq(S) /\ Len(y) = n - d /\ \A i \in 1..(n - d) : y[i] = s[d + i]
  BY <1>1, SubSeqIs
<1>6. m - a = n - d /\ d = p + a
  BY <1>1, <1>2 DEF d
<1> HIDE DEF x, y, m
<1>7. ASSUME NEW i \in 1..(n - d)  PROVE x[i] = y[i]
  <2>1. a + i \in 1..(n - p) /\ p + (a + i) = d + i
    BY <1>1, <1>6
  <2> DEFINE j == a + i
  <2>2. q[j] = s[p + j]
    BY <1>2, <2>1
  <2>3. x[i] = q[j]
    BY <1>4, <1>6
  <2>4. p + j = d + i
    BY <2>1
  <2> HIDE DEF j
  <2> QED
    BY <1>5, <2>2, <2>3, <2>4
<1>8. Len(x) = Len(y) /\ \A i \in 1..Len(x) : x[i] = y[i]
  BY <1>4, <1>5, <1>6, <1>7
<1>9. x = y
  BY <1>4, <1>5, <1>8, SeqEqual
<1> QED
  BY <1>9 DEF x, y, q, m, d

\* The whole of a sequence.
LEMMA AllOf ==
  ASSUME NEW S, NEW s \in Seq(S)
  PROVE  SubSeq(s, 1, Len(s)) = s /\ SubSeq(s, 0 + 1, Len(s)) = s
  OBVIOUS

\* The path of a URI without a query is what is after where it starts.
LEMMA PathIs ==
  ASSUME NEW S, NEW s \in Seq(S), \A i \in 1..Len(s) : s[i] # "?",
         NEW d \in Nat, Starts(s, d)
  PROVE  path_of(s) = Trim(SubSeq(s, d + 1, Len(s))) /\ d <= Len(s)
<1> DEFINE rest == IF Places(s, "://") = {} THEN s ELSE After(s, FirstAt(s, "://"))
           path_ == IF Places(s, "://") = {} THEN rest
                    ELSE IF Places(rest, "/") = {} THEN << >>
                         ELSE After(rest, FirstAt(rest, "/"))
<1>1. path_of(s) =
        Trim(IF Places(path_, "?") = {} THEN path_ ELSE Before(path_, FirstAt(path_, "?")))
  BY Zenon DEF path_of
<1>2. DOMAIN s = 1..Len(s) /\ Len(s) \in Nat
  OBVIOUS
<1>3. CASE d = 0 /\ \A i \in 1..Len(s) : s[i] # "://"
  <2>1. Places(s, "://") = {} /\ Places(s, "?") = {}
    BY <1>2, <1>3 DEF Places
  <2>2. path_ = s
    BY <2>1
  <2> HIDE DEF path_
  <2>3. path_of(s) = Trim(s)
    BY <1>1, <2>1, <2>2
  <2>4. SubSeq(s, 0 + 1, Len(s)) = s
    BY AllOf
  <2>5. SubSeq(s, d + 1, Len(s)) = s /\ d <= Len(s)
    BY <1>2, <1>3, <2>4
  <2> QED
    BY <2>3, <2>5
<1>4. ASSUME NEW p \in 1..(d - 1),
             d \in 1..Len(s), s[p] = "://", s[d] = "/", \A i \in 1..(p - 1) : s[i] # "://",
             \A i \in (p + 1)..(d - 1) : s[i] # "/"
      PROVE  path_of(s) = Trim(SubSeq(s, d + 1, Len(s))) /\ d <= Len(s)
  <2> DEFINE n == Len(s)
             q == SubSeq(s, p + 1, n)
             a == d - p
             r == SubSeq(s, d + 1, n)
  <2>1. p \in 1..n /\ p \in Nat /\ p <= n /\ a \in 1..(n - p) /\ p + a = d /\ n \in Nat /\ d <= n
    BY <1>2, <1>4
  <2>2. Places(s, "://") # {} /\ FirstAt(s, "://") = p
    BY <1>4, <2>1, FirstIs
  <2>3. rest = q
    BY <2>2 DEF After
  <2>4. q \in Seq(S) /\ Len(q) = n - p /\ \A i \in 1..(n - p) : q[i] = s[p + i]
    BY <2>1, SubSeqIs
  <2> HIDE DEF q
  <2>5. q[a] = "/"
    BY <1>4, <2>1, <2>4
  <2>6. ASSUME NEW i \in 1..(a - 1)  PROVE q[i] # "/"
    <3>1. i \in 1..(n - p) /\ p + i \in (p + 1)..(d - 1)
      BY <2>1
    <3> QED
      BY <1>4, <2>4, <3>1
  <2>7. a \in 1..Len(q)
    BY <2>1, <2>4
  <2> HIDE DEF a
  <2>8. Places(q, "/") # {} /\ FirstAt(q, "/") = a
    BY <2>4, <2>5, <2>6, <2>7, FirstIs
  <2>9. path_ = SubSeq(q, a + 1, Len(q))
    BY <2>2, <2>3, <2>8 DEF After
  <2>10. SubSeq(q, a + 1, Len(q)) = SubSeq(s, p + a + 1, n)
    BY <2>1, PartOfPart DEF q
  <2>11. path_ = r
    BY <2>1, <2>9, <2>10
  <2> HIDE DEF path_
  <2>12. r \in Seq(S) /\ Len(r) = n - d /\ \A i \in 1..(n - d) : r[i] = s[d + i]
    BY <2>1, SubSeqIs
  <2> HIDE DEF r
  <2>13. Places(r, "?") = {}
    <3> SUFFICES ASSUME NEW i \in DOMAIN r  PROVE r[i] # "?"
      BY DEF Places
    <3>1. i \in 1..(n - d)
      BY <2>12
    <3>2. d + i \in 1..n
      BY <2>1, <3>1
    <3> QED
      BY <2>12, <3>1, <3>2
  <2>14. path_of(s) = Trim(r)
    BY <1>1, <2>11, <2>13
  <2> QED
    BY <2>1, <2>14 DEF r
<1> QED
  BY <1>3, <1>4 DEF Starts

\* A URI without a query that has a path has a place where it starts.
LEMMA PathStarts ==
  ASSUME NEW S, NEW s \in Seq(S), path_of(s) # << >>
  PROVE  \E d \in Nat : Starts(s, d)
<1> DEFINE rest == IF Places(s, "://") = {} THEN s ELSE After(s, FirstAt(s, "://"))
           path_ == IF Places(s, "://") = {} THEN rest
                    ELSE IF Places(rest, "/") = {} THEN << >>
                         ELSE After(rest, FirstAt(rest, "/"))
<1>1. path_of(s) =
        Trim(IF Places(path_, "?") = {} THEN path_ ELSE Before(path_, FirstAt(path_, "?")))
  BY Zenon DEF path_of
<1>2. DOMAIN s = 1..Len(s) /\ Len(s) \in Nat
  OBVIOUS
<1>3. CASE Places(s, "://") = {}
  <2>1. \A i \in 1..Len(s) : s[i] # "://"
    BY <1>2, <1>3 DEF Places
  <2> QED
    BY <2>1 DEF Starts
<1>4. CASE Places(s, "://") # {}
  <2> DEFINE n == Len(s)
  <2>1. PICK p \in 1..n : /\ s[p] = "://" /\ \A i \in 1..(p - 1) : s[i] # "://"
                          /\ FirstAt(s, "://") = p
    BY <1>4, FirstExists
  <2> DEFINE q == SubSeq(s, p + 1, n)
  <2>2. rest = q
    BY <1>4, <2>1 DEF After
  <2>3. q \in Seq(S) /\ Len(q) = n - p /\ \A i \in 1..(n - p) : q[i] = s[p + i]
    <3>1. p \in Nat /\ n \in Nat /\ p <= n
      BY <1>2
    <3> QED
      BY <3>1, SubSeqIs
  <2>4. CASE Places(q, "/") = {}
    <3>1. path_ = << >>
      BY <1>4, <2>2, <2>4
    <3>2. \A x : Places(<< >>, x) = {}
      BY DEF Places
    <3>3. path_of(s) = Trim(<< >>)
      <4> HIDE DEF path_
      <4> QED
        BY <1>1, <3>1, <3>2
    <3>4. Trim(<< >>) = << >>
      BY DEF Trim
    <3> QED
      BY <3>3, <3>4
  <2>5. CASE Places(q, "/") # {}
    <3> HIDE DEF q
    <3>1. PICK a \in 1..Len(q) : q[a] = "/" /\ \A i \in 1..(a - 1) : q[i] # "/"
      BY <2>3, <2>5, FirstExists
    <3> DEFINE d == p + a
    <3>2. /\ a \in 1..(n - p) /\ d \in 1..n /\ d \in Nat /\ p \in 1..(d - 1) /\ n \in Nat
      BY <1>2, <2>3, <3>1
    <3>3. s[d] = "/"
      BY <2>3, <3>1, <3>2
    <3>4. ASSUME NEW i \in (p + 1)..(d - 1)  PROVE s[i] # "/"
      <4> DEFINE j == i - p
      <4>1. j \in 1..(a - 1) /\ j \in 1..(n - p) /\ p + j = i
        BY <3>2
      <4> HIDE DEF j
      <4> QED
        BY <2>3, <3>1, <4>1
    <3> HIDE DEF d
    <3>5. Starts(s, d)
      BY <2>1, <3>2, <3>3, <3>4 DEF Starts
    <3> QED
      BY <3>2, <3>5
  <2> QED
    BY <2>4, <2>5
<1> QED
  BY <1>3, <1>4

\* A control behind a path is the last segment, and names its track.
LEMMA SplitIs ==
  ASSUME NEW S, NEW x \in Seq(S), NEW m \in Nat, NEW numeral \in DOMAIN Numerals,
         Len(x) = m + 4, x[m + 1] = "/", x[m + 2] = "trackid", x[m + 3] = "=", x[m + 4] = numeral
  PROVE  split_track(x) = [stream |-> SubSeq(x, 1, m), track |-> Numerals[numeral]]
<1> DEFINE i == LastAt(x, "/")
           last == After(x, i)
           j == FirstAt(last, "=")
           named == /\ Places(x, "/") # {}
                    /\ Places(last, "=") # {}
                    /\ Before(last, j) \in {<<"trackid">>, <<"streamid">>, <<"track">>}
                    /\ Len(After(last, j)) = 1 /\ After(last, j)[1] \in DOMAIN Numerals
<1>1. split_track(x) =
        IF named THEN [stream |-> Before(x, i), track |-> Numerals[After(last, j)[1]]]
        ELSE [stream |-> x, track |-> None]
  BY Zenon DEF split_track
<1>2. DOMAIN x = 1..(m + 4) /\ m + 1 \in 1..(m + 4) /\ m + 4 \in Nat
  OBVIOUS
<1>3. numeral # "/" /\ numeral # "="
  BY AddressingAssumption
<1>4. Places(x, "/") # {} /\ i = m + 1
  <2> DEFINE at == {k \in DOMAIN x : x[k] = "/"}
  <2>1. m + 1 \in at /\ at \subseteq Int
    BY <1>2
  <2>2. ASSUME NEW k \in at  PROVE k <= m + 1
    <3>1. k \in 1..(m + 4) /\ x[k] = "/"
      BY <1>2
    <3>2. k # m + 2 /\ k # m + 3 /\ k # m + 4
      BY <1>3, <3>1
    <3> QED
      BY <3>1, <3>2
  <2> HIDE DEF at
  <2>3. Max(at) = m + 1
    BY <2>1, <2>2, MaxIs
  <2>4. Places(x, "/") = at
    BY DEF Places, at
  <2> QED
    BY <2>1, <2>3, <2>4 DEF LastAt
<1> HIDE DEF i
<1>5. last \in Seq(S) /\ Len(last) = 3 /\ last[1] = "trackid" /\ last[2] = "=" /\ last[3] = numeral
  <2> DEFINE k == m + 1
             y == SubSeq(x, k + 1, Len(x))
  <2>1. k \in Nat /\ Len(x) \in Nat /\ k <= Len(x) /\ Len(x) - k = 3
    OBVIOUS
  <2>2. y \in Seq(S) /\ Len(y) = Len(x) - k /\ \A a \in 1..(Len(x) - k) : y[a] = x[k + a]
    <3> HIDE DEF k
    <3> QED
      BY <2>1, SubSeqIs
  <2>3. last = y
    BY <1>4 DEF After
  <2> HIDE DEF y
  <2>4. \A a \in 1..3 : y[a] = x[k + a]
    BY <2>1, <2>2
  <2>5. y[1] = x[m + 2] /\ y[2] = x[m + 3] /\ y[3] = x[m + 4]
    <3>1. k + 1 = m + 2 /\ k + 2 = m + 3 /\ k + 3 = m + 4
      OBVIOUS
    <3> HIDE DEF k
    <3>2. y[1] = x[k + 1] /\ y[2] = x[k + 2] /\ y[3] = x[k + 3]
      BY <2>4
    <3> QED
      BY <3>1, <3>2
  <2> QED
    BY <2>1, <2>2, <2>3, <2>5
<1> HIDE DEF last
<1>6. Places(last, "=") # {} /\ j = 2
  <2>1. 2 \in 1..Len(last) /\ \A k \in 1..(2 - 1) : last[k] # "="
    BY <1>5
  <2> QED
    BY <1>5, <2>1, FirstIs
<1> HIDE DEF j
<1>7. Before(last, j) = <<"trackid">>
  <2> DEFINE y == SubSeq(last, 0 + 1, 1)
  <2>1. Before(last, j) = y
    BY <1>6 DEF Before
  <2>2. y \in Seq(S) /\ Len(y) = 1 - 0 /\ \A a \in 1..(1 - 0) : y[a] = last[0 + a]
    <3>1. 0 \in Nat /\ 1 \in Nat /\ 0 <= 1 /\ 1 <= Len(last)
      BY <1>5
    <3> QED
      BY <1>5, <3>1, SubSeqIs
  <2> HIDE DEF y
  <2>3. Len(y) = 1 /\ y[1] = "trackid"
    BY <1>5, <2>2
  <2>4. y = <<"trackid">>
    BY <2>2, <2>3
  <2> QED
    BY <2>1, <2>4
<1>8. After(last, j) = <<numeral>>
  <2> DEFINE y == SubSeq(last, 2 + 1, 3)
  <2>1. After(last, j) = y
    BY <1>5, <1>6 DEF After
  <2>2. y \in Seq(S) /\ Len(y) = 3 - 2 /\ \A a \in 1..(3 - 2) : y[a] = last[2 + a]
    <3>1. 2 \in Nat /\ 3 \in Nat /\ 2 <= 3 /\ 3 <= Len(last)
      BY <1>5
    <3> QED
      BY <1>5, <3>1, SubSeqIs
  <2> HIDE DEF y
  <2>3. Len(y) = 1 /\ y[1] = numeral
    BY <1>5, <2>2
  <2>4. y = <<numeral>>
    BY <2>2, <2>3
  <2> QED
    BY <2>1, <2>4
<1>9. named
  BY <1>4, <1>6, <1>7, <1>8
<1>10. After(last, j)[1] = numeral
  BY <1>8
<1>11. Before(x, i) = SubSeq(x, 1, m)
  BY <1>4 DEF Before
<1> HIDE DEF named
<1> QED
  BY <1>1, <1>9, <1>10, <1>11

\* A URI that is the beginning of another starts where that does.
LEMMA StartsAlike ==
  ASSUME NEW s, NEW t, NEW d \in Nat, NEW m \in Nat, Len(s) \in Nat, Len(t) \in Nat,
         Starts(s, d), d <= m, m <= Len(s), m <= Len(t), \A i \in 1..m : t[i] = s[i],
         \A i \in (m + 1)..Len(t) : t[i] # "://"
  PROVE  Starts(t, d)
<1>1. CASE d = 0 /\ \A i \in 1..Len(s) : s[i] # "://"
  <2>1. ASSUME NEW i \in 1..Len(t)  PROVE t[i] # "://"
    <3>1. i \in 1..m \/ i \in (m + 1)..Len(t)
      OBVIOUS
    <3>2. i \in 1..m => i \in 1..Len(s)
      OBVIOUS
    <3> QED
      BY <1>1, <3>1, <3>2
  <2> QED
    BY <1>1, <2>1 DEF Starts
<1>2. ASSUME NEW p \in 1..(d - 1),
             d \in 1..Len(s), s[p] = "://", s[d] = "/", \A i \in 1..(p - 1) : s[i] # "://",
             \A i \in (p + 1)..(d - 1) : s[i] # "/"
      PROVE  Starts(t, d)
  <2>1. d \in 1..Len(t) /\ p \in 1..m /\ d \in 1..m
    BY <1>2
  <2>2. \A i \in 1..(p - 1) : i \in 1..m
    BY <2>1
  <2>3. \A i \in (p + 1)..(d - 1) : i \in 1..m
    BY <2>1
  <2>4. t[p] = "://" /\ t[d] = "/"
    BY <1>2, <2>1
  <2>5. \A i \in 1..(p - 1) : t[i] # "://"
    BY <1>2, <2>2
  <2>6. \A i \in (p + 1)..(d - 1) : t[i] # "/"
    BY <1>2, <2>3
  <2> QED
    BY <2>1, <2>4, <2>5, <2>6 DEF Starts
<1> QED
  BY <1>1, <1>2 DEF Starts

\* A URI without a query.
Plain(uri) == IsSequence(uri) /\ \A i \in 1..Len(uri) : uri[i] # "?"

\* What a description states of where a track is comes back as that track.
LEMMA ControlIs ==
  ASSUME NEW uri, Plain(uri), path_of(uri) # << >>, NEW numeral \in DOMAIN Numerals
  PROVE  split_track(path_of(ContentBase(uri) \o Control(numeral)))
           = [stream |-> path_of(uri), track |-> Numerals[numeral]]
<1> DEFINE n == Len(uri)
           kept == {i \in DOMAIN uri : uri[i] # "/"}
           m == Max(kept)
<1>1. uri \in Seq(ToSet(uri)) /\ n \in Nat /\ DOMAIN uri = 1..n /\ \A i \in 1..n : uri[i] # "?"
  BY DEF Plain, IsSequence
<1>2. PICK d \in Nat : Starts(uri, d)
  BY <1>1, PathStarts
<1>3. path_of(uri) = Trim(SubSeq(uri, d + 1, n)) /\ d <= n
  BY <1>1, <1>2, PathIs
<1>4. PICK e \in (d + 1)..n : uri[e] # "/"
  <2>1. CASE \A i \in (d + 1)..n : uri[i] = "/"
    <3>1. Trim(SubSeq(uri, d + 1, n)) = << >>
      BY <1>1, <1>3, <2>1, TrimNothing
    <3> QED
      BY <1>3, <3>1
  <2> QED
    BY <2>1
<1>5. PICK lo \in (d + 1)..n : uri[lo] # "/" /\ \A i \in (d + 1)..(lo - 1) : uri[i] = "/"
  <2> DEFINE G == {i \in (d + 1)..n : uri[i] # "/"}
  <2>1. G \in SUBSET Nat /\ G # {}
    BY <1>4
  <2>2. PICK lo \in G : \A i \in G : lo <= i
    <3> HIDE DEF G
    <3> QED
      BY <2>1, LeastNatural
  <2>3. lo \in (d + 1)..n /\ uri[lo] # "/"
    OBVIOUS
  <2>4. ASSUME NEW i \in (d + 1)..(lo - 1)  PROVE uri[i] = "/"
    <3>1. i \in (d + 1)..n /\ ~(lo <= i)
      BY <1>1, <2>3
    <3> QED
      BY <2>2, <3>1
  <2> QED
    BY <2>3, <2>4
<1>6. /\ kept # {} /\ m \in kept /\ \A i \in kept : i <= m
  <2>1. kept \in SUBSET (1..n) /\ lo \in kept
    <3>1. lo \in 1..n
      BY <1>1, <1>5
    <3> QED
      BY <1>1, <1>5, <3>1
  <2>2. PICK k \in kept : \A i \in kept : i <= k
    <3> HIDE DEF kept
    <3> QED
      BY <1>1, <2>1, GreatestPlace
  <2>3. kept \subseteq Int
    BY <1>1
  <2>4. Max(kept) = k
    <3> HIDE DEF kept
    <3> QED
      BY <2>2, <2>3, MaxIs
  <2> QED
    BY <2>2, <2>4
<1>7. TrimEnd(uri) = SubSeq(uri, 1, m)
  <2>1. TrimEnd(uri) = IF kept = {} THEN << >> ELSE SubSeq(uri, 1, Max(kept))
    BY Zenon DEF TrimEnd
  <2> QED
    BY <1>6, <2>1
<1>8. /\ m \in lo..n /\ uri[m] # "/" /\ \A i \in (m + 1)..n : uri[i] = "/"
  <2>1. lo \in kept /\ m \in 1..n /\ uri[m] # "/"
    <3>1. lo \in 1..n
      BY <1>1, <1>5
    <3> QED
      BY <1>1, <1>5, <1>6, <3>1
  <2>2. ASSUME NEW i \in (m + 1)..n  PROVE uri[i] = "/"
    <3>1. i \in 1..n /\ ~(i <= m)
      BY <2>1
    <3> QED
      BY <1>1, <1>6, <3>1
  <2> QED
    BY <1>6, <2>1, <2>2
<1> HIDE DEF kept, m, n
<1>9. lo \in Nat /\ m \in Nat /\ d < lo /\ lo <= m /\ m <= n
  BY <1>5, <1>8, <1>1
<1>10. path_of(uri) = SubSeq(uri, lo, m)
  BY <1>1, <1>3, <1>5, <1>8, <1>9, TrimIs DEF n
<1> DEFINE v == SubSeq(uri, 1, m)
           tail == <<"/", "trackid", "=", numeral>>
           t == ContentBase(uri) \o Control(numeral)
<1>11. PICK S : /\ v \in Seq(S) /\ tail \in Seq(S) /\ IsSequence(v)
                /\ Len(v) = m /\ \A i \in 1..m : v[i] = uri[i]
  <2>1. v \in Seq(ToSet(uri)) /\ Len(v) = m /\ \A i \in 1..m : v[i] = uri[i]
    <3>1. m \in Nat /\ m <= Len(uri) /\ 0 \in Nat /\ 0 <= m
      BY <1>9 DEF n
    <3>2. /\ SubSeq(uri, 0 + 1, m) \in Seq(ToSet(uri)) /\ Len(SubSeq(uri, 0 + 1, m)) = m - 0
          /\ \A i \in 1..(m - 0) : SubSeq(uri, 0 + 1, m)[i] = uri[0 + i]
      BY <1>1, <3>1, SubSeqIs
    <3>3. 0 + 1 = 1 /\ m - 0 = m /\ \A i \in 1..m : 0 + i = i
      BY <1>9
    <3> QED
      BY <3>2, <3>3
  <2> HIDE DEF v
  <2>2. IsSequence(v)
    BY <2>1, SequenceOf
  <2>3. tail \in Seq({"/", "trackid", "=", numeral})
    OBVIOUS
  <2> HIDE DEF tail
  <2>4. IsSequence(tail)
    BY <2>3, SequenceOf
  <2> QED
    BY <2>1, <2>2, <2>4, Together
<1>12. t = v \o tail
  <2>1. t = (v \o <<"/">>) \o <<"trackid", "=", numeral>>
    BY <1>7 DEF ContentBase, Control
  <2> DEFINE a == <<"/">>
             c == <<"trackid", "=", numeral>>
  <2>2. IsSequence(a) /\ IsSequence(c) /\ IsSequence(v)
    <3>1. a \in Seq({"/"}) /\ c \in Seq({"trackid", "=", numeral})
      OBVIOUS
    <3> HIDE DEF a, c
    <3> QED
      BY <1>11, <3>1, SequenceOf
  <2>3. a \o c = tail
    <3> DEFINE T == {"/", "trackid", "=", numeral}
               y == a \o c
    <3>1. a \in Seq(T) /\ c \in Seq(T) /\ Len(a) = 1 /\ Len(c) = 3 /\ a[1] = "/"
          /\ c[1] = "trackid" /\ c[2] = "=" /\ c[3] = numeral
      OBVIOUS
    <3> HIDE DEF a, c, T
    <3>2. y \in Seq(T) /\ Joins(y, a, c)
      BY <3>1, JoinIs
    <3> HIDE DEF y
    <3>3. /\ Len(y) = 4 /\ y[1] = "/" /\ y[1 + 1] = "trackid" /\ y[1 + 2] = "="
          /\ y[1 + 3] = numeral
      BY <3>1, <3>2 DEF Joins
    <3>4. y = tail
      BY <3>2, <3>3
    <3> QED
      BY <3>4 DEF y
  <2>4. t = (v \o a) \o c
    BY <2>1
  <2> HIDE DEF a, c, v, tail, t
  <2>5. Grouped(v, a, c)
    BY <2>2, Associates
  <2>6. v \o (a \o c) = (v \o a) \o c
    BY <2>5, Zenon DEF Grouped
  <2> QED
    BY <2>3, <2>4, <2>6
<1> HIDE DEF v
<1>13. t \in Seq(S) /\ Joins(t, v, tail)
  <2> HIDE DEF t, tail
  <2> QED
    BY <1>11, <1>12, JoinIs
<1> HIDE DEF t
<1>14. /\ Len(t) = m + 4 /\ \A i \in 1..m : t[i] = uri[i]
       /\ t[m + 1] = "/" /\ t[m + 2] = "trackid" /\ t[m + 3] = "=" /\ t[m + 4] = numeral
  <2>1. Len(tail) = 4 /\ tail[1] = "/" /\ tail[2] = "trackid" /\ tail[3] = "=" /\ tail[4] = numeral
    OBVIOUS
  <2> HIDE DEF tail
  <2>2. \A i \in 1..4 : t[m + i] = tail[i]
    BY <1>11, <1>13, <2>1 DEF Joins
  <2> QED
    BY <1>11, <1>13, <2>1, <2>2 DEF Joins
<1>15. numeral \notin {"://", "/", "?", "="}
  BY AddressingAssumption
<1>16. ASSUME NEW i \in (m + 1)..Len(t)  PROVE t[i] # "://" /\ t[i] # "?"
  <2>1. i \in {m + 1, m + 2, m + 3, m + 4}
    BY <1>9, <1>14
  <2> QED
    BY <1>14, <1>15, <2>1
<1>17. \A i \in 1..Len(t) : t[i] # "?"
  <2> SUFFICES ASSUME NEW i \in 1..Len(t)  PROVE t[i] # "?"
    OBVIOUS
  <2>1. i \in 1..m \/ i \in (m + 1)..Len(t)
    BY <1>9, <1>14
  <2>2. i \in 1..m => i \in 1..n
    BY <1>1, <1>9
  <2> QED
    BY <1>1, <1>14, <1>16, <2>1, <2>2
<1>18. Starts(t, d)
  <2>1. d <= m /\ m <= Len(t) /\ Len(t) \in Nat /\ m <= Len(uri) /\ Len(uri) \in Nat
    BY <1>1, <1>9, <1>14 DEF n
  <2> QED
    BY <1>2, <1>9, <1>14, <1>16, <2>1, StartsAlike
<1>19. path_of(t) = Trim(SubSeq(t, d + 1, Len(t)))
  BY <1>13, <1>17, <1>18, PathIs
<1>20. path_of(t) = SubSeq(t, lo, Len(t))
  <2> DEFINE hi == Len(t)
  <2>1. hi \in Nat /\ lo <= hi /\ t[hi] # "/" /\ t[lo] # "/"
    <3>1. lo \in 1..m
      BY <1>9
    <3> QED
      BY <1>5, <1>9, <1>14, <1>15, <3>1
  <2>2. \A i \in (d + 1)..(lo - 1) : t[i] = "/"
    <3>1. \A i \in (d + 1)..(lo - 1) : i \in 1..m
      BY <1>9
    <3> QED
      BY <1>5, <1>14, <3>1
  <2>3. \A i \in (hi + 1)..Len(t) : t[i] = "/"
    BY <2>1
  <2>4. Trim(SubSeq(t, d + 1, Len(t))) = SubSeq(t, lo, hi)
    <3> HIDE DEF hi
    <3>1. hi <= Len(t)
      BY <1>9, <1>14 DEF hi
    <3> QED
      BY <1>9, <1>13, <2>1, <2>2, <2>3, <3>1, TrimIs
  <2> QED
    BY <1>19, <2>4
<1> DEFINE x == SubSeq(t, lo, Len(t))
           k == lo - 1
           l == m - k
<1>21. k \in Nat /\ l \in Nat /\ k + l = m /\ k + 1 = lo /\ Len(t) - k = l + 4 /\ k <= Len(t)
  BY <1>9, <1>14
<1>22. x \in Seq(S) /\ Len(x) = l + 4 /\ \A i \in 1..(l + 4) : x[i] = t[k + i]
  <2> DEFINE y == SubSeq(t, k + 1, Len(t))
  <2>1. Len(t) \in Nat
    BY <1>9, <1>14
  <2> HIDE DEF k
  <2>2. y \in Seq(S) /\ Len(y) = Len(t) - k /\ \A i \in 1..(Len(t) - k) : y[i] = t[k + i]
    BY <1>13, <1>21, <2>1, SubSeqIs
  <2>3. x = y
    BY <1>21
  <2> HIDE DEF x, y, l
  <2> QED
    BY <1>21, <2>2, <2>3
<1>23. SubSeq(x, 1, l) = SubSeq(uri, lo, m)
  <2> DEFINE y == SubSeq(x, 1, l)
             z == SubSeq(uri, lo, m)
             U == S \union ToSet(uri)
  <2> HIDE DEF x
  <2>1. y \in Seq(S) /\ Len(y) = l /\ \A i \in 1..l : y[i] = x[i]
    <3> HIDE DEF l
    <3>1. /\ SubSeq(x, 0 + 1, l) \in Seq(S) /\ Len(SubSeq(x, 0 + 1, l)) = l - 0
          /\ \A i \in 1..(l - 0) : SubSeq(x, 0 + 1, l)[i] = x[0 + i]
      <4>1. 0 \in Nat /\ 0 <= l /\ l <= Len(x)
        BY <1>21, <1>22
      <4> QED
        BY <1>21, <1>22, <4>1, SubSeqIs
    <3>2. 0 + 1 = 1 /\ l - 0 = l /\ \A i \in 1..l : 0 + i = i
      BY <1>21
    <3> QED
      BY <3>1, <3>2
  <2>2. z \in Seq(ToSet(uri)) /\ Len(z) = m - k /\ \A i \in 1..(m - k) : z[i] = uri[k + i]
    <3> DEFINE w == SubSeq(uri, k + 1, m)
    <3>1. k <= m /\ m <= Len(uri)
      BY <1>9, <1>21 DEF n
    <3> HIDE DEF k
    <3>2. w \in Seq(ToSet(uri)) /\ Len(w) = m - k /\ \A i \in 1..(m - k) : w[i] = uri[k + i]
      BY <1>1, <1>9, <1>21, <3>1, SubSeqIs
    <3>3. z = w
      BY <1>21
    <3> HIDE DEF w, z
    <3> QED
      BY <3>2, <3>3
  <2>3. ASSUME NEW i \in 1..l  PROVE y[i] = z[i]
    <3>1. i \in 1..(l + 4) /\ k + i \in 1..m /\ i \in 1..(m - k)
      BY <1>9, <1>21
    <3>2. y[i] = x[i] /\ x[i] = t[k + i] /\ z[i] = uri[k + i]
      BY <1>22, <2>1, <2>2, <3>1
    <3> DEFINE j == k + i
    <3>3. t[j] = uri[j]
      BY <1>14, <3>1
    <3> QED
      BY <3>2, <3>3
  <2>4. y \in Seq(U) /\ z \in Seq(U)
    <3>1. S \subseteq U /\ ToSet(uri) \subseteq U
      OBVIOUS
    <3> HIDE DEF U, y, z
    <3> QED
      BY <2>1, <2>2, <3>1, WiderSequence
  <2>5. Len(y) = Len(z) /\ \A i \in 1..Len(y) : y[i] = z[i]
    BY <2>1, <2>2, <2>3
  <2> HIDE DEF y, z, U
  <2>6. y = z
    BY <2>4, <2>5, SeqEqual
  <2> QED
    BY <2>6 DEF y, z
<1>24. x[l + 1] = "/" /\ x[l + 2] = "trackid" /\ x[l + 3] = "=" /\ x[l + 4] = numeral
  <2> HIDE DEF x
  <2>1. /\ l + 1 \in 1..(l + 4) /\ l + 2 \in 1..(l + 4) /\ l + 3 \in 1..(l + 4)
        /\ l + 4 \in 1..(l + 4) /\ k + (l + 1) = m + 1 /\ k + (l + 2) = m + 2
        /\ k + (l + 3) = m + 3 /\ k + (l + 4) = m + 4
    BY <1>9, <1>21
  <2> HIDE DEF k, l
  <2>2. x[l + 1] = t[k + (l + 1)] /\ x[l + 2] = t[k + (l + 2)] /\ x[l + 3] = t[k + (l + 3)]
        /\ x[l + 4] = t[k + (l + 4)]
    BY <1>22, <2>1
  <2> QED
    BY <1>14, <2>1, <2>2
<1> HIDE DEF x, l, k
<1>25. split_track(x) = [stream |-> SubSeq(x, 1, l), track |-> Numerals[numeral]]
  BY <1>21, <1>22, <1>24, SplitIs
<1> QED
  BY <1>10, <1>20, <1>23, <1>25 DEF x, t

(***************************************************************************)
(* What the session is of                                                  *)
(***************************************************************************)

Typed ==
  /\ path \in DOMAIN Tracks \union {None} /\ state \in {"Init", "Ready", "Playing"}
  /\ Len(said) <= MaxSaid

\* A request leaves the session where it was, or of a path that is published.
LEMMA SessionIs ==
  ASSUME Typed, NEW w, Handled(w)
  PROVE  path' \in DOMAIN Tracks \union {None} /\ state' \in {"Init", "Ready", "Playing"}
<1>1. ASSUME UNCHANGED session
      PROVE  path' \in DOMAIN Tracks \union {None} /\ state' \in {"Init", "Ready", "Playing"}
  BY <1>1 DEF Typed, session
<1>2. CASE w.is = "frame"
  BY <1>1, <1>2 DEF Handled
<1>3. CASE Describe(w)
  <2>1. \/ UNCHANGED session
        \/ /\ path_of(w.line.uri) \in DOMAIN Tracks /\ path' = path_of(w.line.uri)
           /\ UNCHANGED state
    BY <1>3, Zenon DEF Describe
  <2> QED
    BY <1>1, <2>1 DEF Typed
<1>4. CASE Setup(w)
  <2> DEFINE named == split_track(path_of(w.line.uri))
  <2>1. \/ UNCHANGED session
        \/ named.stream \in DOMAIN Tracks /\ path' = named.stream /\ state' = "Ready"
    BY <1>4, Zenon DEF Setup
  <2> HIDE DEF named
  <2> QED
    BY <1>1, <2>1
<1>5. CASE Other(w)
  <2>1. \/ UNCHANGED session
        \/ state' = "Playing" /\ UNCHANGED path
        \/ state' = "Ready" /\ UNCHANGED path
    BY <1>5, Zenon DEF Other, Play, Pause
  <2> QED
    BY <1>1, <2>1 DEF Typed
<1> QED
  BY <1>2, <1>3, <1>4, <1>5, Zenon DEF Handled

\* Every step keeps it.
LEMMA TypedNext ==
  ASSUME Taking, Typed, [Next]_vars
  PROVE  Typed'
<1>1. ASSUME UNCHANGED <<said, path, state>>  PROVE Typed'
  BY <1>1 DEF Typed
<1>2. CASE UNCHANGED vars
  BY <1>1, <1>2 DEF vars, client, session
<1>3. CASE Next
  <2>1. CASE Take
    <3>1. said' = said /\ \E w : Handled(w)
      BY <2>1, TakeIs DEF TakesNext, client
    <3> QED
      BY <3>1, SessionIs DEF Typed
  <2>2. CASE Refuse
    BY <1>1, <2>2 DEF Refuse, client, session
  <2>3. CASE Write \/ Leave
    BY <1>1, <2>3 DEF Write, Leave, client, session
  <2>4. CASE Send
    BY <1>1, <2>4 DEF Send, client, session
  <2>5. CASE Hear
    <3>1. UNCHANGED <<path, state, said>>
      BY <2>5, Zenon DEF Hear, session
    <3> QED
      BY <1>1, <3>1
  <2>6. ASSUME NEW n \in 1..Len(sent), Arrive(n)  PROVE Typed'
    BY <1>1, <2>6 DEF Arrive, client, session
  <2>7. ASSUME NEW what, Says(what)  PROVE Typed'
    <3>1. /\ UNCHANGED <<path, state>> /\ said' = Append(said, Numbered(what))
          /\ IsSequence(said) /\ Len(said) < MaxSaid
      BY <2>7 DEF Says, session, Taking, SaidOK, AllSayable
    <3> DEFINE w == Numbered(what)
    <3> HIDE DEF w
    <3>2. Len(said) \in Nat /\ Len(said') = Len(said) + 1
      BY <3>1, SequenceMore
    <3>3. MaxSaid \in Nat
      BY MessagesAssumption
    <3> QED
      BY <3>1, <3>2, <3>3 DEF Typed
  <2> QED
    BY <1>3, <2>1, <2>2, <2>3, <2>4, <2>5, <2>6, <2>7, SaysWhat
<1> QED
  BY <1>2, <1>3

\* At the start the session is of no path.
LEMMA TypedFirst == Init => Typed
<1>1. MaxSaid \in Nat
  BY MessagesAssumption
<1> QED
  BY <1>1 DEF Init, Typed

\* The session is of a path that is published or of none, and takes no more
\* than was said to it.
THEOREM SessionIsTyped == Spec => []TypeOK
<1> DEFINE Inv == Taking /\ Typed
<1>1. Init => Inv
  BY TakingFirst, TypedFirst
<1>2. Inv /\ [Next]_vars => Inv'
  BY TakingNext, TypedNext
<1>3. Inv => TypeOK
  <2> SUFFICES ASSUME Inv  PROVE TypeOK
    OBVIOUS
  <2>1. Len(taken) <= Len(said)
    BY BeginsIsPrefix DEF Taking, Begins
  <2> QED
    BY <2>1 DEF Taking, Typed, TypeOK
<1> QED
  BY <1>1, <1>2, <1>3, PTL DEF Spec

(***************************************************************************)
(* What a description states comes back                                    *)
(***************************************************************************)

\* The property, with its parts named.
Controls(k, uri, numeral) ==
  /\ said[k].line.uri = ContentBase(uri) \o Control(numeral)
  /\ path = path_of(uri)
  /\ Numerals[numeral] \in Tracks[path_of(uri)]

ControlledAs(numeral, answer) ==
  answer.status # 404 /\ (answer.status = 200 => answer.track = Numerals[numeral])

\* It is the property.
LEMMA ComesBackIs ==
  ControlComesBack <=> \A k \in LastSetup, uri \in Uris, n \in DOMAIN Numerals :
                         Controls(k, uri, n) => ControlledAs(n, Last(given))
  BY Zenon DEF ControlComesBack, Controls, ControlledAs

\* At the start no track was set up.
LEMMA ControlFirst == Init => ControlComesBack
<1> SUFFICES ASSUME Init  PROVE ControlComesBack
  OBVIOUS
<1>1. given = << >>
  BY DEF Init
<1>2. LastSetup = {}
  BY <1>1 DEF LastSetup
<1> QED
  BY <1>2 DEF ControlComesBack

\* An answer that becomes the last one is of the track that was described.
LEMMA ControlNext ==
  ASSUME EveryUriIsPlain, Typed', ControlComesBack, LastStep
  PROVE  ControlComesBack'
<1>1. CASE StaysLast
  <2>1. ASSUME NEW k \in LastSetup', NEW uri \in Uris, NEW n \in DOMAIN Numerals
        PROVE  /\ said'[k].line.uri = ContentBase(uri) \o Control(n)
               /\ path' = path_of(uri)
               /\ Numerals[n] \in Tracks[path_of(uri)]
               => /\ Last(given').status # 404
                  /\ Last(given').status = 200 => Last(given').track = Numerals[n]
    <3> SUFFICES ASSUME said'[k].line.uri = ContentBase(uri) \o Control(n),
                        path' = path_of(uri), Numerals[n] \in Tracks[path_of(uri)]
                 PROVE  /\ Last(given').status # 404
                        /\ Last(given').status = 200 => Last(given').track = Numerals[n]
      OBVIOUS
    <3>1. k \in LastSetup /\ said'[k] = said[k] /\ path' = path /\ given' = given
      BY <1>1 DEF StaysLast
    <3>2. Controls(k, uri, n)
      BY <3>1 DEF Controls
    <3>3. ControlledAs(n, Last(given))
      BY <3>1, <3>2, ComesBackIs
    <3> QED
      BY <3>1, <3>3 DEF ControlledAs
  <2> QED
    BY <2>1, Zenon DEF ControlComesBack
<1>2. CASE LastSetup' = {}
  BY <1>2 DEF ControlComesBack
<1>3. ASSUME NEW i, NEW g, ComesLast(i, g)  PROVE ControlComesBack'
  <2>1. ASSUME NEW k \in LastSetup', NEW uri \in Uris, NEW n \in DOMAIN Numerals
        PROVE  /\ said'[k].line.uri = ContentBase(uri) \o Control(n)
               /\ path' = path_of(uri)
               /\ Numerals[n] \in Tracks[path_of(uri)]
               => /\ Last(given').status # 404
                  /\ Last(given').status = 200 => Last(given').track = Numerals[n]
    <3> SUFFICES ASSUME said'[k].line.uri = ContentBase(uri) \o Control(n),
                        path' = path_of(uri), Numerals[n] \in Tracks[path_of(uri)]
                 PROVE  /\ Last(given').status # 404
                        /\ Last(given').status = 200 => Last(given').track = Numerals[n]
      OBVIOUS
    <3> DEFINE w == said[i]
               named == split_track(path_of(w.line.uri))
    <3>1. k = i /\ said' = said /\ Last(given') = g /\ SetupAnswer(w, g)
      BY <1>3 DEF ComesLast
    <3>2. /\ Plain(uri) /\ path_of(uri) # None /\ << >> \notin DOMAIN Tracks
          /\ Numerals[n] # None
      <4>1. IsSequence(uri) /\ Places(uri, "?") = {} /\ path_of(uri) # None
        BY DEF EveryUriIsPlain
      <4>2. DOMAIN uri = 1..Len(uri)
        BY <4>1 DEF IsSequence
      <4>3. \A j \in 1..Len(uri) : uri[j] # "?"
        BY <4>1, <4>2 DEF Places
      <4> QED
        BY <4>1, <4>3, MessagesAssumption, AddressingAssumption DEF Plain
    <3>3. path_of(uri) \in DOMAIN Tracks /\ path_of(uri) # << >>
      BY <3>2 DEF Typed
    <3>4. named = [stream |-> path_of(uri), track |-> Numerals[n]]
      <4>1. w.line.uri = ContentBase(uri) \o Control(n)
        BY <3>1
      <4> QED
        BY <3>2, <3>3, <4>1, ControlIs
    <3> HIDE DEF w
    <3>5. \/ g.status = 455
          \/ /\ g.status = 404 /\ path' = path
             /\ \/ path \notin {None, named.stream} \/ named.stream \notin DOMAIN Tracks
                \/ named.track = None
                \/ named.track \notin Tracks[named.stream]
          \/ g.status = 461
          \/ g.status = 200 /\ g.track = named.track
      BY <3>1, Zenon DEF SetupAnswer
    <3> HIDE DEF named
    <3>6. named.stream = path_of(uri) /\ named.track = Numerals[n]
      BY <3>4
    <3>7. ~(/\ path' = path
            /\ \/ path \notin {None, named.stream} \/ named.stream \notin DOMAIN Tracks
               \/ named.track = None
               \/ named.track \notin Tracks[named.stream])
      BY <3>2, <3>3, <3>6
    <3>8. g.status # 404 /\ (g.status = 200 => g.track = Numerals[n])
      BY <3>5, <3>6, <3>7
    <3> QED
      BY <3>1, <3>8
  <2> QED
    BY <2>1, Zenon DEF ControlComesBack
<1> QED
  BY <1>1, <1>2, <1>3 DEF LastStep

\* A client that sets up a track it found in a description gets that track, or
\* the session is of another path by then, if no URI has a query.
THEOREM ControlsComeBack ==
  ASSUME EveryUriIsPlain
  PROVE  Spec => []ControlComesBack
<1> DEFINE Inv == Taking /\ Answering /\ Typed /\ ControlComesBack
<1>1. Init => Inv
  BY TakingFirst, AnsweringFirst, TypedFirst, ControlFirst
<1>2. Inv /\ [Next]_vars => Inv'
  <2> SUFFICES ASSUME Inv, [Next]_vars  PROVE Inv'
    OBVIOUS
  <2>1. Taking' /\ Answering' /\ Typed'
    BY TakingNext, AnsweringNext, TypedNext
  <2>2. ControlComesBack'
    BY <2>1, LastNext, ControlNext
  <2> QED
    BY <2>1, <2>2
<1>3. Inv => ControlComesBack
  OBVIOUS
<1> QED
  BY <1>1, <1>2, <1>3, PTL DEF Spec
=============================================================================
