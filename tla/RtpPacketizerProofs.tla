------------------------- MODULE RtpPacketizerProofs -------------------------
(***************************************************************************)
(* What the packetizers, their receiver and the numbers of RtpPacketizer   *)
(* come to, proved for units of any lengths, packets of any size that      *)
(* leaves room for what is put in front, and numbers and timestamps of any *)
(* width.                                                                  *)
(*                                                                         *)
(* First what one unit and one timestamp come to: pieces that have every   *)
(* byte once, no packet that is too large, and the nearest time being the  *)
(* right one.  Then the whole of it, that a receiver has every unit back.  *)
(* The invariant says that hearing all that is on its way goes well and    *)
(* leaves the receiver where every stream goes on; a step either takes the *)
(* first packet off, or puts those of a whole unit behind the last.        *)
(***************************************************************************)
EXTENDS RtpPacketizer, TLAPS, FiniteSetTheorems, SequenceTheorems

\* What a division leaves, for any divisor.
LEMMA Division ==
  ASSUME NEW a \in Int, NEW b \in Nat \ {0}
  PROVE  /\ a \div b \in Int
         /\ a % b \in 0..(b - 1)
         /\ a = b * (a \div b) + (a % b)
  OBVIOUS

\* A multiple that is less than one is none.
LEMMA Multiples ==
  ASSUME NEW m \in Int, NEW w \in Nat \ {0}
  PROVE  /\ w * m \in Int
         /\ m >= 1 => w * m >= w
         /\ m <= -1 => w * m <= -w
         /\ m <= -2 => w * m <= -(2 * w)
<1>1. w * m \in Int
  OBVIOUS
<1>2. ASSUME m >= 1  PROVE w * m >= w
  <2>1. m - 1 \in Nat /\ w * (m - 1) \in Nat
    BY <1>2
  <2>2. w * m = w * (m - 1) + w
    OBVIOUS
  <2> QED
    BY <2>1, <2>2, <1>1
<1>3. ASSUME m <= -1  PROVE w * m <= -w
  <2>1. -m - 1 \in Nat /\ w * (-m - 1) \in Nat
    BY <1>3
  <2>2. w * m = -(w * (-m - 1)) - w
    OBVIOUS
  <2> QED
    BY <2>1, <2>2, <1>1
<1>4. ASSUME m <= -2  PROVE w * m <= -(2 * w)
  <2>1. -m - 2 \in Nat /\ w * (-m - 2) \in Nat
    BY <1>4
  <2>2. w * m = -(w * (-m - 2)) - 2 * w
    OBVIOUS
  <2> QED
    BY <2>1, <2>2, <1>1
<1> QED
  BY <1>1, <1>2, <1>3, <1>4

\* What is less than the divisor is what is left.
LEMMA SmallRemainder ==
  ASSUME NEW b \in Nat \ {0}, NEW a \in 0..(b - 1)
  PROVE  a % b = a
  OBVIOUS

(***************************************************************************)
(* Timestamps                                                              *)
(***************************************************************************)

\* A receiver that takes a timestamp for the nearest tick there is has the tick
\* it was made from, whichever way time went and however often the timestamp
\* wrapped (Stream::timestamp, rtp/mod.rs).
THEOREM NearestIsRight ==
  ASSUME NEW s \in [ssrc : Nat, sequence : 0..(SeqW - 1), origin : 0..(TsW - 1)],
         NEW t \in Tracks, NEW before \in Times, NEW at \in Times,
         2 * (Ticks(t, at) - Ticks(t, before)) < TsW,
         2 * (Ticks(t, before) - Ticks(t, at)) < TsW
  PROVE  Nearest(Ticks(t, before), Timestamp(s, t, before),
                 [timestamp |-> Timestamp(s, t, at)]) = Ticks(t, at)
<1> DEFINE o == s.origin
           m == Ticks(t, before)
           n == Ticks(t, at)
           d == n - m
           r == (o + m) % TsW
           q == (o + n) % TsW
           step == (q - r) % TsW
<1>1. TsW \in Nat \ {0} /\ o \in Int
  BY RtpAssumption
<1>2. m \in Int /\ n \in Int
  <2>1. ClockRate[t] \in Nat /\ Second \in Nat \ {0} /\ at \in Nat /\ before \in Nat
    BY RtpAssumption
  <2>2. at * ClockRate[t] \in Int /\ before * ClockRate[t] \in Int
    BY <2>1
  <2> QED
    BY <2>1, <2>2, Division DEF Ticks
<1>3. PICK a \in Int : o + m = TsW * a + r /\ r \in 0..(TsW - 1)
  <2>1. o + m \in Int
    BY <1>1, <1>2
  <2> QED
    BY <1>1, <2>1, Division
<1>4. PICK b \in Int : o + n = TsW * b + q /\ q \in 0..(TsW - 1)
  <2>1. o + n \in Int
    BY <1>1, <1>2
  <2> QED
    BY <1>1, <2>1, Division
<1>5. PICK c \in Int : q - r = TsW * c + step /\ step \in 0..(TsW - 1)
  <2>1. q - r \in Int
    BY <1>3, <1>4
  <2> QED
    BY <1>1, <2>1, Division
<1> HIDE DEF m, n, o, r, q, step
<1>6. PICK k \in Int : step = d - TsW * k
  <2>1. b - a + c \in Int
    OBVIOUS
  <2>2. TsW * (b - a + c) = TsW * b - TsW * a + TsW * c
    BY <1>1
  <2>3. TsW * a \in Int /\ TsW * b \in Int /\ TsW * c \in Int
    BY <1>1
  <2>4. step = d - TsW * (b - a + c)
    BY <1>1, <1>2, <1>3, <1>4, <1>5, <2>2, <2>3
  <2> QED
    BY <2>1, <2>4
<1>7. 2 * d < TsW /\ 2 * (-d) < TsW /\ d \in Int
  BY <1>1, <1>2 DEF m, n
<1>8. k = 0 \/ (k = -1 /\ d < 0)
  <2>1. /\ k >= 1 => TsW * k >= TsW
        /\ k <= -2 => TsW * k <= -(2 * TsW)
        /\ TsW * k \in Int
    BY <1>1, Multiples
  <2>2. k <= 0
    BY <1>1, <1>5, <1>6, <1>7, <2>1
  <2>3. k >= -1
    BY <1>1, <1>5, <1>6, <1>7, <2>1
  <2>4. k = -1 => d < 0
    BY <1>1, <1>5, <1>6, <1>7
  <2> QED
    BY <2>2, <2>3, <2>4
<1>9. (IF 2 * step < TsW THEN m + step ELSE m + step - TsW) = n
  <2>1. CASE k = 0
    BY <1>1, <1>2, <1>5, <1>6, <1>7, <2>1
  <2>2. CASE k = -1 /\ d < 0
    BY <1>1, <1>2, <1>5, <1>6, <1>7, <2>2
  <2> QED
    BY <1>8, <2>1, <2>2
<1> QED
  BY <1>9 DEF Nearest, Timestamp, m, n, o, r, q, step

(***************************************************************************)
(* Pieces                                                                  *)
(***************************************************************************)

\* How many pieces there are: the last is not empty, and none is left over.
LEMMA PiecesCount ==
  ASSUME NEW S, NEW data \in Seq(S), NEW budget \in Nat \ {0}
  PROVE  /\ Pieces(data, budget) \in Nat
         /\ budget * (Pieces(data, budget) - 1) < Len(data)
         /\ Len(data) <= budget * Pieces(data, budget)
         /\ data # <<>> => Pieces(data, budget) >= 1
<1> DEFINE n == Len(data)
           k == Pieces(data, budget)
           a == n + budget - 1
<1>1. n \in Nat /\ a \in Nat /\ (data # <<>> => n >= 1)
  OBVIOUS
<1>2. k \in Int /\ a = budget * k + (a % budget) /\ a % budget \in 0..(budget - 1)
  <2>1. a \in Int /\ k = a \div budget
    BY <1>1 DEF Pieces
  <2> HIDE DEF a, k
  <2> QED
    BY <2>1, Division
<1>3. budget * k \in Int /\ budget * (k - 1) = budget * k - budget
  BY <1>2
<1> HIDE DEF n, k, a
<1>4. k >= 0
  <2>1. k <= -1 => budget * k <= -budget
    BY <1>2, Multiples
  <2> QED
    BY <1>1, <1>2, <1>3, <2>1
<1>5. a = n + budget - 1
  BY DEF a, n
<1>6. budget * (k - 1) < n /\ n <= budget * k
  BY <1>1, <1>2, <1>3, <1>5
<1>7. data # <<>> => k >= 1
  <2>1. k = 0 => budget * k = 0
    BY <1>2
  <2> QED
    BY <1>1, <1>2, <1>4, <1>6, <2>1
<1> QED
  BY <1>2, <1>4, <1>6, <1>7 DEF n, k

\* Where the pieces end: each begins where the one before it ended.
LEMMA PieceBounds ==
  ASSUME NEW S, NEW data \in Seq(S), NEW budget \in Nat \ {0},
         NEW i \in 1..Pieces(data, budget)
  PROVE  /\ (i - 1) * budget \in 0..(Len(data) - 1)
         /\ Least(i * budget, Len(data)) \in 1..Len(data)
         /\ Least(i * budget, Len(data)) - (i - 1) * budget \in 1..budget
         /\ i < Pieces(data, budget) => Least(i * budget, Len(data)) = i * budget
<1> DEFINE n == Len(data)
           k == Pieces(data, budget)
<1>1. n \in Nat /\ k \in Nat /\ i \in Nat
  BY PiecesCount
<1>2. /\ budget * k \in Int /\ budget * i \in Int
      /\ budget * (k - 1) = budget * k - budget
      /\ budget * (i - 1) = budget * i - budget
      /\ i * budget = budget * i /\ (i - 1) * budget = budget * (i - 1)
  BY <1>1
<1>3. budget * (k - 1) < n /\ n <= budget * k
  BY PiecesCount
<1>4. budget * i >= budget
  BY <1>1, Multiples
<1>5. budget * k - budget * i \in Nat /\ (i < k => budget * k - budget * i >= budget)
  <2>1. budget * (k - i) = budget * k - budget * i
    BY <1>1
  <2>2. i < k => budget * (k - i) >= budget
    BY <1>1, Multiples
  <2>3. i = k => budget * k - budget * i = 0
    BY <1>2
  <2> QED
    BY <1>1, <1>2, <2>1, <2>2, <2>3
<1> HIDE DEF n, k
<1>6. (i - 1) * budget \in 0..(n - 1)
  BY <1>1, <1>2, <1>3, <1>4, <1>5
<1>7. Least(i * budget, n) \in 1..n /\ Least(i * budget, n) - (i - 1) * budget \in 1..budget
  BY <1>1, <1>2, <1>3, <1>4, <1>5, <1>6 DEF Least
<1>8. i < k => Least(i * budget, n) = i * budget
  BY <1>1, <1>2, <1>3, <1>4, <1>5 DEF Least
<1> QED
  BY <1>6, <1>7, <1>8 DEF n, k

\* How long a piece is, and which bytes of the payload it holds.
LEMMA PieceIs ==
  ASSUME NEW S, NEW data \in Seq(S), NEW budget \in Nat \ {0},
         NEW i \in 1..Pieces(data, budget)
  PROVE  /\ Piece(data, budget, i) \in Seq(S)
         /\ Len(Piece(data, budget, i)) = Least(i * budget, Len(data)) - (i - 1) * budget
         /\ \A j \in 1..Len(Piece(data, budget, i)) :
              Piece(data, budget, i)[j] = data[(i - 1) * budget + j]
<1> DEFINE from == (i - 1) * budget
           to == Least(i * budget, Len(data))
<1>1. from \in 0..(Len(data) - 1) /\ to \in 1..Len(data) /\ to - from \in 1..budget
  BY PieceBounds
<1>2. Piece(data, budget, i) = SubSeq(data, from + 1, to)
  BY DEF Piece
<1> HIDE DEF from, to
<1>3. /\ SubSeq(data, from + 1, to) \in Seq(S)
      /\ Len(SubSeq(data, from + 1, to)) = to - from
      /\ \A j \in 1..(to - from) : SubSeq(data, from + 1, to)[j] = data[from + j]
  BY <1>1
<1> QED
  BY <1>1, <1>2, <1>3 DEF from, to

\* A unit is cut into pieces that have every byte of it, in order, once: none is
\* empty or larger than asked for, and each byte is in the piece and at the
\* place of it that its position says, and in no other (h264.rs, fragment;
\* aac.rs, packetize).
THEOREM PiecesHaveEveryByte ==
  ASSUME NEW S, NEW data \in Seq(S), NEW budget \in Nat \ {0}
  PROVE  /\ \A i \in 1..Pieces(data, budget) :
              /\ Len(Piece(data, budget, i)) \in 1..budget
              /\ i < Pieces(data, budget) => Len(Piece(data, budget, i)) = budget
         /\ \A x \in 1..Len(data) :
              \E i \in 1..Pieces(data, budget), j \in 1..budget :
                /\ x = (i - 1) * budget + j
                /\ j <= Len(Piece(data, budget, i))
                /\ Piece(data, budget, i)[j] = data[x]
         /\ \A i \in 1..Pieces(data, budget) :
              \A j \in 1..Len(Piece(data, budget, i)) :
                /\ (i - 1) * budget + j \in 1..Len(data)
                /\ Piece(data, budget, i)[j] = data[(i - 1) * budget + j]
<1> DEFINE n == Len(data)
           k == Pieces(data, budget)
<1>1. ASSUME NEW i \in 1..k
      PROVE  /\ Len(Piece(data, budget, i)) \in 1..budget
             /\ i < k => Len(Piece(data, budget, i)) = budget
             /\ \A j \in 1..Len(Piece(data, budget, i)) :
                  /\ (i - 1) * budget + j \in 1..n
                  /\ Piece(data, budget, i)[j] = data[(i - 1) * budget + j]
  <2> DEFINE len == Len(Piece(data, budget, i))
             from == (i - 1) * budget
             to == Least(i * budget, n)
  <2>1. /\ len = to - from
        /\ \A j \in 1..len : Piece(data, budget, i)[j] = data[from + j]
    BY PieceIs
  <2>2. /\ from \in 0..(n - 1) /\ to \in 1..n /\ to - from \in 1..budget
        /\ i < k => to = i * budget
    BY PieceBounds
  <2>3. i * budget - from = budget
    <3>1. k \in Nat /\ i \in Nat
      BY PiecesCount
    <3> QED
      BY <3>1
  <2>4. i * budget \in Int
    <3>1. k \in Nat /\ i \in Nat
      BY PiecesCount
    <3> QED
      BY <3>1
  <2>5. n \in Nat
    OBVIOUS
  <2> HIDE DEF len, from, to, n, k
  <2>6. len \in 1..budget /\ (i < k => len = budget)
    BY <2>1, <2>2, <2>3, <2>4
  <2>7. \A j \in 1..len : from + j \in 1..n
    BY <2>1, <2>2, <2>5
  <2> QED
    BY <2>1, <2>6, <2>7 DEF len, from
<1>2. ASSUME NEW x \in 1..n
      PROVE  \E i \in 1..k, j \in 1..budget :
               /\ x = (i - 1) * budget + j
               /\ j <= Len(Piece(data, budget, i))
               /\ Piece(data, budget, i)[j] = data[x]
  <2> DEFINE i == ((x - 1) \div budget) + 1
             j == ((x - 1) % budget) + 1
  <2>1. n \in Nat /\ x \in 1..n /\ k \in Nat /\ n <= budget * k
    <3>1. k \in Nat /\ n <= budget * k
      BY PiecesCount
    <3> QED
      BY <3>1
  <2>2. /\ i \in Int /\ j \in 1..budget
        /\ x - 1 = budget * (i - 1) + (j - 1)
    <3> DEFINE y == x - 1
               u == y \div budget
               v == y % budget
    <3>1. y \in Int
      BY <2>1
    <3>2. u \in Int /\ v \in 0..(budget - 1) /\ y = budget * u + v
      BY <3>1, Division
    <3> HIDE DEF y, u, v
    <3>3. i = u + 1 /\ j = v + 1
      BY DEF y, u, v
    <3>4. u + 1 - 1 = u /\ v + 1 - 1 = v /\ v + 1 \in 1..budget
      BY <3>2
    <3> QED
      BY <3>2, <3>3, <3>4 DEF y
  <2> HIDE DEF i, j, n, k
  <2>3. budget * (i - 1) \in Int /\ budget * (i - 1) = (i - 1) * budget
    BY <2>2
  <2>4. x = (i - 1) * budget + j
    BY <2>1, <2>2, <2>3
  <2>5. i >= 1
    <3>1. i - 1 <= -1 => budget * (i - 1) <= -budget
      BY <2>2, Multiples
    <3> QED
      BY <2>1, <2>2, <2>3, <3>1
  <2>6. i <= k
    <3>1. i - 1 - k \in Int /\ budget * (i - 1 - k) = budget * (i - 1) - budget * k
      BY <2>1, <2>2
    <3>2. i - 1 - k >= 1 => budget * (i - 1 - k) >= budget
      BY <3>1, Multiples
    <3>3. i - 1 - k = 0 => budget * (i - 1 - k) = 0
      BY <3>1
    <3>4. budget * k \in Int
      BY <2>1
    <3> QED
      BY <2>1, <2>2, <2>3, <3>1, <3>2, <3>3, <3>4
  <2>7. i \in 1..k
    BY <2>1, <2>2, <2>5, <2>6
  <2>8. j <= Len(Piece(data, budget, i))
    <3>1. i \in 1..Pieces(data, budget)
      BY <2>7 DEF k
    <3>2. Len(Piece(data, budget, i)) = Least(i * budget, n) - (i - 1) * budget
      BY <3>1, PieceIs DEF n
    <3>3. i * budget = (i - 1) * budget + budget
      BY <2>2
    <3>4. i * budget \in Int /\ (i - 1) * budget \in Int
      BY <2>2
    <3> QED
      BY <2>1, <2>2, <2>4, <3>2, <3>3, <3>4 DEF Least
  <2>9. Piece(data, budget, i)[j] = data[x]
    <3>1. i \in 1..Pieces(data, budget)
      BY <2>7 DEF k
    <3>2. j \in 1..Len(Piece(data, budget, i))
      BY <2>2, <2>8, <3>1, PieceIs
    <3> QED
      BY <2>4, <3>1, <3>2, PieceIs
  <2> QED
    BY <2>2, <2>4, <2>7, <2>8, <2>9
<1> QED
  BY <1>1, <1>2

(***************************************************************************)
(* Packets                                                                 *)
(***************************************************************************)

\* With a payload that is large enough, what is left after either prefix is positive.
LEMMA Budgets == Budget \in Nat /\ Budget - FU_PREFIX \in Nat \ {0} /\ Budget - PREFIX \in Nat \ {0}
  BY RtpAssumption DEF FU_PREFIX, PREFIX

\* A NAL unit that does not fit is sent in two fragments at least, so that none
\* is both its start and its end, none is empty, none is too large, and no more
\* than the last is marked (h264.rs, fragment).
THEOREM FragmentsFit ==
  ASSUME NEW S, NEW data \in Seq(S), Len(data) > Budget, NEW last \in BOOLEAN
  PROVE  LET sent_as == Fragment(data, last)
         IN /\ Len(sent_as) >= 2
            /\ \A i \in 1..Len(sent_as) :
                 /\ sent_as[i].load.data # <<>>
                 /\ Size(sent_as[i].load) <= Budget
                 /\ ~(sent_as[i].load.start /\ sent_as[i].load.end)
                 /\ sent_as[i].marker <=> last /\ sent_as[i].load.end
<1> DEFINE body == Tail(data)
           room == Budget - FU_PREFIX
           k == Pieces(body, room)
           packets == Fragment(data, last)
<1>1. room \in Nat \ {0} /\ Budget \in Nat /\ room + 2 = Budget
  BY Budgets DEF FU_PREFIX
<1>2. body \in Seq(S) /\ Len(body) = Len(data) - 1 /\ Len(data) \in Nat
  BY <1>1
<1>3. k \in Nat /\ Len(body) <= room * k
  BY <1>1, <1>2, PiecesCount
<1>4. \A i \in 1..k : Len(Piece(body, room, i)) \in 1..room
  BY <1>1, <1>2, PiecesHaveEveryByte
<1>5. packets = [i \in 1..k |->
        Packet(last /\ i = k,
               [is |-> "fu", header |-> data[1], start |-> i = 1, end |-> i = k,
                data |-> Piece(body, room, i)])]
  BY DEF Fragment, Fragments
<1> HIDE DEF body, room, k, packets
<1>6. k >= 2
  <2>1. k = 0 => room * k = 0
    BY <1>1
  <2>2. k = 1 => room * k = room
    BY <1>1
  <2> QED
    BY <1>1, <1>2, <1>3, <2>1, <2>2
<1>7. Len(packets) = k
  BY <1>3, <1>5
<1>8. ASSUME NEW i \in 1..k
      PROVE  /\ packets[i].load.data # <<>>
             /\ Size(packets[i].load) <= Budget
             /\ ~(packets[i].load.start /\ packets[i].load.end)
             /\ packets[i].marker <=> last /\ packets[i].load.end
  <2>1. /\ packets[i].marker = (last /\ i = k)
        /\ packets[i].load = [is |-> "fu", header |-> data[1], start |-> i = 1, end |-> i = k,
                              data |-> Piece(body, room, i)]
    BY <1>5 DEF Packet
  <2>2. Len(Piece(body, room, i)) \in 1..room
    BY <1>4
  <2>3. packets[i].load.data # <<>>
    BY <2>1, <2>2
  <2>4. Size(packets[i].load) = Len(Piece(body, room, i)) + 2
    BY <2>1 DEF Size, FU_PREFIX
  <2>5. Size(packets[i].load) <= Budget
    BY <1>1, <2>2, <2>4
  <2>6. packets[i].load.start = (i = 1) /\ packets[i].load.end = (i = k)
    <3>1. PICK load : load = packets[i].load
      OBVIOUS
    <3>2. load = [is |-> "fu", header |-> data[1], start |-> i = 1, end |-> i = k,
                  data |-> Piece(body, room, i)]
      BY <2>1, <3>1
    <3>3. load.start = (i = 1) /\ load.end = (i = k)
      BY <3>2
    <3> QED
      BY <3>1, <3>3
  <2>7. ~(packets[i].load.start /\ packets[i].load.end)
    <3>1. i # 1 \/ i # k
      BY <1>3, <1>6
    <3> QED
      BY <3>1, <2>6
  <2>8. packets[i].marker <=> last /\ packets[i].load.end
    BY <2>1, <2>6
  <2> QED
    BY <2>3, <2>5, <2>7, <2>8
<1> QED
  BY <1>6, <1>7, <1>8 DEF packets

\* A frame of sound that can be sent is sent: in packets that are not too large,
\* the last of them marked, with its whole size in 13 bits; one that is too long
\* leaves nothing (aac.rs, packetize).
THEOREM SoundFits ==
  ASSUME NEW u, u.lengths \in AudioUnits
  PROVE  /\ u.lengths[1] > MAX_ACCESS_UNIT <=> Sound(u) = <<>>
         /\ \A i \in 1..Len(Sound(u)) :
              /\ Size(Sound(u)[i].load) <= Budget
              /\ Sound(u)[i].load.size = u.lengths[1]
              /\ Sound(u)[i].marker <=> i = Len(Sound(u))
<1> DEFINE n == u.lengths[1]
           frame == Data(u, 1)
           room == Budget - PREFIX
           pieces == IF frame = <<>> THEN 1 ELSE Pieces(frame, room)
           packets == [i \in 1..pieces |->
             Packet(i = pieces, [is |-> "au", size |-> Len(frame) % (MAX_ACCESS_UNIT + 1),
                                 data |-> Piece(frame, room, i)])]
           S == {<<u.number, 1, i>> : i \in 1..n}
<1>1. n \in Nat /\ MAX_ACCESS_UNIT \in Nat
  BY RtpAssumption
<1>2. room \in Nat \ {0} /\ Budget \in Nat /\ room + 4 = Budget
  BY Budgets DEF PREFIX
<1>3. frame \in Seq(S) /\ Len(frame) = n
  <2>1. frame = [i \in 1..n |-> <<u.number, 1, i>>]
    BY DEF Data
  <2>2. \A i \in 1..n : <<u.number, 1, i>> \in S
    OBVIOUS
  <2> HIDE DEF n, frame, S
  <2> QED
    BY <1>1, <2>1, <2>2
<1>4. Sound(u) = IF n > MAX_ACCESS_UNIT THEN <<>> ELSE packets
  BY <1>3 DEF Sound
<1>5. frame # <<>> => Pieces(frame, room) \in Nat /\ Pieces(frame, room) >= 1
  BY <1>2, <1>3, PiecesCount
<1>6. frame # <<>> => \A i \in 1..Pieces(frame, room) : Len(Piece(frame, room, i)) \in 1..room
  BY <1>2, <1>3, PiecesHaveEveryByte
<1>7. frame = <<>> => Piece(frame, room, 1) = <<>>
  <2> SUFFICES ASSUME frame = <<>>  PROVE Piece(frame, room, 1) = <<>>
    OBVIOUS
  <2>1. Least(1 * room, Len(<<>>)) = 0 /\ (1 - 1) * room + 1 = 1
    BY <1>2 DEF Least
  <2>2. Piece(<<>>, room, 1) = SubSeq(<<>>, 1, 0)
    BY <2>1 DEF Piece
  <2>3. SubSeq(<<>>, 1, 0) = <<>>
    OBVIOUS
  <2> QED
    BY <2>2, <2>3
<1> HIDE DEF frame, room, n
<1>8. pieces \in Nat /\ pieces >= 1
  BY <1>5
<1>9. \A i \in 1..pieces : Len(Piece(frame, room, i)) \in 0..room
  <2>1. CASE frame = <<>>
    <3>1. \A i \in 1..pieces : i = 1
      BY <2>1
    <3>2. Len(<<>>) = 0
      OBVIOUS
    <3> QED
      BY <1>2, <1>7, <2>1, <3>1, <3>2
  <2>2. CASE frame # <<>>
    BY <1>2, <1>6, <2>2
  <2> QED
    BY <2>1, <2>2
<1> HIDE DEF pieces
<1>10. Len(packets) = pieces /\ packets # <<>>
  <2>1. Len(packets) = pieces
    BY <1>8
  <2>2. Len(<<>>) = 0
    OBVIOUS
  <2> HIDE DEF packets
  <2> QED
    BY <1>8, <2>1, <2>2
<1>11. ASSUME n <= MAX_ACCESS_UNIT, NEW i \in 1..pieces
       PROVE  /\ Size(packets[i].load) <= Budget
              /\ packets[i].load.size = n
              /\ packets[i].marker <=> i = pieces
  <2>1. /\ packets[i].marker = (i = pieces)
        /\ packets[i].load = [is |-> "au", size |-> Len(frame) % (MAX_ACCESS_UNIT + 1),
                              data |-> Piece(frame, room, i)]
    BY DEF Packet
  <2> HIDE DEF packets
  <2>2. Size(packets[i].load) = Len(Piece(frame, room, i)) + 4
    BY <2>1 DEF Size, PREFIX
  <2>3. n % (MAX_ACCESS_UNIT + 1) = n
    <3> DEFINE m == MAX_ACCESS_UNIT + 1
    <3>1. n \in 0..(m - 1) /\ m \in Nat \ {0}
      BY <1>1, <1>11
    <3> HIDE DEF m
    <3>2. n % m = n
      BY <3>1, SmallRemainder
    <3> QED
      BY <3>2 DEF m
  <2>4. packets[i].load.size = n
    BY <1>3, <2>1, <2>3
  <2>5. Size(packets[i].load) <= Budget
    BY <1>2, <1>9, <2>2
  <2>6. packets[i].marker <=> i = pieces
    BY <2>1, Zenon
  <2> QED
    BY <2>4, <2>5, <2>6
<1> HIDE DEF packets
<1> QED
  BY <1>1, <1>4, <1>10, <1>11 DEF n

(***************************************************************************)
(* Induction, by the least number that something is not true of            *)
(***************************************************************************)

\* Every set of naturals that is not empty has a least element.
LEMMA LeastNatural ==
  ASSUME NEW G \in SUBSET Nat, G # {}
  PROVE  \E m \in G : \A k \in G : m <= k
<1> DEFINE T == {1..k : k \in G}
<1>1. T \subseteq FiniteSubsetsOf(Nat)
  <2> SUFFICES ASSUME NEW k \in G  PROVE 1..k \in SUBSET Nat /\ IsFiniteSet(1..k)
    BY DEF FiniteSubsetsOf
  <2> QED
    BY FS_Interval
<1>2. T # {}
  OBVIOUS
<1>3. PICK X \in T : \A Y \in T : <<Y, X>> \notin StrictSubsetOrdering(Nat)
  BY <1>1, <1>2, FS_StrictSubsetOrderingWellFounded, WFMin
<1>4. PICK m \in G : X = 1..m
  BY <1>3
<1>5. ASSUME NEW k \in G, k < m  PROVE FALSE
  <2>1. 1..k \in T
    BY <1>5
  <2>2. 1..k \subseteq 1..m /\ 1..k # 1..m
    BY <1>5
  <2>3. <<1..k, X>> \in StrictSubsetOrdering(Nat)
    BY <1>4, <2>2 DEF StrictSubsetOrdering
  <2> QED
    BY <1>3, <2>1, <2>3
<1>6. ASSUME NEW k \in G  PROVE m <= k
  <2>1. k \in Nat /\ m \in Nat /\ ~(k < m)
    BY <1>5
  <2> QED
    BY <2>1
<1> QED
  BY <1>6

\* Induction, with the numbers that something is true of as a set.
LEMMA Inductive ==
  ASSUME NEW n \in Nat, NEW T, 1 \in T,
         \A k \in 1..(n - 1) : k \in T => k + 1 \in T
  PROVE  1..n \subseteq T
<1> SUFFICES ASSUME NEW j \in 1..n, j \notin T  PROVE FALSE
  OBVIOUS
<1> DEFINE G == {k \in 1..n : k \notin T}
<1>1. G \in SUBSET Nat /\ G # {}
  <2>1. G \subseteq 1..n /\ 1..n \subseteq Nat /\ j \in G
    OBVIOUS
  <2> HIDE DEF G
  <2> QED
    BY <2>1
<1>2. PICK m \in G : \A k \in G : m <= k
  <2> HIDE DEF G
  <2> QED
    BY <1>1, LeastNatural
<1>3. m \in 2..n /\ m \notin T
  BY <1>2
<1>4. m - 1 \in 1..(n - 1) /\ m - 1 \notin G
  <2>1. m - 1 \in 1..(n - 1) /\ m \in Nat
    BY <1>3
  <2>2. ~(m <= m - 1)
    BY <1>3
  <2> HIDE DEF G
  <2> QED
    BY <1>2, <2>1, <2>2
<1>5. m - 1 \in T
  BY <1>4
<1> QED
  BY <1>3, <1>4, <1>5

\* A sequence of sequences as one: a function of its own counts up to it.
Flattens(f, seqs) ==
  f = [i \in 1..Len(seqs) |-> IF i = 1 THEN seqs[i] ELSE f[i - 1] \o seqs[i]]

\* There is such a function, of any length.
LEMMA FlattensExists ==
  ASSUME NEW S, NEW seqs \in Seq(S)
  PROVE  \E f : Flattens(f, seqs)
<1> DEFINE n == Len(seqs)
           UpTo(f, k) == f = [i \in 1..k |-> IF i = 1 THEN seqs[i] ELSE f[i - 1] \o seqs[i]]
           T == {k \in 1..n : \E f : UpTo(f, k)}
<1>1. n \in Nat
  OBVIOUS
<1>2. CASE n = 0
  <2> DEFINE f == [i \in 1..0 |-> 0]
  <2>1. f = [i \in 1..n |-> IF i = 1 THEN seqs[i] ELSE f[i - 1] \o seqs[i]]
    BY <1>2
  <2> HIDE DEF f
  <2> QED
    BY <2>1 DEF Flattens
<1>3. CASE n # 0
  <2>1. 1 \in T
    <3> DEFINE f == [i \in 1..1 |-> seqs[1]]
    <3>1. UpTo(f, 1)
      OBVIOUS
    <3> HIDE DEF f, UpTo
    <3> QED
      BY <1>1, <1>3, <3>1
  <2>2. ASSUME NEW k \in 1..(n - 1), k \in T  PROVE k + 1 \in T
    <3>1. PICK f : UpTo(f, k)
      BY <2>2
    <3> DEFINE g == [i \in 1..(k + 1) |-> IF i = 1 THEN seqs[i] ELSE f[i - 1] \o seqs[i]]
    <3>2. ASSUME NEW i \in 1..k  PROVE g[i] = f[i]
      <4>1. i \in 1..(k + 1)
        OBVIOUS
      <4>2. f[i] = IF i = 1 THEN seqs[i] ELSE f[i - 1] \o seqs[i]
        BY <3>1, Zenon
      <4>3. g[i] = IF i = 1 THEN seqs[i] ELSE f[i - 1] \o seqs[i]
        BY <4>1, Zenon
      <4> QED
        BY <4>2, <4>3, Zenon
    <3>3. ASSUME NEW i \in 1..(k + 1)
          PROVE  (IF i = 1 THEN seqs[i] ELSE f[i - 1] \o seqs[i])
                   = (IF i = 1 THEN seqs[i] ELSE g[i - 1] \o seqs[i])
      <4>1. CASE i = 1
        BY <4>1, Zenon
      <4>2. CASE i # 1
        <5>1. i - 1 \in 1..k
          BY <4>2
        <5>2. g[i - 1] = f[i - 1]
          BY <3>2, <5>1, Zenon
        <5> QED
          BY <4>2, <5>2, Zenon
      <4> QED
        BY <4>1, <4>2
    <3>4. UpTo(g, k + 1)
      BY <3>3, Zenon
    <3>5. k + 1 \in 1..n
      BY <1>1
    <3> HIDE DEF g, UpTo
    <3> QED
      BY <3>4, <3>5
  <2>3. n \in T
    <3> HIDE DEF T, n
    <3>1. 1..n \subseteq T
      BY <1>1, <2>1, <2>2, Inductive
    <3> QED
      BY <1>1, <1>3, <3>1
  <2>4. PICK f : UpTo(f, n)
    BY <2>3
  <2> QED
    BY <2>4, Zenon DEF Flattens
<1> QED
  BY <1>2, <1>3

\* FlattenSeq is what its definition says, since such a function exists.
LEMMA FlattenIs ==
  ASSUME NEW S, NEW seqs \in Seq(S), seqs # <<>>
  PROVE  \E f : Flattens(f, seqs) /\ FlattenSeq(seqs) = f[Len(seqs)]
<1>1. Len(seqs) # 0
  OBVIOUS
<1> DEFINE g == CHOOSE f : f = [i \in 1..Len(seqs) |-> IF i = 1 THEN seqs[i] ELSE f[i - 1] \o seqs[i]]
<1>2. FlattenSeq(seqs) = g[Len(seqs)]
  BY <1>1, Zenon DEF FlattenSeq
<1>3. Flattens(g, seqs)
  BY FlattensExists, Zenon DEF Flattens
<1> QED
  BY <1>2, <1>3

(***************************************************************************)
(* Putting a unit together again                                           *)
(***************************************************************************)

\* The first i pieces of data together.
Prefix(data, budget, i) == SubSeq(data, 1, Least(i * budget, Len(data)))

\* The pieces of data put together are the data, and less before the last.
LEMMA PiecesJoin ==
  ASSUME NEW S, NEW data \in Seq(S), NEW budget \in Nat \ {0}
  PROVE  /\ Prefix(data, budget, 0) = <<>>
         /\ \A i \in 1..Pieces(data, budget) :
              /\ Prefix(data, budget, i) \in Seq(S)
              /\ Prefix(data, budget, i) = Prefix(data, budget, i - 1) \o Piece(data, budget, i)
              /\ i < Pieces(data, budget) => Len(Prefix(data, budget, i)) < Len(data)
         /\ Prefix(data, budget, Pieces(data, budget)) = data
<1> DEFINE n == Len(data)
           k == Pieces(data, budget)
           to(i) == Least(i * budget, n)
<1>1. k \in Nat /\ budget * (k - 1) < n /\ n <= budget * k /\ n \in Nat
  BY PiecesCount
<1>2. to(0) = 0
  BY <1>1 DEF Least
<1>3. Prefix(data, budget, 0) = <<>>
  BY <1>2 DEF Prefix
<1>4. ASSUME NEW i \in 1..k
      PROVE  /\ to(i) \in 0..n /\ to(i - 1) = (i - 1) * budget /\ to(i - 1) \in 0..to(i)
             /\ i < k => to(i) < n
  <2>1. /\ (i - 1) * budget \in 0..(n - 1) /\ to(i) \in 1..n
        /\ to(i) - (i - 1) * budget \in 1..budget
        /\ i < k => to(i) = i * budget
    BY PieceBounds
  <2>2. to(i - 1) = (i - 1) * budget
    BY <1>1, <2>1 DEF Least
  <2>3. i < k => i * budget \in 0..(n - 1)
    <3>1. ASSUME i < k  PROVE i + 1 \in 1..k /\ (i + 1) - 1 = i
      BY <1>1, <3>1
    <3> QED
      BY <3>1, PieceBounds
  <2> HIDE DEF to, k
  <2> QED
    BY <1>1, <2>1, <2>2, <2>3
<1>5. ASSUME NEW i \in 1..k
      PROVE  /\ Prefix(data, budget, i) \in Seq(S)
             /\ Len(Prefix(data, budget, i)) = to(i)
             /\ Prefix(data, budget, i) = Prefix(data, budget, i - 1) \o Piece(data, budget, i)
  <2>1. /\ Prefix(data, budget, i) = SubSeq(data, 1, to(i))
        /\ Prefix(data, budget, i - 1) = SubSeq(data, 1, to(i - 1))
        /\ Piece(data, budget, i) = SubSeq(data, to(i - 1) + 1, to(i))
    BY <1>4 DEF Prefix, Piece
  <2>2. to(i) \in 0..n /\ to(i - 1) \in 0..to(i)
    BY <1>4
  <2> HIDE DEF to
  <2>3. SubSeq(data, 1, to(i)) \in Seq(S) /\ Len(SubSeq(data, 1, to(i))) = to(i)
    BY <1>1, <2>2
  <2>4. SubSeq(data, 1, to(i)) = SubSeq(data, 1, to(i - 1)) \o SubSeq(data, to(i - 1) + 1, to(i))
    <3>1. /\ 1 \in 1..(Len(data) + 1) /\ to(i - 1) \in (1 - 1)..Len(data)
          /\ to(i) \in to(i - 1)..Len(data)
      BY <1>1, <2>2
    <3> QED
      BY <3>1, ConcatAdjacentSubSeq
  <2> QED
    BY <2>1, <2>3, <2>4
<1>6. to(k) = n
  <2>1. k * budget = budget * k /\ k * budget \in Nat
    BY <1>1
  <2> HIDE DEF k
  <2> QED
    BY <1>1, <2>1 DEF Least
<1>7. Prefix(data, budget, k) = data
  <2>1. SubSeq(data, 1, n) = data
    BY SubSeqFull
  <2> QED
    BY <1>6, <2>1 DEF Prefix
<1> QED
  BY <1>1, <1>3, <1>4, <1>5, <1>7

\* What a receiver has put together, and what one more packet makes of it.
Empty == [nal |-> <<>>, nals |-> <<>>]

Nals(h, p) ==
  IF IsWhole(SoFar(h, p.load), p.load) THEN Append(h.nals, SoFar(h, p.load)) ELSE h.nals

Put(h, p) ==
  [nal |-> IF IsWhole(SoFar(h, p.load), p.load) \/ p.marker THEN <<>> ELSE SoFar(h, p.load),
   nals |-> IF p.marker THEN <<>> ELSE Nals(h, p)]

\* A packet that a receiver may be sent next, of a unit that is `want`.
Fit(h, want, p) ==
  /\ p.load.is = "nal" => h.nal = <<>>
  /\ p.load.is = "fu" => (p.load.start <=> h.nal = <<>>)
  /\ p.marker => IsWhole(SoFar(h, p.load), p.load) /\ Nals(h, p) = want

\* A takes a receiver through packets, from a to b.
Leads(A, ps, want, a, b) ==
  /\ A[0] = a
  /\ A[Len(ps)] = b
  /\ \A i \in 1..Len(ps) : Fit(A[i - 1], want, ps[i]) /\ A[i] = Put(A[i - 1], ps[i])

Assembles(ps, want, a, b) == \E A : Leads(A, ps, want, a, b)

\* No packet but the last is marked, and that one if its unit ends there.
Marks(ps, last) == \A i \in 1..Len(ps) : ps[i].marker <=> last /\ i = Len(ps)

\* What two runs of packets make, one after the other.
LEMMA Onwards ==
  ASSUME NEW S, NEW ps \in Seq(S), NEW qs \in Seq(S), NEW want, NEW a, NEW b, NEW c,
         Assembles(ps, want, a, b), Assembles(qs, want, b, c)
  PROVE  Assembles(ps \o qs, want, a, c)
<1>1. PICK A : Leads(A, ps, want, a, b)
  BY DEF Assembles
<1>2. PICK B : Leads(B, qs, want, b, c)
  BY DEF Assembles
<1> DEFINE m == Len(ps)
           n == Len(qs)
           C == [i \in 0..(m + n) |-> IF i <= m THEN A[i] ELSE B[i - m]]
<1>3. m \in Nat /\ n \in Nat /\ Len(ps \o qs) = m + n
  OBVIOUS
<1>4. C[0] = a
  BY <1>1, <1>3 DEF Leads
<1>5. C[m + n] = c
  <2>1. CASE n = 0
    BY <1>1, <1>2, <1>3, <2>1 DEF Leads
  <2>2. CASE n # 0
    <3>1. m + n \in 0..(m + n) /\ ~(m + n <= m) /\ m + n - m = n
      BY <1>3, <2>2
    <3> QED
      BY <1>2, <3>1 DEF Leads
  <2> QED
    BY <2>1, <2>2
<1>6. ASSUME NEW i \in 1..(m + n)
      PROVE  Fit(C[i - 1], want, (ps \o qs)[i]) /\ C[i] = Put(C[i - 1], (ps \o qs)[i])
  <2>1. CASE i <= m
    <3>1. (ps \o qs)[i] = ps[i] /\ C[i] = A[i] /\ C[i - 1] = A[i - 1] /\ i \in 1..m
      BY <1>3, <2>1
    <3> HIDE DEF C
    <3> QED
      BY <1>1, <3>1 DEF Leads
  <2>2. CASE i > m
    <3>1. (ps \o qs)[i] = qs[i - m] /\ i - m \in 1..n
      BY <1>3, <2>2
    <3>2. C[i] = B[i - m]
      BY <1>3, <2>2
    <3>3. C[i - 1] = B[i - m - 1]
      <4>1. CASE i = m + 1
        <5>1. C[i - 1] = A[m] /\ i - m - 1 = 0
          BY <1>3, <4>1
        <5> HIDE DEF C
        <5> QED
          BY <1>1, <1>2, <5>1 DEF Leads
      <4>2. CASE i # m + 1
        <5>1. ~(i - 1 <= m) /\ i - 1 \in 0..(m + n) /\ i - 1 - m = i - m - 1
          BY <1>3, <2>2, <4>2
        <5> QED
          BY <5>1
      <4> QED
        BY <4>1, <4>2
    <3> HIDE DEF C
    <3> QED
      BY <1>2, <3>1, <3>2, <3>3 DEF Leads
  <2> QED
    BY <1>3, <2>1, <2>2
<1> HIDE DEF C
<1> QED
  BY <1>3, <1>4, <1>5, <1>6 DEF Assembles, Leads

\* What a receiver that has `so_far` of a NAL unit or frame makes of one more packet.
LEMMA PutIs ==
  ASSUME NEW h, NEW p, NEW data, data = SoFar(h, p.load)
  PROVE  /\ IsWhole(data, p.load) /\ p.marker => Put(h, p) = Empty
         /\ IsWhole(data, p.load) /\ ~p.marker =>
              Put(h, p) = [nal |-> <<>>, nals |-> Append(h.nals, data)]
         /\ ~IsWhole(data, p.load) /\ ~p.marker => Put(h, p) = [nal |-> data, nals |-> h.nals]
         /\ IsWhole(data, p.load) => Nals(h, p) = Append(h.nals, data)
BY DEF Put, Nals, Empty

\* A NAL unit that is a packet of its own.
LEMMA OneNal ==
  ASSUME NEW S, NEW data \in Seq(S), NEW nals, NEW want, NEW last \in BOOLEAN,
         last => Append(nals, data) = want
  PROVE  Assembles(<<Packet(last, [is |-> "nal", data |-> data])>>, want,
                   [nal |-> <<>>, nals |-> nals],
                   IF last THEN Empty ELSE [nal |-> <<>>, nals |-> Append(nals, data)])
<1> DEFINE load == [is |-> "nal", data |-> data]
           p == Packet(last, load)
           a == [nal |-> <<>>, nals |-> nals]
           b == IF last THEN Empty ELSE [nal |-> <<>>, nals |-> Append(nals, data)]
           A == [i \in 0..1 |-> IF i = 0 THEN a ELSE b]
<1>1. p.marker = last /\ p.load = load /\ load.is = "nal" /\ load.data = data
  BY DEF Packet
<1>2. a.nal = <<>> /\ a.nals = nals
  OBVIOUS
<1> HIDE DEF load, p, a
<1>3. SoFar(a, p.load) = data /\ IsWhole(data, p.load)
  <2>1. <<>> \o data = data
    OBVIOUS
  <2> QED
    BY <1>1, <1>2, <2>1 DEF SoFar, IsWhole
<1>4. Nals(a, p) = Append(nals, data) /\ Put(a, p) = b
  BY <1>1, <1>2, <1>3, PutIs
<1>5. Fit(a, want, p)
  BY <1>1, <1>2, <1>3, <1>4 DEF Fit
<1>6. A[0] = a /\ A[1] = b
  OBVIOUS
<1> HIDE DEF A, b
<1>7. Leads(A, <<p>>, want, a, b)
  <2>1. Len(<<p>>) = 1 /\ <<p>>[1] = p
    OBVIOUS
  <2>2. ASSUME NEW i \in 1..1  PROVE i = 1 /\ i - 1 = 0
    OBVIOUS
  <2> QED
    BY <1>4, <1>5, <1>6, <2>1, <2>2 DEF Leads
<1> QED
  BY <1>7 DEF Assembles, load, p, a, b

\* A NAL unit in fragments: the receiver has its header byte and the pieces so
\* far, and with the last of them the whole.
LEMMA InFragments ==
  ASSUME NEW S, NEW data \in Seq(S), Len(data) > Budget, NEW nals, NEW want, NEW last \in BOOLEAN,
         last => Append(nals, data) = want
  PROVE  Assembles(Fragment(data, last), want, [nal |-> <<>>, nals |-> nals],
                   IF last THEN Empty ELSE [nal |-> <<>>, nals |-> Append(nals, data)])
<1> DEFINE body == Tail(data)
           room == Budget - FU_PREFIX
           k == Pieces(body, room)
           ps == Fragment(data, last)
           a == [nal |-> <<>>, nals |-> nals]
           b == IF last THEN Empty ELSE [nal |-> <<>>, nals |-> Append(nals, data)]
           got(i) == <<data[1]>> \o Prefix(body, room, i)
           A == [i \in 0..k |-> IF i = 0 THEN a ELSE IF i = k THEN b
                                ELSE [nal |-> got(i), nals |-> nals]]
<1>1. /\ room \in Nat \ {0} /\ data # <<>> /\ data[1] \in S
      /\ body \in Seq(S) /\ body # <<>> /\ data = <<data[1]>> \o body
  <2>1. Budget \in Nat /\ room \in Nat \ {0}
    BY Budgets
  <2>2. data # <<>> /\ Len(data) \in Nat /\ Len(data) >= 2 /\ data[1] \in S
    BY <2>1, RtpAssumption DEF PREFIX
  <2>3. body \in Seq(S) /\ Len(body) = Len(data) - 1
    BY <2>2
  <2>4. data = <<data[1]>> \o body
    <3>1. SubSeq(data, 1, Len(data)) = <<data[1]>> \o SubSeq(data, 1 + 1, Len(data))
      BY <2>2, SubSeqRecursiveFirst
    <3>2. SubSeq(data, 1, Len(data)) = data /\ body = SubSeq(data, 2, Len(data))
      BY <2>2, SubSeqFull, TailIsSubSeq
    <3> QED
      BY <3>1, <3>2
  <2>5. body # <<>>
    <3> HIDE DEF body
    <3> QED
      BY <2>2, <2>3
  <2> QED
    BY <2>1, <2>2, <2>3, <2>4, <2>5
<1>2. k \in Nat \ {0}
  <2>1. k \in Nat /\ (body # <<>> => k >= 1)
    BY <1>1, PiecesCount
  <2> HIDE DEF k
  <2> QED
    BY <1>1, <2>1
<1>3. ps = [i \in 1..k |->
              Packet(last /\ i = k,
                     [is |-> "fu", header |-> data[1], start |-> i = 1, end |-> i = k,
                      data |-> Piece(body, room, i)])]
  BY DEF Fragment, Fragments
<1> HIDE DEF body, room, k, ps
<1>4. Len(ps) = k
  BY <1>2, <1>3
<1>5. ASSUME NEW i \in 1..k
      PROVE  /\ ps[i].marker = (last /\ i = k) /\ ps[i].load.is = "fu"
             /\ ps[i].load.header = data[1] /\ ps[i].load.start = (i = 1)
             /\ ps[i].load.end = (i = k) /\ ps[i].load.data = Piece(body, room, i)
  <2> DEFINE load == [is |-> "fu", header |-> data[1], start |-> i = 1, end |-> i = k,
                      data |-> Piece(body, room, i)]
  <2>1. ps[i].marker = (last /\ i = k) /\ ps[i].load = load
    BY <1>3 DEF Packet
  <2>2. /\ load.is = "fu" /\ load.header = data[1] /\ load.start = (i = 1)
        /\ load.end = (i = k) /\ load.data = Piece(body, room, i)
    OBVIOUS
  <2> HIDE DEF load
  <2> QED
    BY <2>1, <2>2
<1>6. /\ Prefix(body, room, 0) = <<>> /\ Prefix(body, room, k) = body
      /\ \A i \in 1..k : /\ Prefix(body, room, i) \in Seq(S)
                         /\ Prefix(body, room, i) = Prefix(body, room, i - 1) \o Piece(body, room, i)
                         /\ Piece(body, room, i) \in Seq(S)
  BY <1>1, PiecesJoin, PieceIs DEF k
<1>7. ASSUME NEW i \in 0..k
      PROVE  Prefix(body, room, i) \in Seq(S) /\ got(i) \in Seq(S) /\ got(i) # <<>>
  <2>1. Prefix(body, room, i) \in Seq(S)
    <3>1. CASE i = 0
      <4>1. <<>> \in Seq(S)
        OBVIOUS
      <4> QED
        BY <1>6, <3>1, <4>1
    <3>2. CASE i # 0
      BY <1>6, <3>2
    <3> QED
      BY <3>1, <3>2
  <2>2. got(i) \in Seq(S) /\ got(i) # <<>>
    <3>1. PICK q \in Seq(S) : q = Prefix(body, room, i)
      BY <2>1
    <3>2. <<data[1]>> \o q \in Seq(S) /\ <<data[1]>> \o q # <<>>
      BY <1>1
    <3> QED
      BY <3>1, <3>2
  <2> QED
    BY <2>1, <2>2
<1>8. got(k) = data
  BY <1>1, <1>6
<1>9. ASSUME NEW i \in 2..k  PROVE got(i) = got(i - 1) \o Piece(body, room, i)
  <2>1. i \in 1..k /\ i - 1 \in 0..k
    BY <1>2
  <2>2. /\ Prefix(body, room, i) = Prefix(body, room, i - 1) \o Piece(body, room, i)
        /\ Prefix(body, room, i - 1) \in Seq(S) /\ Piece(body, room, i) \in Seq(S)
        /\ <<data[1]>> \in Seq(S)
    BY <1>1, <1>6, <1>7, <2>1
  <2>3. <<data[1]>> \o (Prefix(body, room, i - 1) \o Piece(body, room, i))
          = (<<data[1]>> \o Prefix(body, room, i - 1)) \o Piece(body, room, i)
    <3>1. \A p, q, r \in Seq(S) : p \o (q \o r) = (p \o q) \o r
      BY ConcatAssociative
    <3> QED
      BY <2>2, <3>1
  <2> QED
    BY <2>2, <2>3
<1>10. k >= 1 => got(1) = <<data[1]>> \o Piece(body, room, 1)
  <2>1. 1 \in 1..k /\ 1 - 1 = 0
    BY <1>2
  <2>2. Prefix(body, room, 1) = <<>> \o Piece(body, room, 1) /\ Piece(body, room, 1) \in Seq(S)
    BY <1>6, <2>1
  <2> QED
    BY <2>2
<1>11. A[0] = a /\ A[k] = b /\ \A i \in 1..(k - 1) : A[i] = [nal |-> got(i), nals |-> nals]
  BY <1>2
<1>12. a.nal = <<>> /\ a.nals = nals
  OBVIOUS
<1> HIDE DEF got, A, a
<1>13. ASSUME NEW i \in 1..k
       PROVE  /\ A[i - 1].nals = nals
              /\ i = 1 <=> A[i - 1].nal = <<>>
              /\ SoFar(A[i - 1], ps[i].load) = got(i)
  <2>1. CASE i = 1
    <3>1. A[i - 1] = a
      BY <1>11, <2>1
    <3>2. SoFar(a, ps[i].load) = got(1)
      <4>1. ps[i].load.is = "fu" /\ ps[i].load.start /\ ps[i].load.header = data[1]
            /\ ps[i].load.data = Piece(body, room, 1)
        BY <1>5, <2>1
      <4>2. got(1) = <<data[1]>> \o Piece(body, room, 1)
        BY <1>2, <1>10
      <4> QED
        BY <4>1, <4>2 DEF SoFar
    <3> QED
      BY <1>12, <2>1, <3>1, <3>2
  <2>2. CASE i # 1
    <3>1. i \in 2..k /\ i - 1 \in 1..(k - 1) /\ i - 1 \in 0..k
      BY <1>2, <2>2
    <3>2. A[i - 1].nal = got(i - 1) /\ A[i - 1].nals = nals
      <4>1. A[i - 1] = [nal |-> got(i - 1), nals |-> nals]
        BY <1>11, <3>1
      <4> QED
        BY <4>1
    <3> QED
      BY <1>5, <1>7, <1>9, <2>2, <3>1, <3>2 DEF SoFar
  <2> QED
    BY <2>1, <2>2
<1>14. ASSUME NEW i \in 1..k
       PROVE  Fit(A[i - 1], want, ps[i]) /\ A[i] = Put(A[i - 1], ps[i])
  <2>1. IsWhole(got(i), ps[i].load) <=> i = k
    BY <1>5 DEF IsWhole
  <2>2. CASE i = k
    <3>1. /\ IsWhole(data, ps[i].load) /\ SoFar(A[i - 1], ps[i].load) = data
          /\ ps[i].marker <=> last
      BY <1>5, <1>8, <1>13, <2>1, <2>2
    <3>2. Nals(A[i - 1], ps[i]) = Append(nals, data)
      BY <1>13, <3>1, PutIs
    <3>3. Put(A[i - 1], ps[i]) = b
      <4> DEFINE h == A[i - 1]
                 p == ps[i]
      <4>1. IsWhole(data, p.load) /\ data = SoFar(h, p.load) /\ (p.marker <=> last)
        BY <3>1
      <4>2. h.nals = nals
        BY <1>13
      <4> HIDE DEF h, p
      <4>3. last => Put(h, p) = Empty
        BY <4>1, PutIs, Zenon
      <4>4. ~last => Put(h, p) = [nal |-> <<>>, nals |-> Append(nals, data)]
        BY <4>1, <4>2, PutIs, Zenon
      <4>5. Put(h, p) = b
        BY <4>3, <4>4
      <4> QED
        BY <4>5 DEF h, p
    <3>4. Fit(A[i - 1], want, ps[i])
      BY <1>5, <1>13, <3>1, <3>2 DEF Fit
    <3> QED
      BY <1>11, <2>2, <3>3, <3>4
  <2>3. CASE i # k
    <3>1. ~IsWhole(got(i), ps[i].load) /\ ~ps[i].marker
      BY <1>5, <2>1, <2>3
    <3>2. Put(A[i - 1], ps[i]) = [nal |-> got(i), nals |-> nals]
      BY <1>13, <3>1, PutIs
    <3>3. Fit(A[i - 1], want, ps[i])
      BY <1>5, <1>13, <3>1 DEF Fit
    <3>4. i \in 1..(k - 1)
      BY <1>2, <2>3
    <3> QED
      BY <1>11, <3>2, <3>3, <3>4
  <2> QED
    BY <2>2, <2>3
<1>15. Leads(A, ps, want, a, b)
  BY <1>4, <1>11, <1>14 DEF Leads
<1> QED
  BY <1>15 DEF Assembles, ps, a

\* The data of a NAL unit or frame is its bytes.
LEMMA DataIs ==
  ASSUME NEW u, NEW k, u.number \in Nat, k \in Nat, u.lengths[k] \in Nat
  PROVE  Data(u, k) \in Seq(Bytes) /\ Len(Data(u, k)) = u.lengths[k]
<1> DEFINE n == u.lengths[k]
<1>1. Data(u, k) = [i \in 1..n |-> <<u.number, k, i>>]
  BY DEF Data
<1>2. \A i \in 1..n : <<u.number, k, i>> \in Bytes
  BY DEF Bytes
<1> QED
  BY <1>1, <1>2

\* A packet before it is addressed, which is not too large.
Parts == [marker : BOOLEAN, load : {load \in Loads : Size(load) <= Budget}]

\* A frame that can be sent: the receiver knows from its size which packet has
\* the last of it, and that is the one that is marked.
LEMMA SoundAssembles ==
  ASSUME NEW u, u.number \in Nat, u.lengths \in AudioUnits, u.lengths[1] <= MAX_ACCESS_UNIT
  PROVE  /\ Sound(u) \in Seq(Parts)
         /\ Sound(u) # <<>>
         /\ Assembles(Sound(u), <<Data(u, 1)>>, Empty, Empty)
         /\ Marks(Sound(u), TRUE)
<1> DEFINE n == u.lengths[1]
           frame == Data(u, 1)
           room == Budget - PREFIX
           k == IF frame = <<>> THEN 1 ELSE Pieces(frame, room)
           ps == Sound(u)
           want == <<frame>>
           got(i) == Prefix(frame, room, i)
           load(i) == [is |-> "au", size |-> n, data |-> Piece(frame, room, i)]
           A == [i \in 0..k |-> IF i \in 1..(k - 1) THEN [nal |-> got(i), nals |-> <<>>] ELSE Empty]
<1>1. n \in Nat /\ MAX_ACCESS_UNIT \in Nat /\ n <= MAX_ACCESS_UNIT /\ room \in Nat \ {0}
  <2>1. n \in Nat
    BY RtpAssumption
  <2> QED
    BY <2>1, RtpAssumption, Budgets
<1>2. frame \in Seq(Bytes) /\ Len(frame) = n
  BY <1>1, DataIs
<1>3. n % (MAX_ACCESS_UNIT + 1) = n
  <2> DEFINE m == MAX_ACCESS_UNIT + 1
  <2>1. n \in 0..(m - 1) /\ m \in Nat \ {0}
    BY <1>1
  <2> HIDE DEF m, n
  <2>2. n % m = n
    BY <2>1, SmallRemainder
  <2> QED
    BY <2>2 DEF m
<1>4. ps = [i \in 1..k |-> Packet(i = k, load(i))]
  <2>1. ~(Len(frame) > MAX_ACCESS_UNIT)
    BY <1>1, <1>2
  <2>2. Len(frame) % (MAX_ACCESS_UNIT + 1) = n
    BY <1>2, <1>3
  <2>3. ps = [i \in 1..k |-> Packet(i = k, [is |-> "au", size |-> Len(frame) % (MAX_ACCESS_UNIT + 1),
                                            data |-> Piece(frame, room, i)])]
    BY <2>1, Zenon DEF Sound
  <2> HIDE DEF ps, k, n, frame, room
  <2> QED
    BY <2>2, <2>3, Zenon
<1> HIDE DEF n, frame, room, ps
<1>5. k \in Nat \ {0}
  <2>1. CASE frame = <<>>
    BY <2>1
  <2>2. CASE frame # <<>>
    <3>1. Pieces(frame, room) \in Nat /\ Pieces(frame, room) >= 1
      BY <1>1, <1>2, <2>2, PiecesCount
    <3> QED
      BY <2>2, <3>1
  <2> QED
    BY <2>1, <2>2
<1>6. /\ got(0) = <<>> /\ got(k) = frame
      /\ \A i \in 1..k : /\ got(i) \in Seq(Bytes)
                         /\ got(i) = got(i - 1) \o Piece(frame, room, i)
                         /\ Piece(frame, room, i) \in Seq(Bytes)
                         /\ i < k => Len(got(i)) < n
  <2>1. CASE frame = <<>>
    <3>1. Len(<<>>) = 0 /\ Least(0 * room, 0) = 0 /\ Least(1 * room, 0) = 0 /\ (1 - 1) * room + 1 = 1
      BY <1>1 DEF Least
    <3>2. SubSeq(<<>>, 1, 0) = <<>> /\ <<>> \o <<>> = <<>> /\ <<>> \in Seq(Bytes)
      OBVIOUS
    <3>3. got(0) = <<>> /\ got(1) = <<>> /\ Piece(frame, room, 1) = <<>>
      BY <2>1, <3>1, <3>2 DEF Prefix, Piece
    <3>4. ASSUME NEW i \in 1..k  PROVE i = 1 /\ i - 1 = 0 /\ ~(i < k)
      BY <2>1
    <3>5. k = 1
      BY <2>1
    <3> HIDE DEF got, k
    <3> QED
      BY <2>1, <3>2, <3>3, <3>4, <3>5
  <2>2. CASE frame # <<>>
    <3>1. k = Pieces(frame, room)
      BY <2>2
    <3> HIDE DEF k
    <3>2. /\ got(0) = <<>>
          /\ \A i \in 1..Pieces(frame, room) :
               /\ got(i) \in Seq(Bytes)
               /\ got(i) = got(i - 1) \o Piece(frame, room, i)
               /\ i < Pieces(frame, room) => Len(got(i)) < Len(frame)
          /\ got(Pieces(frame, room)) = frame
      BY <1>1, <1>2, PiecesJoin
    <3>3. \A i \in 1..Pieces(frame, room) : Piece(frame, room, i) \in Seq(Bytes)
      BY <1>1, <1>2, PieceIs
    <3> HIDE DEF got
    <3> QED
      BY <1>2, <3>1, <3>2, <3>3
  <2> QED
    BY <2>1, <2>2
<1> HIDE DEF k, got
<1>7. Len(ps) = k
  BY <1>4, <1>5
<1>8. ASSUME NEW i \in 1..k
      PROVE  /\ ps[i].marker = (i = k) /\ ps[i].load = load(i)
             /\ ps[i] \in Parts
  <2>1. load(i) \in Loads
    BY <1>1, <1>6 DEF Loads, n
  <2> HIDE DEF load
  <2>2. ps[i].marker = (i = k) /\ ps[i].load = load(i) /\ ps[i] = Packet(i = k, load(i))
    BY <1>4 DEF Packet
  <2>3. Size(load(i)) <= Budget
    <3>1. i \in 1..Len(Sound(u))
      BY <1>7 DEF ps
    <3>2. Size(Sound(u)[i].load) <= Budget
      BY <3>1, SoundFits
    <3> QED
      BY <2>2, <3>2 DEF ps
  <2> QED
    BY <2>1, <2>2, <2>3 DEF Packet, Parts
<1>9. ps \in Seq(Parts)
  <2> HIDE DEF load
  <2>1. ps \in [1..k -> Parts]
    BY <1>4, <1>8, Zenon
  <2>2. \A X : \A f \in [1..k -> X] : f \in Seq(X)
    BY <1>5
  <2> QED
    BY <2>1, <2>2
<1>10. ps # <<>>
  BY <1>5, <1>7
<1>11. Marks(ps, TRUE)
  BY <1>7, <1>8 DEF Marks
<1>12. A[0] = Empty /\ A[k] = Empty /\ \A i \in 1..(k - 1) : A[i] = [nal |-> got(i), nals |-> <<>>]
  BY <1>5
<1>13. ASSUME NEW i \in 1..k
       PROVE  A[i - 1].nals = <<>> /\ A[i - 1].nal = got(i - 1)
  <2>1. CASE i = 1
    BY <1>6, <1>12, <2>1 DEF Empty
  <2>2. CASE i # 1
    <3>1. i - 1 \in 1..(k - 1)
      BY <1>5, <2>2
    <3>2. A[i - 1] = [nal |-> got(i - 1), nals |-> <<>>]
      BY <1>12, <3>1
    <3> HIDE DEF A
    <3> QED
      BY <3>2
  <2> QED
    BY <2>1, <2>2
<1>14. ASSUME NEW i \in 1..k
       PROVE  /\ ps[i].load.is = "au" /\ SoFar(A[i - 1], ps[i].load) = got(i)
              /\ IsWhole(got(i), ps[i].load) <=> i = k
  <2>1. ps[i].load.is = "au" /\ ps[i].load.size = n /\ ps[i].load.data = Piece(frame, room, i)
    <3>1. load(i).is = "au" /\ load(i).size = n /\ load(i).data = Piece(frame, room, i)
      OBVIOUS
    <3> HIDE DEF load
    <3> QED
      BY <1>8, <3>1
  <2>2. SoFar(A[i - 1], ps[i].load) = got(i)
    <3> HIDE DEF A
    <3> QED
      BY <1>6, <1>13, <2>1 DEF SoFar
  <2>3. Len(got(i)) = n <=> i = k
    <3>1. i = k \/ i < k
      BY <1>5
    <3>2. i < k => Len(got(i)) # n
      <4>1. Len(got(i)) \in Nat
        BY <1>6
      <4> QED
        BY <1>1, <1>6, <4>1 DEF n
    <3>3. i = k => Len(got(i)) = n
      BY <1>2, <1>6
    <3> QED
      BY <3>1, <3>2, <3>3
  <2> QED
    BY <2>1, <2>2, <2>3 DEF IsWhole
<1>15. \A i \in 1..k : ps[i].marker <=> i = k
  BY <1>8
<1> HIDE DEF A, load
<1>16. ASSUME NEW i \in 1..k
       PROVE  Fit(A[i - 1], want, ps[i]) /\ A[i] = Put(A[i - 1], ps[i])
  <2> DEFINE h == A[i - 1]
             p == ps[i]
  <2>1. /\ p.load.is = "au" /\ SoFar(h, p.load) = got(i) /\ h.nals = <<>>
        /\ IsWhole(got(i), p.load) <=> i = k
        /\ p.marker <=> i = k
    BY <1>13, <1>14, <1>15
  <2>2. i = k => Nals(h, p) = want
    <3>1. Append(<<>>, frame) = want
      OBVIOUS
    <3> HIDE DEF h, p, want
    <3> QED
      BY <1>6, <2>1, <3>1, PutIs, Zenon
  <2>3. Fit(h, want, p)
    <3> HIDE DEF h, p, want
    <3> QED
      BY <2>1, <2>2 DEF Fit
  <2>4. i = k => Put(h, p) = Empty
    <3> HIDE DEF h, p, want
    <3> QED
      BY <2>1, PutIs, Zenon
  <2>5. i # k => Put(h, p) = [nal |-> got(i), nals |-> <<>>]
    <3> HIDE DEF h, p, want
    <3> QED
      BY <2>1, PutIs, Zenon
  <2>6. i = k \/ i \in 1..(k - 1)
    BY <1>5
  <2> QED
    BY <1>12, <2>3, <2>4, <2>5, <2>6
<1>17. Leads(A, ps, want, Empty, Empty)
  BY <1>7, <1>12, <1>16 DEF Leads
<1> QED
  BY <1>9, <1>10, <1>11, <1>17 DEF Assembles, ps, frame

\* A NAL unit in fragments is typed, and no fragment is marked but the last.
LEMMA FragmentsAre ==
  ASSUME NEW data \in Seq(Bytes), Len(data) > Budget, NEW last \in BOOLEAN
  PROVE  /\ Fragment(data, last) \in Seq(Parts)
         /\ Fragment(data, last) # <<>>
         /\ Marks(Fragment(data, last), last)
<1> DEFINE body == Tail(data)
           room == Budget - FU_PREFIX
           k == Pieces(body, room)
           load(i) == [is |-> "fu", header |-> data[1], start |-> i = 1, end |-> i = k,
                       data |-> Piece(body, room, i)]
           ps == Fragment(data, last)
<1>1. room \in Nat \ {0} /\ Budget \in Nat /\ data # <<>> /\ data[1] \in Bytes
      /\ body \in Seq(Bytes) /\ body # <<>>
  <2>1. Budget \in Nat /\ room \in Nat \ {0}
    BY Budgets
  <2>2. data # <<>> /\ Len(data) \in Nat /\ Len(data) >= 2 /\ data[1] \in Bytes
    BY <2>1, RtpAssumption DEF PREFIX
  <2>3. body \in Seq(Bytes) /\ Len(body) = Len(data) - 1
    BY <2>2
  <2>4. body # <<>>
    <3> HIDE DEF body
    <3> QED
      BY <2>2, <2>3
  <2> QED
    BY <2>1, <2>2, <2>3, <2>4
<1>2. k \in Nat \ {0}
  <2>1. k \in Nat /\ (body # <<>> => k >= 1)
    BY <1>1, PiecesCount
  <2> HIDE DEF k
  <2> QED
    BY <1>1, <2>1
<1>3. ps = [i \in 1..k |-> Packet(last /\ i = k, load(i))]
  BY Zenon DEF Fragment, Fragments
<1>4. ASSUME NEW i \in 1..k  PROVE load(i) \in Loads
  <2>1. Piece(body, room, i) \in Seq(Bytes)
    BY <1>1, PieceIs
  <2> HIDE DEF body, room, k
  <2> QED
    BY <1>1, <2>1 DEF Loads
<1> HIDE DEF body, room, k, load, ps
<1>5. Len(ps) = k
  BY <1>2, <1>3
<1>6. ASSUME NEW i \in 1..k  PROVE ps[i].marker = (last /\ i = k) /\ ps[i] \in Parts
  <2>1. ps[i] = Packet(last /\ i = k, load(i))
    BY <1>3
  <2>2. ps[i].marker = (last /\ i = k) /\ ps[i].load = load(i)
    BY <2>1 DEF Packet
  <2>3. Size(load(i)) <= Budget
    <3>1. i \in 1..Len(Fragment(data, last))
      BY <1>5 DEF ps
    <3>2. Size(Fragment(data, last)[i].load) <= Budget
      BY <3>1, FragmentsFit
    <3> QED
      BY <2>2, <3>2 DEF ps
  <2> QED
    BY <1>4, <2>1, <2>2, <2>3 DEF Packet, Parts
<1>7. ps \in Seq(Parts)
  <2>1. ps \in [1..k -> Parts]
    BY <1>3, <1>6, Zenon
  <2>2. \A X : \A f \in [1..k -> X] : f \in Seq(X)
    BY <1>2
  <2> QED
    BY <2>1, <2>2
<1>8. ps # <<>>
  BY <1>2, <1>5
<1>9. Marks(ps, last)
  BY <1>5, <1>6 DEF Marks
<1> QED
  BY <1>7, <1>8, <1>9 DEF ps

\* Packets that are not marked in front of others change nothing about the mark.
LEMMA MarksJoin ==
  ASSUME NEW S, NEW ps \in Seq(S), NEW qs \in Seq(S), qs # <<>>, NEW last \in BOOLEAN,
         Marks(ps, FALSE), Marks(qs, last)
  PROVE  Marks(ps \o qs, last)
<1> DEFINE m == Len(ps)
           n == Len(qs)
<1>1. m \in Nat /\ n \in Nat \ {0} /\ Len(ps \o qs) = m + n
  OBVIOUS
<1>2. ASSUME NEW i \in 1..(m + n)
      PROVE  (ps \o qs)[i].marker <=> last /\ i = m + n
  <2>1. CASE i <= m
    <3>1. (ps \o qs)[i] = ps[i] /\ i \in 1..m /\ i # m + n
      BY <1>1, <2>1
    <3> QED
      BY <3>1 DEF Marks
  <2>2. CASE i > m
    <3>1. (ps \o qs)[i] = qs[i - m] /\ i - m \in 1..n /\ (i = m + n <=> i - m = n)
      BY <1>1, <2>2
    <3> QED
      BY <3>1 DEF Marks
  <2> QED
    BY <1>1, <2>1, <2>2
<1> QED
  BY <1>1, <1>2 DEF Marks

\* The NAL units of an access unit, and what its k-th is sent as.
AllOf(u, k) == [j \in 1..k |-> Data(u, j)]

PartOf(u, k) ==
  IF u.lengths[k] <= Budget
  THEN <<Packet(k = Len(u.lengths), [is |-> "nal", data |-> Data(u, k)])>>
  ELSE Fragment(Data(u, k), k = Len(u.lengths))

\* What a receiver has after the k-th.
UpTo(u, k) == IF k = Len(u.lengths) THEN Empty ELSE [nal |-> <<>>, nals |-> AllOf(u, k)]

\* What one NAL unit is sent as brings a receiver that has those before it to
\* have that one too, or the whole access unit (h264.rs, packetize).
LEMMA PartAssembles ==
  ASSUME NEW u, u.number \in Nat, u.lengths \in Seq(Nat \ {0}), NEW k \in 1..Len(u.lengths),
         NEW from, from = [nal |-> <<>>, nals |-> AllOf(u, k - 1)]
  PROVE  /\ PartOf(u, k) \in Seq(Parts)
         /\ PartOf(u, k) # <<>>
         /\ Assembles(PartOf(u, k), AllOf(u, Len(u.lengths)), from, UpTo(u, k))
         /\ Marks(PartOf(u, k), k = Len(u.lengths))
<1> DEFINE n == Len(u.lengths)
           data == Data(u, k)
           last == k = n
           nals == AllOf(u, k - 1)
           want == AllOf(u, n)
<1>1. n \in Nat /\ k \in Nat \ {0} /\ last \in BOOLEAN /\ u.lengths[k] \in Nat
  OBVIOUS
<1>2. data \in Seq(Bytes) /\ Len(data) = u.lengths[k]
  BY <1>1, DataIs
<1>3. Append(nals, data) = AllOf(u, k)
  <2>1. /\ nals = [j \in 1..(k - 1) |-> Data(u, j)]
        /\ AllOf(u, k) = [j \in 1..k |-> Data(u, j)]
    BY DEF AllOf
  <2> DEFINE D == {Data(u, j) : j \in 1..k}
             all == AllOf(u, k)
  <2>2. nals \in Seq(D) /\ Len(nals) = k - 1 /\ all \in Seq(D) /\ Len(all) = k /\ data \in D
    <3>1. nals \in [1..(k - 1) -> D] /\ all \in [1..k -> D] /\ data \in D
      BY <1>1, <2>1
    <3> HIDE DEF D, nals, all, data
    <3> QED
      BY <1>1, <3>1
  <2>3. (\A j \in 1..(k - 1) : nals[j] = all[j]) /\ all[k] = data
    BY <1>1, <2>1
  <2> HIDE DEF D, nals, all, data
  <2>4. Append(nals, data) \in Seq(D) /\ Len(Append(nals, data)) = Len(all)
    BY <1>1, <2>2
  <2>5. \A j \in 1..Len(all) : Append(nals, data)[j] = all[j]
    <3>1. \A j \in 1..k : j = k \/ j \in 1..(k - 1)
      BY <1>1
    <3> QED
      BY <1>1, <2>2, <2>3, <3>1
  <2> QED
    BY <2>2, <2>4, <2>5, SeqEqual DEF all
<1>4. last => Append(nals, data) = want
  BY <1>3
<1> HIDE DEF last
<1>5. (IF last THEN Empty ELSE [nal |-> <<>>, nals |-> Append(nals, data)]) = UpTo(u, k)
  BY <1>3 DEF UpTo, last
<1> HIDE DEF data, nals, want
<1>6. from = [nal |-> <<>>, nals |-> nals]
  BY DEF nals
<1>7. CASE u.lengths[k] <= Budget
  <2> DEFINE p == Packet(last, [is |-> "nal", data |-> data])
  <2>1. PartOf(u, k) = <<p>>
    BY <1>7 DEF PartOf, last, data
  <2>2. p \in Parts /\ p.marker = last
    <3> DEFINE load == [is |-> "nal", data |-> data]
    <3>1. load \in Loads /\ load.is = "nal" /\ load.data = data
      BY <1>2 DEF Loads
    <3>2. p = [marker |-> last, load |-> load]
      BY DEF Packet
    <3> HIDE DEF load, p
    <3>3. Size(load) = Len(data) + 0
      BY <3>1 DEF Size
    <3>4. Size(load) <= Budget
      BY <1>2, <1>7, <3>3
    <3> QED
      BY <1>1, <3>1, <3>2, <3>4 DEF Parts
  <2>3. Assembles(<<p>>, want, from, UpTo(u, k))
    BY <1>1, <1>2, <1>4, <1>5, <1>6, OneNal
  <2> HIDE DEF p
  <2>4. <<p>> \in Seq(Parts) /\ <<p>> # <<>> /\ Len(<<p>>) = 1 /\ <<p>>[1] = p
    BY <2>2
  <2>5. Marks(<<p>>, last)
    <3>1. \A i \in 1..1 : i = 1
      OBVIOUS
    <3> QED
      BY <2>2, <2>4, <3>1 DEF Marks
  <2> QED
    BY <2>1, <2>3, <2>4, <2>5 DEF last, want
<1>8. CASE ~(u.lengths[k] <= Budget)
  <2>1. PartOf(u, k) = Fragment(data, last)
    BY <1>8 DEF PartOf, last, data
  <2>2. Len(data) > Budget
    <3>1. Budget \in Nat
      BY Budgets
    <3> QED
      BY <1>1, <1>2, <1>8, <3>1
  <2>3. Assembles(Fragment(data, last), want, from, UpTo(u, k))
    BY <1>1, <1>2, <1>4, <1>5, <1>6, <2>2, InFragments
  <2>4. /\ Fragment(data, last) \in Seq(Parts) /\ Fragment(data, last) # <<>>
        /\ Marks(Fragment(data, last), last)
    BY <1>1, <1>2, <2>2, FragmentsAre
  <2> QED
    BY <2>1, <2>3, <2>4 DEF last, want
<1> QED
  BY <1>7, <1>8

\* An access unit of pictures, every NAL unit after the one before it.
LEMMA PicturesAssemble ==
  ASSUME NEW u, u.number \in Nat, u.lengths \in Seq(Nat \ {0}), u.lengths # <<>>
  PROVE  /\ Pictures(u) \in Seq(Parts)
         /\ Pictures(u) # <<>>
         /\ Assembles(Pictures(u), AllOf(u, Len(u.lengths)), Empty, Empty)
         /\ Marks(Pictures(u), TRUE)
<1> DEFINE n == Len(u.lengths)
           want == AllOf(u, n)
           seqs == [k \in 1..n |-> PartOf(u, k)]
<1>1. n \in Nat \ {0}
  OBVIOUS
<1>2. Pictures(u) = FlattenSeq(seqs)
  BY Zenon DEF Pictures, PartOf
<1>3. Empty = [nal |-> <<>>, nals |-> AllOf(u, 0)]
  <2>1. AllOf(u, 0) = <<>>
    BY DEF AllOf
  <2> QED
    BY <2>1 DEF Empty
<1>4. ASSUME NEW k \in 1..n
      PROVE  /\ PartOf(u, k) \in Seq(Parts) /\ PartOf(u, k) # <<>>
             /\ Marks(PartOf(u, k), k = n)
             /\ k = 1 => Assembles(PartOf(u, k), want, Empty, UpTo(u, k))
             /\ k # 1 => Assembles(PartOf(u, k), want, UpTo(u, k - 1), UpTo(u, k))
  <2> DEFINE from == [nal |-> <<>>, nals |-> AllOf(u, k - 1)]
  <2>1. /\ PartOf(u, k) \in Seq(Parts) /\ PartOf(u, k) # <<>>
        /\ Marks(PartOf(u, k), k = n)
        /\ Assembles(PartOf(u, k), want, from, UpTo(u, k))
    BY PartAssembles
  <2>2. k = 1 => from = Empty
    BY <1>3
  <2>3. k # 1 => from = UpTo(u, k - 1)
    <3>1. k - 1 # n
      BY <1>1
    <3> QED
      BY <3>1 DEF UpTo
  <2> QED
    BY <2>1, <2>2, <2>3
<1> HIDE DEF n, want
<1>5. seqs \in Seq(Seq(Parts)) /\ Len(seqs) = n /\ seqs # <<>>
  BY <1>1, <1>4
<1>6. PICK f : Flattens(f, seqs) /\ FlattenSeq(seqs) = f[n]
  BY <1>5, FlattenIs
<1>7. ASSUME NEW k \in 1..n
      PROVE  f[k] = IF k = 1 THEN PartOf(u, k) ELSE f[k - 1] \o PartOf(u, k)
  <2>1. f = [i \in 1..n |-> IF i = 1 THEN seqs[i] ELSE f[i - 1] \o seqs[i]]
    BY <1>5, <1>6 DEF Flattens
  <2>2. f[k] = IF k = 1 THEN seqs[k] ELSE f[k - 1] \o seqs[k]
    BY <2>1, Zenon
  <2> QED
    BY <2>2
<1> HIDE DEF seqs
<1> DEFINE Good(k) == /\ f[k] \in Seq(Parts) /\ f[k] # <<>>
                      /\ Marks(f[k], k = n)
                      /\ Assembles(f[k], want, Empty, UpTo(u, k))
           T == {k \in 1..n : Good(k)}
<1>8. 1 \in T
  <2>1. 1 \in 1..n
    BY <1>1
  <2>2. f[1] = PartOf(u, 1)
    BY <1>7, <2>1
  <2> QED
    BY <1>4, <2>1, <2>2
<1>9. ASSUME NEW k \in 1..(n - 1), k \in T  PROVE k + 1 \in T
  <2>1. k + 1 \in 1..n /\ k + 1 # 1 /\ k + 1 - 1 = k /\ k # n /\ Good(k)
    BY <1>1, <1>9
  <2> DEFINE j == k + 1
             qs == PartOf(u, j)
  <2>2. f[j] = f[k] \o qs
    <3>1. PICK i \in 1..n : i = j /\ i # 1 /\ i - 1 = k
      BY <2>1
    <3>2. f[i] = f[i - 1] \o PartOf(u, i)
      BY <1>7, <3>1, Zenon
    <3> QED
      BY <3>1, <3>2, Zenon DEF qs
  <2>3. /\ qs \in Seq(Parts) /\ qs # <<>> /\ Marks(qs, j = n)
        /\ Assembles(qs, want, UpTo(u, k), UpTo(u, j))
    BY <1>4, <2>1
  <2>4. Marks(f[k], FALSE)
    BY <2>1 DEF Marks
  <2> HIDE DEF j, qs
  <2>5. Marks(f[j], j = n)
    <3> DEFINE last == j = n
    <3>1. Marks(qs, last) /\ last \in BOOLEAN
      BY <2>3
    <3> HIDE DEF last
    <3>2. Marks(f[k] \o qs, last)
      BY <2>1, <2>3, <2>4, <3>1, MarksJoin
    <3> QED
      BY <2>2, <3>2 DEF last
  <2>6. Assembles(f[j], want, Empty, UpTo(u, j))
    BY <2>1, <2>2, <2>3, Onwards
  <2>7. f[j] \in Seq(Parts) /\ f[j] # <<>>
    <3>1. \A p, q \in Seq(Parts) : q # <<>> => p \o q \in Seq(Parts) /\ p \o q # <<>>
      OBVIOUS
    <3> QED
      BY <2>1, <2>2, <2>3, <3>1
  <2>8. j \in 1..n
    BY <2>1 DEF j
  <2> QED
    BY <2>5, <2>6, <2>7, <2>8 DEF j
<1>10. n \in T
  <2> HIDE DEF T
  <2>1. 1..n \subseteq T
    BY <1>1, <1>8, <1>9, Inductive
  <2> QED
    BY <1>1, <2>1
<1>11. UpTo(u, n) = Empty
  BY DEF UpTo, n
<1>12. Marks(f[n], TRUE)
  BY <1>10 DEF Marks
<1> QED
  BY <1>2, <1>6, <1>10, <1>11, <1>12 DEF want, n

(***************************************************************************)
(* What is on its way                                                      *)
(***************************************************************************)

AnyUnits == UnitsOf("video") \union UnitsOf("audio")

\* What the receiver of track t has after p, which is of unit u.
After(t, h, u, p) ==
  [ssrc |-> p.ssrc, next |-> Advance(p.sequence, 1), timestamp |-> p.timestamp,
   clock |-> IF h.ssrc = p.ssrc THEN Nearest(h.clock, h.timestamp, p) ELSE Ticks(t, u.at),
   nal |-> Put(h, p).nal, nals |-> Put(h, p).nals]

\* p is what the receiver may count on.
Comes(t, h, u, p) ==
  /\ Follows(h, p)
  /\ p.marker => IsWhole(SoFar(h, p.load), p.load) /\ Nals(h, p) = AllOf(u, Len(u.lengths))
  /\ After(t, h, u, p).clock = Ticks(t, u.at)

\* From a receiver x with the units that were sent to it, p leads to y.
Hears(x, p, y) ==
  LET t == p.channel
  IN /\ t \in Tracks
     /\ x.sent[t] # <<>>
     /\ Comes(t, x.heard[t], Head(x.sent[t]), p)
     /\ y = [heard |-> [x.heard EXCEPT ![t] = After(t, x.heard[t], Head(x.sent[t]), p)],
             sent |-> [x.sent EXCEPT ![t] = IF p.marker THEN Tail(x.sent[t]) ELSE x.sent[t]]]

Takes(X, w, x, y) ==
  /\ X[0] = x
  /\ X[Len(w)] = y
  /\ \A i \in 0..Len(w) : X[i].sent \in [Tracks -> Seq(AnyUnits)]
  /\ \A i \in 1..Len(w) : Hears(X[i - 1], w[i], X[i])

Leaves(w, x, y) == \E X : Takes(X, w, x, y)

\* Nothing on its way changes nothing.
LEMMA LeavesNothing ==
  ASSUME NEW x, x.sent \in [Tracks -> Seq(AnyUnits)]
  PROVE  Leaves(<<>>, x, x)
<1> DEFINE X == [i \in 0..0 |-> x]
<1>1. Len(<<>>) = 0 /\ X[0] = x
  OBVIOUS
<1>2. \A i \in 0..0 : i = 0
  OBVIOUS
<1>3. \A i \in 1..0 : FALSE
  OBVIOUS
<1> HIDE DEF X
<1>4. Takes(X, <<>>, x, x)
  BY <1>1, <1>2, <1>3, Zenon DEF Takes
<1> QED
  BY <1>4 DEF Leaves

\* What two stretches of the connection lead to, one after the other.
LEMMA LeavesOn ==
  ASSUME NEW v \in Seq(Packets), NEW w \in Seq(Packets), NEW x, NEW y, NEW z,
         Leaves(v, x, y), Leaves(w, y, z)
  PROVE  Leaves(v \o w, x, z)
<1>1. PICK A : Takes(A, v, x, y)
  BY DEF Leaves
<1>2. PICK B : Takes(B, w, y, z)
  BY DEF Leaves
<1> DEFINE m == Len(v)
           n == Len(w)
           C == [i \in 0..(m + n) |-> IF i <= m THEN A[i] ELSE B[i - m]]
<1>3. m \in Nat /\ n \in Nat /\ Len(v \o w) = m + n
  OBVIOUS
<1>4. \A i \in 0..m : C[i] = A[i]
  BY <1>3
<1>5. \A i \in 0..n : C[m + i] = B[i]
  <2> SUFFICES ASSUME NEW i \in 0..n  PROVE C[m + i] = B[i]
    OBVIOUS
  <2>1. CASE i = 0
    <3>1. C[m] = A[m] /\ m + i = m
      BY <1>3, <2>1
    <3> HIDE DEF C
    <3> QED
      BY <1>1, <1>2, <2>1, <3>1 DEF Takes
  <2>2. CASE i # 0
    <3>1. m + i \in 0..(m + n) /\ ~(m + i <= m) /\ m + i - m = i
      BY <1>3, <2>2
    <3> QED
      BY <3>1
  <2> QED
    BY <2>1, <2>2
<1> HIDE DEF C
<1>6. C[0] = x /\ C[m + n] = z
  BY <1>1, <1>2, <1>3, <1>4, <1>5 DEF Takes
<1>7. ASSUME NEW i \in 0..(m + n)  PROVE C[i].sent \in [Tracks -> Seq(AnyUnits)]
  <2>1. CASE i <= m
    <3>1. i \in 0..m
      BY <1>3, <2>1
    <3> QED
      BY <1>1, <1>4, <3>1 DEF Takes
  <2>2. CASE i > m
    <3>1. i - m \in 0..n /\ i = m + (i - m)
      BY <1>3, <2>2
    <3> QED
      BY <1>2, <1>5, <3>1 DEF Takes
  <2> QED
    BY <1>3, <2>1, <2>2
<1>8. ASSUME NEW i \in 1..(m + n)  PROVE Hears(C[i - 1], (v \o w)[i], C[i])
  <2>1. CASE i <= m
    <3>1. (v \o w)[i] = v[i] /\ i \in 1..m /\ i \in 0..m /\ i - 1 \in 0..m
      BY <1>3, <2>1
    <3> QED
      BY <1>1, <1>4, <3>1 DEF Takes
  <2>2. CASE i > m
    <3>1. PICK j \in 1..n : i = m + j
      <4>1. i - m \in 1..n /\ i = m + (i - m)
        BY <1>3, <2>2
      <4> QED
        BY <4>1
    <3>2. (v \o w)[i] = w[j] /\ j \in 0..n /\ j - 1 \in 0..n /\ i - 1 = m + (j - 1)
      BY <1>3, <3>1
    <3>3. C[i] = B[j] /\ C[i - 1] = B[j - 1]
      BY <1>5, <3>1, <3>2
    <3> QED
      BY <1>2, <3>2, <3>3 DEF Takes
  <2> QED
    BY <1>3, <2>1, <2>2
<1>9. Takes(C, v \o w, x, z)
  BY <1>3, <1>6, <1>7, <1>8 DEF Takes
<1> QED
  BY <1>9 DEF Leaves

\* The first packet on its way, and the others.
LEMMA LeavesRest ==
  ASSUME NEW w \in Seq(Packets), w # <<>>, NEW x, NEW z, Leaves(w, x, z)
  PROVE  \E y : Hears(x, Head(w), y) /\ Leaves(Tail(w), y, z)
<1>1. PICK A : Takes(A, w, x, z)
  BY DEF Leaves
<1> DEFINE n == Len(w)
           C == [i \in 0..(n - 1) |-> A[i + 1]]
<1>2. n \in Nat \ {0} /\ Len(Tail(w)) = n - 1 /\ Head(w) = w[1]
      /\ \A i \in 1..(n - 1) : Tail(w)[i] = w[i + 1]
  OBVIOUS
<1>3. \A i \in 0..(n - 1) : C[i] = A[i + 1]
  OBVIOUS
<1> HIDE DEF C
<1>4. Hears(x, Head(w), A[1])
  <2>1. 1 \in 1..n /\ 1 - 1 = 0
    BY <1>2
  <2> QED
    BY <1>1, <1>2, <2>1 DEF Takes
<1>5. C[0] = A[1] /\ C[n - 1] = z
  <2>1. 0 \in 0..(n - 1) /\ n - 1 \in 0..(n - 1) /\ 0 + 1 = 1 /\ n - 1 + 1 = n
    BY <1>2
  <2> QED
    BY <1>1, <1>3, <2>1 DEF Takes
<1>6. \A i \in 0..(n - 1) : C[i].sent \in [Tracks -> Seq(AnyUnits)]
  <2>1. \A i \in 0..(n - 1) : i + 1 \in 0..n
    BY <1>2
  <2> QED
    BY <1>1, <1>3, <2>1 DEF Takes
<1>7. ASSUME NEW i \in 1..(n - 1)  PROVE Hears(C[i - 1], Tail(w)[i], C[i])
  <2>1. i + 1 \in 1..n /\ i - 1 \in 0..(n - 1) /\ i \in 0..(n - 1) /\ i - 1 + 1 = i /\ i + 1 - 1 = i
    BY <1>2
  <2>2. Tail(w)[i] = w[i + 1] /\ C[i - 1] = A[i] /\ C[i] = A[i + 1]
    BY <1>2, <1>3, <2>1
  <2>3. Hears(A[i + 1 - 1], w[i + 1], A[i + 1])
    BY <1>1, <2>1 DEF Takes
  <2> QED
    BY <2>1, <2>2, <2>3
<1>8. Takes(C, Tail(w), A[1], z)
  BY <1>2, <1>5, <1>6, <1>7 DEF Takes
<1> QED
  BY <1>4, <1>8 DEF Leaves

\* One more unit of track t has been sent, behind all others.
Later(x, t, u) == [heard |-> x.heard, sent |-> [x.sent EXCEPT ![t] = Append(x.sent[t], u)]]

\* A unit that is sent later changes nothing about a packet that is heard now.
LEMMA HearsLater ==
  ASSUME NEW t \in Tracks, NEW u \in AnyUnits, NEW x, NEW p, NEW y, Hears(x, p, y),
         x.sent \in [Tracks -> Seq(AnyUnits)]
  PROVE  Hears(Later(x, t, u), p, Later(y, t, u))
<1> DEFINE c == p.channel
           X == Later(x, t, u)
           Y == Later(y, t, u)
           now == x.sent[c]
           rest == IF p.marker THEN Tail(now) ELSE now
           Rest == IF p.marker THEN Tail(X.sent[c]) ELSE X.sent[c]
           after == After(c, x.heard[c], Head(now), p)
<1>1. c \in Tracks /\ now \in Seq(AnyUnits) /\ now # <<>> /\ Comes(c, x.heard[c], Head(now), p)
  BY DEF Hears
<1>2. /\ y.heard = [x.heard EXCEPT ![c] = after]
      /\ y.sent = [x.sent EXCEPT ![c] = rest]
  BY DEF Hears
<1>3. X.heard = x.heard /\ X.sent = [x.sent EXCEPT ![t] = Append(x.sent[t], u)]
  BY DEF Later
<1>4. Y = [heard |-> y.heard, sent |-> [y.sent EXCEPT ![t] = Append(y.sent[t], u)]]
  BY DEF Later
<1> HIDE DEF X, Y, after
<1>5. X.sent[c] # <<>> /\ Head(X.sent[c]) = Head(now)
  <2>1. CASE c = t
    <3>1. X.sent[c] = Append(now, u)
      BY <1>1, <1>3, <2>1
    <3>2. \A q \in Seq(AnyUnits) : q # <<>> => Append(q, u) # <<>> /\ Head(Append(q, u)) = Head(q)
      BY HeadTailAppend
    <3> HIDE DEF now
    <3> QED
      BY <1>1, <3>1, <3>2
  <2>2. CASE c # t
    <3>1. X.sent[c] = now
      BY <1>1, <1>3, <2>2
    <3> QED
      BY <1>1, <3>1
  <2> QED
    BY <2>1, <2>2
<1>6. rest \in Seq(AnyUnits)
  <2> HIDE DEF now
  <2> QED
    BY <1>1
<1>7. c = t => Rest = Append(rest, u)
  <2> SUFFICES ASSUME c = t  PROVE Rest = Append(rest, u)
    OBVIOUS
  <2>1. X.sent[c] = Append(now, u)
    BY <1>1, <1>3
  <2>2. Tail(Append(now, u)) = Append(Tail(now), u)
    <3> HIDE DEF now
    <3> QED
      BY <1>1, HeadTailAppend
  <2> HIDE DEF now
  <2> QED
    BY <2>1, <2>2
<1>8. c # t => Rest = rest
  BY <1>1, <1>3
<1> HIDE DEF now, rest, Rest, c
<1>9. [y.sent EXCEPT ![t] = Append(y.sent[t], u)] = [X.sent EXCEPT ![c] = Rest]
  <2>1. CASE c = t
    <3>1. y.sent[t] = rest
      BY <1>1, <1>2, <2>1
    <3>2. Append(y.sent[t], u) = Rest
      BY <1>7, <2>1, <3>1
    <3> HIDE DEF rest, Rest
    <3> QED
      BY <1>1, <1>2, <1>3, <2>1, <3>2
  <2>2. CASE c # t
    <3>1. y.sent[t] = x.sent[t]
      BY <1>1, <1>2, <2>2
    <3>2. \A a, b : [[x.sent EXCEPT ![c] = a] EXCEPT ![t] = b]
                      = [[x.sent EXCEPT ![t] = b] EXCEPT ![c] = a]
      BY <1>1, <2>2
    <3>3. [y.sent EXCEPT ![t] = Append(y.sent[t], u)]
            = [[x.sent EXCEPT ![c] = rest] EXCEPT ![t] = Append(x.sent[t], u)]
      BY <1>2, <3>1
    <3>4. [X.sent EXCEPT ![c] = Rest]
            = [[x.sent EXCEPT ![t] = Append(x.sent[t], u)] EXCEPT ![c] = rest]
      BY <1>3, <1>8, <2>2
    <3>5. [[x.sent EXCEPT ![c] = rest] EXCEPT ![t] = Append(x.sent[t], u)]
            = [[x.sent EXCEPT ![t] = Append(x.sent[t], u)] EXCEPT ![c] = rest]
      BY <3>2
    <3> QED
      BY <3>3, <3>4, <3>5
  <2> QED
    BY <2>1, <2>2
<1>10. Y = [heard |-> [X.heard EXCEPT ![c] = After(c, X.heard[c], Head(X.sent[c]), p)],
            sent |-> [X.sent EXCEPT ![c] = Rest]]
  BY <1>2, <1>3, <1>4, <1>5, <1>9, Zenon DEF after
<1> QED
  BY <1>1, <1>3, <1>5, <1>10 DEF Hears, c, X, Y, Rest

\* Nor about all that are on their way.
LEMMA LeavesLater ==
  ASSUME NEW t \in Tracks, NEW u \in AnyUnits, NEW w \in Seq(Packets), NEW x, NEW y, Leaves(w, x, y)
  PROVE  Leaves(w, Later(x, t, u), Later(y, t, u))
<1>1. PICK A : Takes(A, w, x, y)
  BY DEF Leaves
<1> DEFINE n == Len(w)
           C == [i \in 0..n |-> Later(A[i], t, u)]
<1>2. n \in Nat
  OBVIOUS
<1>3. \A i \in 0..n : C[i] = Later(A[i], t, u)
  OBVIOUS
<1> HIDE DEF C
<1>4. C[0] = Later(x, t, u) /\ C[n] = Later(y, t, u)
  BY <1>1, <1>2, <1>3 DEF Takes
<1>5. ASSUME NEW i \in 0..n  PROVE C[i].sent \in [Tracks -> Seq(AnyUnits)]
  <2>1. A[i].sent \in [Tracks -> Seq(AnyUnits)]
    BY <1>1 DEF Takes
  <2>2. C[i].sent = [A[i].sent EXCEPT ![t] = Append(A[i].sent[t], u)]
    <3>1. Later(A[i], t, u).sent = [A[i].sent EXCEPT ![t] = Append(A[i].sent[t], u)]
      BY DEF Later
    <3> QED
      BY <1>3, <3>1
  <2>3. Append(A[i].sent[t], u) \in Seq(AnyUnits)
    BY <2>1
  <2> QED
    BY <2>1, <2>2, <2>3
<1>6. ASSUME NEW i \in 1..n  PROVE Hears(C[i - 1], w[i], C[i])
  <2>1. i \in 0..n /\ i - 1 \in 0..n
    BY <1>2
  <2>2. A[i - 1].sent \in [Tracks -> Seq(AnyUnits)] /\ Hears(A[i - 1], w[i], A[i])
    BY <1>1, <2>1 DEF Takes
  <2> QED
    BY <1>3, <2>1, <2>2, HearsLater
<1>7. Takes(C, w, Later(x, t, u), Later(y, t, u))
  BY <1>4, <1>5, <1>6 DEF Takes
<1> QED
  BY <1>7 DEF Leaves

\* A number is counted on from wherever it wrapped.
LEMMA AdvanceOn ==
  ASSUME NEW sequence \in Nat, NEW i \in Nat \ {0}
  PROVE  Advance(Advance(sequence, i - 1), 1) = Advance(sequence, i)
<1> DEFINE a == sequence + (i - 1)
           r == a % SeqW
           v == (r + 1) % SeqW
           v2 == (a + 1) % SeqW
<1>1. SeqW \in Nat \ {0} /\ a \in Nat
  BY RtpAssumption
<1> HIDE DEF a
<1>2. PICK k \in Int : a = SeqW * k + r /\ r \in 0..(SeqW - 1)
  <2>1. a \in Int
    BY <1>1
  <2> QED
    BY <1>1, <2>1, Division
<1> HIDE DEF r
<1>3. PICK m \in Int : r + 1 = SeqW * m + v /\ v \in 0..(SeqW - 1)
  <2>1. r + 1 \in Int
    BY <1>2
  <2> QED
    BY <1>1, <2>1, Division
<1>4. PICK n \in Int : a + 1 = SeqW * n + v2 /\ v2 \in 0..(SeqW - 1)
  <2>1. a + 1 \in Int
    BY <1>1
  <2> QED
    BY <1>1, <2>1, Division
<1> HIDE DEF v, v2
<1>5. v2 = v
  <2> DEFINE d == k + m - n
  <2>1. d \in Int /\ SeqW * d = SeqW * k + SeqW * m - SeqW * n
    BY <1>1
  <2>2. SeqW * k \in Int /\ SeqW * m \in Int /\ SeqW * n \in Int
    BY <1>1
  <2>3. SeqW * d = v2 - v
    BY <1>1, <1>2, <1>3, <1>4, <2>1, <2>2
  <2>4. (d >= 1 => SeqW * d >= SeqW) /\ (d <= -1 => SeqW * d <= -SeqW) /\ (d = 0 => SeqW * d = 0)
    BY <1>1, <2>1, Multiples
  <2> HIDE DEF d
  <2> QED
    BY <1>1, <1>3, <1>4, <2>1, <2>3, <2>4
<1>6. sequence + i = a + 1
  BY DEF a
<1> QED
  BY <1>5, <1>6 DEF Advance, a, r, v, v2

\* A time has a tick.
LEMMA TicksAre ==
  ASSUME NEW t \in Tracks, NEW at \in Times
  PROVE  Ticks(t, at) \in Nat
<1>1. ClockRate[t] \in Nat /\ Second \in Nat \ {0} /\ at \in Nat
  BY RtpAssumption
<1>2. at * ClockRate[t] \in Nat
  BY <1>1
<1> DEFINE a == at * ClockRate[t]
<1>3. a \in Nat
  BY <1>2
<1> HIDE DEF a
<1>4. /\ a \div Second \in Int /\ a % Second \in 0..(Second - 1)
      /\ a = Second * (a \div Second) + (a % Second)
  BY <1>1, <1>3, Division
<1>5. a \div Second >= 0
  <2>1. a \div Second <= -1 => Second * (a \div Second) <= -Second
    BY <1>1, <1>4, Multiples
  <2> QED
    BY <1>1, <1>3, <1>4, <2>1
<1> QED
  BY <1>4, <1>5 DEF a, Ticks

\* A timestamp fits in what it is written in.
LEMMA TimestampIs ==
  ASSUME NEW t \in Tracks, NEW at \in Times, NEW s \in Streams
  PROVE  Timestamp(s, t, at) \in 0..(TsW - 1)
<1>1. TsW \in Nat \ {0} /\ s.origin \in Nat /\ Ticks(t, at) \in Nat
  BY RtpAssumption, TicksAre DEF Streams
<1>2. s.origin + Ticks(t, at) \in Int
  BY <1>1
<1> QED
  BY <1>1, <1>2, Division DEF Timestamp

\* A receiver of t that has heard all of a stream's units, the last of them for `tick`.
Awaits(h, t, s, tick) ==
  /\ ~Begun(h)
  /\ IF tick = None THEN h.ssrc # s.ssrc
     ELSE /\ h.ssrc = s.ssrc /\ h.next = s.sequence
          /\ \E before \in Times :
               /\ tick = Ticks(t, before) /\ h.clock = tick
               /\ h.timestamp = Timestamp(s, t, before)

\* The unit's time is less than half of what a timestamp counts away.
Close(t, u, tick) ==
  tick # None => /\ 2 * (Ticks(t, u.at) - tick) < TsW
                 /\ 2 * (tick - Ticks(t, u.at)) < TsW

\* The same in the middle of a unit, after i packets of it.
EarAt(t, s, u, a, i) ==
  [ssrc |-> s.ssrc, next |-> Advance(s.sequence, i), timestamp |-> Timestamp(s, t, u.at),
   clock |-> Ticks(t, u.at), nal |-> a.nal, nals |-> a.nals]

\* A receiver that the i-th packet of a unit may be sent to.
InStep(h, t, s, u, a, i, tick) ==
  /\ h.nal = a.nal /\ h.nals = a.nals
  /\ \/ i = 1 /\ Awaits(h, t, s, tick)
     \/ i # 1 /\ h = EarAt(t, s, u, a, i - 1)

Addressed(t, s, u, i, q) ==
  [channel |-> t, ssrc |-> s.ssrc, sequence |-> Advance(s.sequence, i - 1),
   timestamp |-> Timestamp(s, t, u.at), marker |-> q.marker, load |-> q.load]

Address(t, s, u, ps) == [i \in 1..Len(ps) |-> Addressed(t, s, u, i, ps[i])]

\* Half a unit is all that a packet's load is put together with.
LEMMA SameHalf ==
  ASSUME NEW h, NEW a, h.nal = a.nal, h.nals = a.nals,
         NEW p, NEW q, p.load = q.load, p.marker = q.marker
  PROVE  SoFar(h, p.load) = SoFar(a, q.load) /\ Nals(h, p) = Nals(a, q) /\ Put(h, p) = Put(a, q)
<1>1. SoFar(h, p.load) = SoFar(a, q.load)
  BY DEF SoFar
<1>2. Nals(h, p) = Nals(a, q)
  BY <1>1 DEF Nals
<1> QED
  BY <1>1, <1>2 DEF Put

\* p is what the receiver may count on, and leads it from h to z.
Heeds(t, h, u, p, z) == Comes(t, h, u, p) /\ After(t, h, u, p) = z

\* The i-th packet of a unit is what its receiver may count on: the next number,
\* the unit's time, and a piece that goes on where the last one ended.
LEMMA PacketComes ==
  ASSUME NEW t \in Tracks, NEW s \in Streams, NEW u \in UnitsOf(t), NEW h, NEW a, NEW q,
         NEW i \in Nat \ {0}, NEW tick,
         Fit(a, AllOf(u, Len(u.lengths)), q), InStep(h, t, s, u, a, i, tick),
         Close(t, u, tick)
  PROVE  Heeds(t, h, u, Addressed(t, s, u, i, q), EarAt(t, s, u, Put(a, q), i))
<1> DEFINE p == Addressed(t, s, u, i, q)
<1>1. /\ p.ssrc = s.ssrc /\ p.sequence = Advance(s.sequence, i - 1)
      /\ p.timestamp = Timestamp(s, t, u.at) /\ p.load = q.load /\ p.marker = q.marker
  BY DEF Addressed
<1> HIDE DEF p
<1>2. SoFar(h, p.load) = SoFar(a, q.load) /\ Nals(h, p) = Nals(a, q) /\ Put(h, p) = Put(a, q)
  BY <1>1, SameHalf DEF InStep
<1>3. u.at \in Times /\ s.sequence \in 0..(SeqW - 1) /\ SeqW \in Nat \ {0} /\ TsW \in Nat \ {0}
  BY RtpAssumption DEF UnitsOf, Streams
<1>4. Ticks(t, u.at) \in Nat /\ Timestamp(s, t, u.at) \in 0..(TsW - 1)
  BY <1>3, TicksAre, TimestampIs
<1> DEFINE clock == IF h.ssrc = p.ssrc THEN Nearest(h.clock, h.timestamp, p) ELSE Ticks(t, u.at)
<1>5. /\ IF h.ssrc = p.ssrc THEN p.sequence = h.next ELSE ~Begun(h)
      /\ Begun(h) => p.timestamp = h.timestamp
      /\ clock = Ticks(t, u.at)
  <2>1. CASE i = 1 /\ Awaits(h, t, s, tick)
    <3>1. ~Begun(h)
      BY <2>1 DEF Awaits
    <3>2. CASE tick = None
      BY <1>1, <2>1, <3>1, <3>2 DEF Awaits
    <3>3. CASE tick # None
      <4>1. PICK before \in Times : /\ h.ssrc = s.ssrc /\ h.next = s.sequence
                                    /\ tick = Ticks(t, before) /\ h.clock = tick
                                    /\ h.timestamp = Timestamp(s, t, before)
        BY <2>1, <3>3 DEF Awaits
      <4>2. Nearest(h.clock, h.timestamp, [timestamp |-> Timestamp(s, t, u.at)]) = Ticks(t, u.at)
        BY <1>3, <3>3, <4>1, NearestIsRight DEF Streams, Close
      <4>3. Nearest(h.clock, h.timestamp, p) = Ticks(t, u.at)
        BY <1>1, <4>2 DEF Nearest
      <4>4. p.sequence = h.next
        <5>1. Advance(s.sequence, 1 - 1) = s.sequence % SeqW
          BY <1>3 DEF Advance
        <5>2. s.sequence % SeqW = s.sequence
          BY <1>3, SmallRemainder
        <5> QED
          BY <1>1, <2>1, <4>1, <5>1, <5>2
      <4> QED
        BY <1>1, <3>1, <4>1, <4>3, <4>4
    <3> QED
      BY <3>2, <3>3
  <2>2. CASE i # 1 /\ h = EarAt(t, s, u, a, i - 1)
    <3>1. /\ h.ssrc = s.ssrc /\ h.next = Advance(s.sequence, i - 1)
          /\ h.timestamp = Timestamp(s, t, u.at) /\ h.clock = Ticks(t, u.at)
      BY <2>2 DEF EarAt
    <3>2. Nearest(h.clock, h.timestamp, p) = Ticks(t, u.at)
      <4>1. (p.timestamp - h.timestamp) % TsW = 0
        BY <1>1, <1>3, <1>4, <3>1, SmallRemainder
      <4>2. 2 * 0 < TsW
        BY <1>3
      <4> QED
        BY <1>4, <3>1, <4>1, <4>2 DEF Nearest
    <3> QED
      BY <1>1, <3>1, <3>2
  <2> QED
    BY <2>1, <2>2 DEF InStep
<1>6. /\ p.load.is = "nal" => h.nal = <<>>
      /\ p.load.is = "fu" => (p.load.start <=> h.nal = <<>>)
      /\ p.marker => IsWhole(SoFar(h, p.load), p.load) /\ Nals(h, p) = AllOf(u, Len(u.lengths))
  BY <1>1, <1>2 DEF Fit, InStep
<1>7. Advance(p.sequence, 1) = Advance(s.sequence, i)
  BY <1>1, <1>3, AdvanceOn
<1>8. After(t, h, u, p) = [ssrc |-> s.ssrc, next |-> Advance(s.sequence, i),
                           timestamp |-> Timestamp(s, t, u.at), clock |-> clock,
                           nal |-> Put(a, q).nal, nals |-> Put(a, q).nals]
  BY <1>1, <1>2, <1>7 DEF After
<1> HIDE DEF clock
<1>9. After(t, h, u, p) = EarAt(t, s, u, Put(a, q), i)
  BY <1>5, <1>8 DEF EarAt
<1>10. After(t, h, u, p).clock = Ticks(t, u.at)
  BY <1>9 DEF EarAt
<1> QED
  BY <1>5, <1>6, <1>9, <1>10 DEF Heeds, Comes, Follows, p

\* A whole unit, sent to a receiver that has heard all that was sent before.
LEMMA UnitLeaves ==
  ASSUME NEW t \in Tracks, NEW s \in Streams, NEW u \in UnitsOf(t), NEW y, NEW tick,
         y.sent \in [Tracks -> Seq(AnyUnits)], y.sent[t] = <<>>, DOMAIN y.heard = Tracks,
         Awaits(y.heard[t], t, s, tick),
         Close(t, u, tick),
         NEW ps \in Seq(Parts), ps # <<>>, Marks(ps, TRUE),
         Assembles(ps, AllOf(u, Len(u.lengths)), Empty, Empty)
  PROVE  Leaves(Address(t, s, u, ps), Later(y, t, u),
                [heard |-> [y.heard EXCEPT ![t] = EarAt(t, s, u, Empty, Len(ps))],
                 sent |-> y.sent])
<1> DEFINE w == Address(t, s, u, ps)
           n == Len(ps)
           want == AllOf(u, Len(u.lengths))
           x == Later(y, t, u)
           e(a, i) == [y.heard EXCEPT ![t] = EarAt(t, s, u, a, i)]
           z == [heard |-> e(Empty, n), sent |-> y.sent]
<1>1. n \in Nat \ {0} /\ Len(w) = n
  <2>1. n \in Nat \ {0}
    OBVIOUS
  <2>2. w = [i \in 1..n |-> Addressed(t, s, u, i, ps[i])]
    BY DEF Address
  <2> HIDE DEF n, w
  <2> QED
    BY <2>1, <2>2
<1>2. PICK A : Leads(A, ps, want, Empty, Empty)
  BY DEF Assembles
<1>3. /\ A[0] = Empty /\ A[n] = Empty
      /\ \A i \in 1..n : Fit(A[i - 1], want, ps[i]) /\ A[i] = Put(A[i - 1], ps[i])
  BY <1>2 DEF Leads
<1> HIDE DEF n, want, w
<1> DEFINE X == [i \in 0..n |-> IF i = 0 THEN x
                                ELSE [heard |-> e(A[i], i),
                                      sent |-> IF i = n THEN y.sent ELSE x.sent]]
<1>4. /\ X[0] = x
      /\ \A i \in 1..n : X[i] = [heard |-> e(A[i], i), sent |-> IF i = n THEN y.sent ELSE x.sent]
  BY <1>1
<1>5. u \in AnyUnits /\ x.heard = y.heard /\ x.sent = [y.sent EXCEPT ![t] = <<u>>]
  <2>1. UnitsOf(t) \subseteq AnyUnits
    <3>1. t = "video" \/ t = "audio"
      BY DEF Tracks
    <3> QED
      BY <3>1 DEF AnyUnits
  <2>2. Append(<<>>, u) = <<u>>
    OBVIOUS
  <2> QED
    BY <2>1, <2>2 DEF Later
<1>6. x.sent \in [Tracks -> Seq(AnyUnits)] /\ x.sent[t] = <<u>>
  BY <1>5
<1> HIDE DEF X, x, e
<1>7. X[n] = z
  <2>1. n \in 1..n
    BY <1>1
  <2>2. X[n] = [heard |-> e(A[n], n), sent |-> y.sent]
    BY <1>4, <2>1
  <2> QED
    BY <1>3, <2>2
<1>8. ASSUME NEW i \in 0..n  PROVE X[i].sent \in [Tracks -> Seq(AnyUnits)]
  <2>1. CASE i = 0
    BY <1>4, <1>6, <2>1
  <2>2. CASE i # 0
    <3>1. X[i] = [heard |-> e(A[i], i), sent |-> IF i = n THEN y.sent ELSE x.sent]
      <4>1. i \in 1..n
        BY <1>1, <2>2
      <4> QED
        BY <1>4, <4>1
    <3>2. X[i].sent = IF i = n THEN y.sent ELSE x.sent
      BY <3>1
    <3> QED
      BY <1>6, <3>2
  <2> QED
    BY <2>1, <2>2
<1>9. ASSUME NEW i \in 1..n
      PROVE  /\ DOMAIN X[i - 1].heard = Tracks
             /\ [X[i - 1].heard EXCEPT ![t] = EarAt(t, s, u, A[i], i)] = e(A[i], i)
             /\ X[i - 1].sent = x.sent
             /\ InStep(X[i - 1].heard[t], t, s, u, A[i - 1], i, tick)
  <2>1. CASE i = 1
    <3>1. X[i - 1] = x /\ A[i - 1] = Empty
      BY <1>3, <1>4, <2>1
    <3>2. y.heard[t].nal = <<>> /\ y.heard[t].nals = <<>>
      BY DEF Awaits, Begun
    <3>3. Empty.nal = <<>> /\ Empty.nals = <<>>
      BY DEF Empty
    <3> QED
      BY <1>5, <2>1, <3>1, <3>2, <3>3 DEF e, InStep
  <2>2. CASE i # 1
    <3>1. PICK j \in 1..n : j = i - 1 /\ j # n
      BY <1>1, <2>2
    <3>2. X[j] = [heard |-> e(A[j], j), sent |-> x.sent]
      BY <1>4, <3>1
    <3>3. X[j].heard = e(A[j], j) /\ X[j].sent = x.sent
      BY <3>2
    <3>4. e(A[j], j)[t] = EarAt(t, s, u, A[j], j) /\ DOMAIN e(A[j], j) = Tracks
      BY DEF e
    <3>5. EarAt(t, s, u, A[j], j).nal = A[j].nal /\ EarAt(t, s, u, A[j], j).nals = A[j].nals
      BY DEF EarAt
    <3>6. [e(A[j], j) EXCEPT ![t] = EarAt(t, s, u, A[i], i)] = e(A[i], i)
      BY DEF e
    <3> QED
      BY <2>2, <3>1, <3>3, <3>4, <3>5, <3>6 DEF InStep
  <2> QED
    BY <2>1, <2>2
<1>10. ASSUME NEW i \in 1..n  PROVE Hears(X[i - 1], w[i], X[i])
  <2> DEFINE h == X[i - 1].heard[t]
             p == Addressed(t, s, u, i, ps[i])
  <2>1. w[i] = p
    BY DEF n, w, Address
  <2>2. p.channel = t /\ (p.marker <=> i = n)
    BY DEF Addressed, Marks, n
  <2>3. i \in Nat \ {0} /\ Fit(A[i - 1], want, ps[i]) /\ A[i] = Put(A[i - 1], ps[i])
    BY <1>3
  <2> HIDE DEF h, p
  <2>4. Comes(t, h, u, p) /\ After(t, h, u, p) = EarAt(t, s, u, A[i], i)
    <3> DEFINE a == A[i - 1]
               q == ps[i]
    <3>1. Fit(a, AllOf(u, Len(u.lengths)), q) /\ InStep(h, t, s, u, a, i, tick)
      BY <1>9, <2>3 DEF h, want
    <3>2. p = Addressed(t, s, u, i, q)
      BY DEF p
    <3> HIDE DEF a, q
    <3>3. Comes(t, h, u, p) /\ After(t, h, u, p) = EarAt(t, s, u, Put(a, q), i)
      <4>1. i \in Nat \ {0}
        BY <2>3
      <4>2. Close(t, u, tick)
        OBVIOUS
      <4>3. Heeds(t, h, u, Addressed(t, s, u, i, q), EarAt(t, s, u, Put(a, q), i))
        BY <3>1, <4>1, <4>2, PacketComes
      <4> QED
        BY <3>2, <4>3 DEF Heeds
    <3> QED
      BY <2>3, <3>3 DEF a, q
  <2>5. X[i - 1].sent[t] # <<>> /\ Head(X[i - 1].sent[t]) = u /\ Tail(X[i - 1].sent[t]) = <<>>
    <3>1. X[i - 1].sent[t] = <<u>>
      BY <1>6, <1>9
    <3> QED
      BY <3>1
  <2>6. [X[i - 1].sent EXCEPT ![t] = IF p.marker THEN <<>> ELSE X[i - 1].sent[t]]
          = IF i = n THEN y.sent ELSE x.sent
    <3>1. X[i - 1].sent = [y.sent EXCEPT ![t] = <<u>>] /\ X[i - 1].sent = x.sent
      BY <1>5, <1>9
    <3>2. i = n => [x.sent EXCEPT ![t] = <<>>] = y.sent
      BY <1>5
    <3>3. i # n => [x.sent EXCEPT ![t] = x.sent[t]] = x.sent
      BY <1>6
    <3> QED
      BY <2>2, <3>1, <3>2, <3>3
  <2>7. X[i] = [heard |-> e(A[i], i), sent |-> IF i = n THEN y.sent ELSE x.sent]
    BY <1>4
  <2>8. [X[i - 1].heard EXCEPT ![t] = After(t, h, u, p)] = e(A[i], i)
    BY <1>9, <2>4
  <2>9. X[i] = [heard |-> [X[i - 1].heard EXCEPT ![t] = After(t, h, u, p)],
                sent |-> [X[i - 1].sent EXCEPT ![t] = IF p.marker THEN Tail(X[i - 1].sent[t])
                                                      ELSE X[i - 1].sent[t]]]
    BY <2>5, <2>6, <2>7, <2>8
  <2> QED
    BY <2>1, <2>2, <2>4, <2>5, <2>9, Zenon DEF Hears, h
<1>11. Takes(X, w, x, z)
  BY <1>1, <1>4, <1>7, <1>8, <1>10 DEF Takes
<1> QED
  BY <1>11 DEF Leaves, x, z, e, n, w

(***************************************************************************)
(* The invariant                                                           *)
(***************************************************************************)

Now == [heard |-> heard, sent |-> sent]

\* A receiver that has heard everything: nothing is half put together, and
\* every stream that is played goes on where the receiver is.
Settled(y) ==
  /\ DOMAIN y.heard = Tracks
  /\ \A t \in Tracks :
       /\ y.sent[t] = <<>>
       /\ ~Begun(y.heard[t])
       /\ y.heard[t].ssrc \in {None} \union 0..(ssrcs - 1)
       /\ stream[t] # None => /\ stream[t].ssrc \in 0..(ssrcs - 1)
                              /\ Awaits(y.heard[t], t, stream[t], latest[t])

\* Nothing has gone wrong, and nothing will with what is on its way.
RtpInv ==
  /\ TypeOK
  /\ right /\ onTime
  /\ PacketsFit
  /\ \E y : Leaves(wire, Now, y) /\ Settled(y)

\* The units that are still to be heard are units.
LEMMA LeavesTyped ==
  ASSUME NEW w \in Seq(Packets), NEW x, NEW y, Leaves(w, x, y)
  PROVE  x.sent \in [Tracks -> Seq(AnyUnits)] /\ y.sent \in [Tracks -> Seq(AnyUnits)]
<1>1. PICK X : Takes(X, w, x, y)
  BY DEF Leaves
<1>2. 0 \in 0..Len(w) /\ Len(w) \in 0..Len(w)
  OBVIOUS
<1> QED
  BY <1>1, <1>2 DEF Takes

\* What a unit of each track is.
LEMMA UnitsAre ==
  ASSUME NEW t \in Tracks, NEW u \in UnitsOf(t)
  PROVE  /\ u \in AnyUnits /\ u.number \in 1..MaxUnits /\ u.at \in Times
         /\ t = "video" => u.lengths \in Seq(Nat \ {0})
         /\ t # "video" => u.lengths \in AudioUnits /\ u.lengths \in [1..1 -> Nat]
<1>1. UnitsOf(t) \subseteq AnyUnits
  <2>1. t = "video" \/ t = "audio"
    BY DEF Tracks
  <2> QED
    BY <2>1 DEF AnyUnits
<1>2. /\ u.number \in 1..MaxUnits /\ u.at \in Times
      /\ t = "video" => u.lengths \in VideoUnits
      /\ t # "video" => u.lengths \in AudioUnits
  BY DEF UnitsOf
<1> QED
  BY <1>1, <1>2, RtpAssumption

PacketsOf(t, u) == IF t = "video" THEN Pictures(u) ELSE Sound(u)

\* Whatever a unit is made of, a receiver makes the unit of its packets again.
LEMMA PacketsAre ==
  ASSUME NEW t \in Tracks, NEW u \in UnitsOf(t)
  PROVE  /\ PacketsOf(t, u) \in Seq(Parts)
         /\ PacketsOf(t, u) # <<>> =>
              /\ Assembles(PacketsOf(t, u), AllOf(u, Len(u.lengths)), Empty, Empty)
              /\ Marks(PacketsOf(t, u), TRUE)
<1>1. u.number \in Nat
  BY UnitsAre, RtpAssumption
<1>2. CASE t = "video"
  <2>1. u.lengths \in Seq(Nat \ {0}) /\ PacketsOf(t, u) = Pictures(u)
    BY <1>2, UnitsAre DEF PacketsOf
  <2>2. CASE u.lengths = <<>>
    <3> DEFINE seqs == [k \in 1..Len(u.lengths) |-> PartOf(u, k)]
    <3>1. Pictures(u) = FlattenSeq(seqs)
      BY Zenon DEF Pictures, PartOf
    <3>2. Len(u.lengths) = 0
      BY <2>2
    <3>3. seqs = <<>>
      BY <3>2
    <3>4. FlattenSeq(<<>>) = <<>>
      <4>1. Len(<<>>) = 0
        OBVIOUS
      <4> QED
        BY <4>1, Zenon DEF FlattenSeq
    <3>5. PacketsOf(t, u) = <<>>
      BY <2>1, <3>1, <3>3, <3>4
    <3> QED
      BY <3>5
  <2>3. CASE u.lengths # <<>>
    BY <1>1, <2>1, <2>3, PicturesAssemble
  <2> QED
    BY <2>2, <2>3
<1>3. CASE t # "video"
  <2>1. u.lengths \in AudioUnits /\ u.lengths \in [1..1 -> Nat] /\ PacketsOf(t, u) = Sound(u)
    BY <1>3, UnitsAre DEF PacketsOf
  <2>2. CASE Sound(u) = <<>>
    BY <2>1, <2>2
  <2>3. CASE Sound(u) # <<>>
    <3>1. u.lengths[1] <= MAX_ACCESS_UNIT
      <4>1. ~(u.lengths[1] > MAX_ACCESS_UNIT)
        BY <2>1, <2>3, SoundFits
      <4> QED
        BY <2>1, <4>1, RtpAssumption
    <3>2. /\ Sound(u) \in Seq(Parts) /\ Assembles(Sound(u), <<Data(u, 1)>>, Empty, Empty)
          /\ Marks(Sound(u), TRUE)
      BY <1>1, <2>1, <3>1, SoundAssembles
    <3>3. Len(u.lengths) = 1
      BY <2>1
    <3>4. AllOf(u, 1) = <<Data(u, 1)>>
      BY DEF AllOf
    <3> QED
      BY <2>1, <3>2, <3>3, <3>4
  <2> QED
    BY <2>2, <2>3
<1> QED
  BY <1>2, <1>3

\* What is written is what the packetizer made, with an address.
LEMMA AddressIs ==
  ASSUME NEW t \in Tracks, NEW s \in Streams, NEW u \in UnitsOf(t), NEW ps \in Seq(Parts)
  PROVE  /\ Address(t, s, u, ps) \in Seq(Packets)
         /\ \A i \in 1..Len(Address(t, s, u, ps)) : Size(Address(t, s, u, ps)[i].load) <= Budget
<1> DEFINE n == Len(ps)
<1>1. n \in Nat
  OBVIOUS
<1>2. ASSUME NEW i \in 1..n  PROVE /\ Addressed(t, s, u, i, ps[i]) \in Packets
                                  /\ Size(Addressed(t, s, u, i, ps[i]).load) <= Budget
  <2>1. ps[i] \in Parts
    OBVIOUS
  <2>2. ps[i].marker \in BOOLEAN /\ ps[i].load \in Loads /\ Size(ps[i].load) <= Budget
    BY <2>1 DEF Parts
  <2>3. Timestamp(s, t, u.at) \in 0..(TsW - 1)
    BY UnitsAre, TimestampIs
  <2>4. Advance(s.sequence, i - 1) \in 0..(SeqW - 1)
    <3>1. s.sequence + (i - 1) \in Int /\ SeqW \in Nat \ {0}
      BY <1>1, RtpAssumption DEF Streams
    <3> QED
      BY <3>1, Division DEF Advance
  <2>5. s.ssrc \in Nat
    BY DEF Streams
  <2>6. Addressed(t, s, u, i, ps[i]).load = ps[i].load
    BY DEF Addressed
  <2>7. Addressed(t, s, u, i, ps[i]) \in Packets
    BY <2>2, <2>3, <2>4, <2>5 DEF Addressed, Packets
  <2> QED
    BY <2>2, <2>6, <2>7
<1>3. Address(t, s, u, ps) \in [1..n -> Packets]
  BY <1>2, Zenon DEF Address
<1>4. \A i \in 1..n : Size(Address(t, s, u, ps)[i].load) <= Budget
  BY <1>2, Zenon DEF Address
<1> HIDE DEF n
<1>5. Address(t, s, u, ps) \in Seq(Packets) /\ Len(Address(t, s, u, ps)) = n
  BY <1>1, <1>3
<1> QED
  BY <1>4, <1>5

\* It holds before anything is played.
LEMMA RtpInvInit == Init => RtpInv
<1> SUFFICES ASSUME Init  PROVE RtpInv
  OBVIOUS
<1>1. TypeOK
  <2>1. Deaf \in Ears
    <3>1. 0 \in 0..(SeqW - 1) /\ 0 \in 0..(TsW - 1)
      BY RtpAssumption
    <3>2. <<>> \in Seq(Bytes) /\ <<>> \in Seq(Seq(Bytes))
      OBVIOUS
    <3> QED
      BY <3>1, <3>2 DEF Deaf, Ears
  <2>2. 0 \in 0..MaxUnits /\ 0 \in 0..MaxPlays
    BY RtpAssumption
  <2> QED
    BY <2>1, <2>2 DEF Init, TypeOK
<1>2. Leaves(wire, Now, Now)
  <2>1. Now.sent \in [Tracks -> Seq(AnyUnits)]
    BY DEF Now, Init
  <2> QED
    BY <2>1, LeavesNothing DEF Init
<1>3. Settled(Now)
  BY DEF Settled, Now, Init, Deaf, Begun
<1> QED
  BY <1>1, <1>2, <1>3 DEF RtpInv, Init, PacketsFit

\* A new stream is one that its receiver has not heard of.
LEMMA PlayKeeps ==
  ASSUME RtpInv, NEW bound \in SUBSET Tracks, Play(bound)
  PROVE  RtpInv'
<1>1. PICK y : Leaves(wire, Now, y) /\ Settled(y)
  BY DEF RtpInv
<1>2. PICK start \in [bound -> Starts] :
        stream' = [t \in Tracks |->
          IF t \in bound
          THEN [ssrc |-> IF t = "audio" /\ "video" \in bound THEN ssrcs + 1 ELSE ssrcs,
                sequence |-> start[t].sequence, origin |-> start[t].origin]
          ELSE None]
  BY DEF Play
<1>3. ssrcs \in Nat /\ ssrcs' \in Nat /\ ssrcs' > ssrcs
  BY DEF Play, RtpInv, TypeOK
<1>4. ASSUME NEW t \in bound
      PROVE  stream'[t] \in Streams /\ stream'[t].ssrc \in ssrcs..(ssrcs' - 1)
  <2>1. start[t] \in [sequence : 0..(SeqW - 1), origin : 0..(TsW - 1)]
    BY RtpAssumption
  <2>2. t \in Tracks
    OBVIOUS
  <2> DEFINE ssrc == IF t = "audio" /\ "video" \in bound THEN ssrcs + 1 ELSE ssrcs
             s == [ssrc |-> ssrc, sequence |-> start[t].sequence, origin |-> start[t].origin]
  <2>3. ssrc \in Nat /\ ssrc \in ssrcs..(ssrcs' - 1)
    <3>1. t = "audio" /\ "video" \in bound => bound = Tracks
      BY DEF Tracks
    <3> QED
      BY <1>3, <3>1 DEF Play
  <2>4. stream'[t] = s
    BY <1>2, <2>2
  <2> HIDE DEF ssrc
  <2>5. s \in Streams /\ s.ssrc = ssrc
    BY <2>1, <2>3 DEF Streams
  <2> QED
    BY <2>3, <2>4, <2>5
<1>5. \A t \in Tracks : t \notin bound => stream'[t] = None
  BY <1>2
<1>6. TypeOK'
  <2>1. stream' \in [Tracks -> Streams \union {None}]
    <3>1. DOMAIN stream' = Tracks /\ stream' = [t \in Tracks |-> stream'[t]]
      BY <1>2
    <3>2. \A t \in Tracks : stream'[t] \in Streams \union {None}
      BY <1>4, <1>5
    <3> QED
      BY <3>1, <3>2
  <2>2. plays' \in 0..MaxPlays
    BY RtpAssumption DEF Play, RtpInv, TypeOK
  <2> QED
    BY <1>3, <2>1, <2>2 DEF Play, RtpInv, TypeOK
<1>7. Leaves(wire', Now', y)
  BY <1>1 DEF Play, Now
<1>8. Settled(y)'
  <2>1. ASSUME NEW t \in Tracks
        PROVE  /\ y.sent[t] = <<>> /\ ~Begun(y.heard[t])
               /\ y.heard[t].ssrc \in {None} \union 0..(ssrcs' - 1)
               /\ stream'[t] # None => /\ stream'[t].ssrc \in 0..(ssrcs' - 1)
                                       /\ Awaits(y.heard[t], t, stream'[t], latest'[t])
    <3>1. /\ y.sent[t] = <<>> /\ ~Begun(y.heard[t])
          /\ y.heard[t].ssrc \in {None} \union 0..(ssrcs - 1)
      BY <1>1 DEF Settled
    <3>2. stream'[t] # None => /\ y.heard[t].ssrc # stream'[t].ssrc
                               /\ stream'[t].ssrc \in 0..(ssrcs' - 1)
      BY <1>3, <1>4, <1>5, <3>1, RtpAssumption
    <3>3. latest'[t] = None
      BY DEF Play
    <3> QED
      BY <1>3, <3>1, <3>2, <3>3 DEF Awaits
  <2> QED
    BY <1>1, <2>1 DEF Settled
<1> QED
  BY <1>6, <1>7, <1>8 DEF Play, RtpInv, PacketsFit

\* What is on its way is heard after a PAUSE as it was before.
LEMMA PauseKeeps ==
  ASSUME RtpInv, Pause
  PROVE  RtpInv'
<1>1. PICK y : Leaves(wire, Now, y) /\ Settled(y)
  BY DEF RtpInv
<1>2. TypeOK'
  BY DEF Pause, RtpInv, TypeOK
<1>3. Leaves(wire', Now', y)
  BY <1>1 DEF Pause, Now
<1>4. Settled(y)'
  BY <1>1 DEF Pause, Settled
<1> QED
  BY <1>2, <1>3, <1>4 DEF Pause, RtpInv, PacketsFit

\* What Write does, with the names used here.
LEMMA WriteIs ==
  ASSUME NEW t \in Tracks, NEW u \in UnitsOf(t), Write(t, u)
  PROVE  LET ps == PacketsOf(t, u)
             s == stream[t]
         IN /\ s # None /\ u.number = units + 1 /\ units' = u.number /\ Near(t, u.at)
            /\ wire' = wire \o Address(t, s, u, ps)
            /\ stream' = [stream EXCEPT ![t].sequence = Advance(@, Len(ps))]
            /\ ps = <<>> => sent' = sent /\ latest' = latest
            /\ ps # <<>> => /\ sent' = [sent EXCEPT ![t] = Append(@, u)]
                            /\ latest' = [latest EXCEPT ![t] = Ticks(t, u.at)]
            /\ UNCHANGED <<ssrcs, heard, plays, right, onTime>>
BY DEF Write, PacketsOf, Address, Addressed

\* A unit comes behind what is on its way, and its receiver is left where the
\* stream goes on; a frame that is too long leaves nothing.
LEMMA WriteKeeps ==
  ASSUME RtpInv, NEW t \in Tracks, NEW u \in UnitsOf(t), Write(t, u)
  PROVE  RtpInv'
<1> DEFINE ps == PacketsOf(t, u)
           s == stream[t]
           n == Len(ps)
<1>1. PICK y : Leaves(wire, Now, y) /\ Settled(y)
  BY DEF RtpInv
<1>2. /\ s # None /\ u.number = units + 1 /\ units' = u.number /\ Near(t, u.at)
      /\ wire' = wire \o Address(t, s, u, ps)
      /\ stream' = [stream EXCEPT ![t].sequence = Advance(@, n)]
      /\ ps = <<>> => sent' = sent /\ latest' = latest
      /\ ps # <<>> => /\ sent' = [sent EXCEPT ![t] = Append(@, u)]
                      /\ latest' = [latest EXCEPT ![t] = Ticks(t, u.at)]
      /\ UNCHANGED <<ssrcs, heard, plays, right, onTime>>
  BY WriteIs
<1>3. /\ ps \in Seq(Parts)
      /\ ps # <<>> => Assembles(ps, AllOf(u, Len(u.lengths)), Empty, Empty) /\ Marks(ps, TRUE)
  BY PacketsAre
<1> HIDE DEF ps
<1>4. s \in Streams /\ n \in Nat /\ wire \in Seq(Packets) /\ u \in AnyUnits /\ u.at \in Times
  BY <1>2, <1>3, UnitsAre DEF RtpInv, TypeOK
<1>5. Address(t, s, u, ps) \in Seq(Packets)
  BY <1>3, <1>4, AddressIs
<1>6. Ticks(t, u.at) \in Nat
  BY <1>4, TicksAre
<1>7. /\ stream'[t] = [s EXCEPT !.sequence = Advance(s.sequence, n)]
      /\ \A c \in Tracks : c # t => stream'[c] = stream[c]
      /\ stream'[t] \in Streams
      /\ stream' \in [Tracks -> Streams \union {None}]
  <2>1. Advance(s.sequence, n) \in 0..(SeqW - 1)
    <3>1. s.sequence + n \in Int /\ SeqW \in Nat \ {0}
      BY <1>4, RtpAssumption DEF Streams
    <3> QED
      BY <3>1, Division DEF Advance
  <2>2. stream \in [Tracks -> Streams \union {None}]
    BY DEF RtpInv, TypeOK
  <2>3. /\ stream'[t] = [s EXCEPT !.sequence = Advance(s.sequence, n)]
        /\ \A c \in Tracks : c # t => stream'[c] = stream[c]
        /\ stream' = [c \in Tracks |-> stream'[c]]
    BY <1>2, <2>2
  <2>4. stream'[t] \in Streams
    BY <1>4, <2>1, <2>3 DEF Streams
  <2> QED
    BY <2>2, <2>3, <2>4
<1>8. TypeOK'
  <2>1. wire' \in Seq(Packets)
    BY <1>2, <1>4, <1>5
  <2>2. units' \in 0..MaxUnits
    BY <1>2, UnitsAre, RtpAssumption
  <2>3. latest' \in [Tracks -> Nat \union {None}]
    BY <1>2, <1>6 DEF RtpInv, TypeOK
  <2>4. DOMAIN sent' = Tracks /\ \A c \in Tracks : sent'[c] \in Seq(UnitsOf(c))
    <3>1. DOMAIN sent = Tracks /\ \A c \in Tracks : sent[c] \in Seq(UnitsOf(c))
      BY DEF RtpInv, TypeOK
    <3>2. Append(sent[t], u) \in Seq(UnitsOf(t))
      BY <3>1
    <3>3. CASE ps = <<>>
      BY <1>2, <3>1, <3>3
    <3>4. CASE ps # <<>>
      <4>1. sent' = [sent EXCEPT ![t] = Append(sent[t], u)]
        BY <1>2, <3>4
      <4> QED
        BY <3>1, <3>2, <4>1
    <3> QED
      BY <3>3, <3>4
  <2> QED
    BY <1>2, <1>7, <2>1, <2>2, <2>3, <2>4 DEF RtpInv, TypeOK
<1>11. PacketsFit'
  <2> DEFINE w == Address(t, s, u, ps)
  <2>1. w \in Seq(Packets) /\ \A i \in 1..Len(w) : Size(w[i].load) <= Budget
    BY <1>3, <1>4, AddressIs
  <2>2. \A i \in 1..Len(wire) : Size(wire[i].load) <= Budget
    BY DEF RtpInv, PacketsFit
  <2> HIDE DEF w
  <2>3. ASSUME NEW i \in 1..Len(wire \o w)  PROVE Size((wire \o w)[i].load) <= Budget
    <3>1. CASE i <= Len(wire)
      <4>1. (wire \o w)[i] = wire[i] /\ i \in 1..Len(wire)
        BY <1>4, <2>1, <3>1
      <4> QED
        BY <2>2, <4>1
    <3>2. CASE i > Len(wire)
      <4>1. (wire \o w)[i] = w[i - Len(wire)] /\ i - Len(wire) \in 1..Len(w)
        BY <1>4, <2>1, <3>2
      <4> QED
        BY <2>1, <4>1
    <3> QED
      BY <1>4, <2>1, <3>1, <3>2
  <2> QED
    BY <1>2, <2>3 DEF PacketsFit, w
<1>9. CASE ps = <<>>
  <2>1. wire' = wire
    <3>1. Address(t, s, u, ps) = <<>>
      BY <1>9 DEF Address
    <3> QED
      BY <1>2, <1>4, <3>1
  <2>2. stream' = stream
    <3>1. Advance(s.sequence, 0) = s.sequence
      <4>1. s.sequence \in 0..(SeqW - 1) /\ SeqW \in Nat \ {0} /\ s.sequence + 0 = s.sequence
        BY <1>4, RtpAssumption DEF Streams
      <4> QED
        BY <4>1, SmallRemainder DEF Advance
    <3>2. n = 0
      BY <1>9
    <3>3. stream'[t] = stream[t]
      BY <1>4, <1>7, <3>1, <3>2 DEF Streams
    <3>4. stream \in [Tracks -> Streams \union {None}]
      BY DEF RtpInv, TypeOK
    <3> QED
      BY <1>7, <3>3, <3>4
  <2>3. Leaves(wire', Now', y) /\ Settled(y)'
    BY <1>1, <1>2, <1>9, <2>1, <2>2 DEF Now, Settled
  <2> QED
    BY <1>2, <1>8, <1>11, <2>3 DEF RtpInv
<1>10. CASE ps # <<>>
  <2>0. PICK z : z = [heard |-> [y.heard EXCEPT ![t] = EarAt(t, s, u, Empty, n)], sent |-> y.sent]
    OBVIOUS
  <2>1. y.sent \in [Tracks -> Seq(AnyUnits)]
    BY <1>1, <1>4, LeavesTyped
  <2>2. y.sent[t] = <<>> /\ DOMAIN y.heard = Tracks /\ Awaits(y.heard[t], t, s, latest[t])
    BY <1>1, <1>2 DEF Settled
  <2>3. Close(t, u, latest[t])
    BY <1>2 DEF Near, Close
  <2>4. Leaves(Address(t, s, u, ps), Later(y, t, u), z)
    BY <1>3, <1>4, <1>10, <2>0, <2>1, <2>2, <2>3, UnitLeaves
  <2>5. Leaves(wire, Later(Now, t, u), Later(y, t, u))
    BY <1>1, <1>4, LeavesLater
  <2>6. Later(Now, t, u) = Now'
    <3>1. sent' = [sent EXCEPT ![t] = Append(sent[t], u)] /\ heard' = heard
      BY <1>2, <1>10
    <3> QED
      BY <3>1 DEF Later, Now
  <2>7. Leaves(wire', Now', z)
    BY <1>2, <1>4, <1>5, <2>4, <2>5, <2>6, LeavesOn
  <2>8. Settled(z)'
    <3>1. z.sent = y.sent /\ z.heard = [y.heard EXCEPT ![t] = EarAt(t, s, u, Empty, n)]
      BY <2>0
    <3>2. ASSUME NEW c \in Tracks
          PROVE  /\ z.sent[c] = <<>> /\ ~Begun(z.heard[c])
                 /\ z.heard[c].ssrc \in {None} \union 0..(ssrcs' - 1)
                 /\ stream'[c] # None => /\ stream'[c].ssrc \in 0..(ssrcs' - 1)
                                         /\ Awaits(z.heard[c], c, stream'[c], latest'[c])
      <4>1. /\ y.sent[c] = <<>> /\ ~Begun(y.heard[c])
            /\ y.heard[c].ssrc \in {None} \union 0..(ssrcs - 1)
            /\ stream[c] # None => /\ stream[c].ssrc \in 0..(ssrcs - 1)
                                   /\ Awaits(y.heard[c], c, stream[c], latest[c])
        BY <1>1 DEF Settled
      <4>2. CASE c # t
        <5>1. z.heard[c] = y.heard[c] /\ stream'[c] = stream[c] /\ latest'[c] = latest[c]
          BY <1>2, <1>7, <1>10, <2>2, <3>1, <4>2 DEF RtpInv, TypeOK
        <5> QED
          BY <1>2, <3>1, <4>1, <5>1
      <4>3. CASE c = t
        <5> DEFINE h == EarAt(t, s, u, Empty, n)
                   r == stream'[t]
        <5>1. z.heard[c] = h /\ latest'[c] = Ticks(t, u.at)
          BY <1>2, <1>10, <2>2, <3>1, <4>3 DEF RtpInv, TypeOK
        <5>2. /\ h.ssrc = s.ssrc /\ h.next = Advance(s.sequence, n)
              /\ h.timestamp = Timestamp(s, t, u.at) /\ h.clock = Ticks(t, u.at)
              /\ h.nal = <<>> /\ h.nals = <<>>
          BY DEF EarAt, Empty
        <5>3. r.ssrc = s.ssrc /\ r.origin = s.origin /\ r.sequence = Advance(s.sequence, n)
          BY <1>4, <1>7 DEF Streams
        <5>4. Ticks(t, u.at) # None
          BY <1>6, RtpAssumption
        <5> HIDE DEF h, r
        <5>5. Timestamp(r, t, u.at) = Timestamp(s, t, u.at)
          BY <5>3 DEF Timestamp
        <5>6. ~Begun(h)
          BY <5>2 DEF Begun
        <5>7. Awaits(h, t, r, Ticks(t, u.at))
          BY <1>4, <5>2, <5>3, <5>4, <5>5, <5>6 DEF Awaits
        <5>8. h.ssrc \in {None} \union 0..(ssrcs' - 1) /\ r.ssrc \in 0..(ssrcs' - 1)
          BY <1>2, <4>1, <4>3, <5>2, <5>3
        <5> QED
          BY <3>1, <4>1, <4>3, <5>1, <5>6, <5>7, <5>8 DEF r
      <4> QED
        BY <4>2, <4>3
    <3> QED
      BY <2>2, <3>1, <3>2 DEF Settled
  <2> QED
    BY <1>2, <1>8, <1>11, <2>7, <2>8 DEF RtpInv
<1> QED
  BY <1>9, <1>10

Heard(t, h, u, p) ==
  /\ wire # <<>> /\ wire' = Tail(wire)
  /\ heard' = [heard EXCEPT ![t] = After(t, h, u, p)]
  /\ sent' = [sent EXCEPT ![t] = IF p.marker THEN Tail(sent[t]) ELSE sent[t]]
  /\ right' <=> /\ Follows(h, p)
                /\ p.marker => /\ IsWhole(SoFar(h, p.load), p.load)
                               /\ Nals(h, p) = AllOf(u, Len(u.lengths))
  /\ onTime' <=> After(t, h, u, p).clock = Ticks(t, u.at)
  /\ right' \in BOOLEAN /\ onTime' \in BOOLEAN
  /\ UNCHANGED <<ssrcs, stream, units, plays, latest>>

\* What Hear does when the unit that a packet is of is known.
LEMMA HearIs ==
  ASSUME Hear, NEW p, p = Head(wire), NEW t, t = p.channel, sent[t] # <<>>,
         NEW h, h = heard[t], NEW u, u = Head(sent[t]), right, onTime
  PROVE  Heard(t, h, u, p)
<1> DEFINE data == SoFar(h, p.load)
           whole == IsWhole(data, p.load)
           nals == Nals(h, p)
           clock == IF h.ssrc = p.ssrc THEN Nearest(h.clock, h.timestamp, p) ELSE Ticks(t, u.at)
<1>1. /\ wire # <<>> /\ wire' = Tail(wire)
      /\ heard' = [heard EXCEPT ![t] =
           [ssrc |-> p.ssrc, next |-> Advance(p.sequence, 1), timestamp |-> p.timestamp,
            clock |-> clock, nal |-> IF whole \/ p.marker THEN <<>> ELSE data,
            nals |-> IF p.marker THEN <<>> ELSE nals]]
      /\ sent' = [sent EXCEPT ![t] = IF p.marker THEN Tail(@) ELSE @]
      /\ right' = (right /\ Follows(h, p)
                   /\ (p.marker => whole /\ nals = [k \in 1..Len(u.lengths) |-> Data(u, k)]))
      /\ onTime' = (onTime /\ clock = Ticks(t, u.at))
      /\ UNCHANGED <<ssrcs, stream, units, plays, latest>>
  BY Zenon DEF Hear, Nals
<1>2. /\ Put(h, p).nal = (IF whole \/ p.marker THEN <<>> ELSE data)
      /\ Put(h, p).nals = (IF p.marker THEN <<>> ELSE nals)
  BY DEF Put
<1> HIDE DEF data, whole, nals, clock
<1>3. After(t, h, u, p) =
        [ssrc |-> p.ssrc, next |-> Advance(p.sequence, 1), timestamp |-> p.timestamp,
         clock |-> clock, nal |-> IF whole \/ p.marker THEN <<>> ELSE data,
         nals |-> IF p.marker THEN <<>> ELSE nals]
  BY <1>2, Zenon DEF After, clock
<1>4. After(t, h, u, p).clock = clock
  BY <1>3
<1>5. heard' = [heard EXCEPT ![t] = After(t, h, u, p)]
  BY <1>1, <1>3, Zenon
<1>6. right' \in BOOLEAN /\ onTime' \in BOOLEAN
  BY <1>1, Zenon
<1>7. right' <=> /\ Follows(h, p)
                 /\ p.marker => whole /\ nals = AllOf(u, Len(u.lengths))
  BY <1>1, Zenon DEF AllOf
<1>8. onTime' <=> After(t, h, u, p).clock = Ticks(t, u.at)
  BY <1>1, <1>4, Zenon
<1>9. sent' = [sent EXCEPT ![t] = IF p.marker THEN Tail(sent[t]) ELSE sent[t]]
  BY <1>1
<1> QED
  BY <1>1, <1>5, <1>6, <1>7, <1>8, <1>9 DEF Heard, whole, data, nals

\* What a receiver has is what it could have.
LEMMA AfterIs ==
  ASSUME NEW t \in Tracks, NEW h \in Ears, NEW u \in UnitsOf(t), NEW p \in Packets,
         After(t, h, u, p).clock = Ticks(t, u.at)
  PROVE  After(t, h, u, p) \in Ears
<1> DEFINE data == SoFar(h, p.load)
           after == After(t, h, u, p)
<1>1. /\ p.ssrc \in Nat /\ p.sequence \in 0..(SeqW - 1) /\ p.timestamp \in 0..(TsW - 1)
      /\ p.load \in Loads
  BY DEF Packets
<1>2. h.nal \in Seq(Bytes) /\ h.nals \in Seq(Seq(Bytes))
  BY DEF Ears
<1>3. p.load.data \in Seq(Bytes) /\ (p.load.is = "fu" => p.load.header \in Bytes)
  BY <1>1 DEF Loads
<1>4. data \in Seq(Bytes)
  BY <1>2, <1>3 DEF SoFar
<1> HIDE DEF data
<1>5. Nals(h, p) \in Seq(Seq(Bytes))
  BY <1>2, <1>4 DEF Nals, data
<1>6. Put(h, p).nal \in Seq(Bytes) /\ Put(h, p).nals \in Seq(Seq(Bytes))
  <2>1. <<>> \in Seq(Bytes) /\ <<>> \in Seq(Seq(Bytes))
    OBVIOUS
  <2>2. /\ Put(h, p).nal = (IF IsWhole(data, p.load) \/ p.marker THEN <<>> ELSE data)
        /\ Put(h, p).nals = (IF p.marker THEN <<>> ELSE Nals(h, p))
    BY DEF Put, data
  <2> QED
    BY <1>4, <1>5, <2>1, <2>2
<1>7. Advance(p.sequence, 1) \in 0..(SeqW - 1)
  <2>1. p.sequence + 1 \in Int /\ SeqW \in Nat \ {0}
    BY <1>1, RtpAssumption
  <2> QED
    BY <2>1, Division DEF Advance
<1>8. Ticks(t, u.at) \in Int
  BY UnitsAre, TicksAre
<1> DEFINE clock == IF h.ssrc = p.ssrc THEN Nearest(h.clock, h.timestamp, p) ELSE Ticks(t, u.at)
<1>9. after = [ssrc |-> p.ssrc, next |-> Advance(p.sequence, 1), timestamp |-> p.timestamp,
               clock |-> clock, nal |-> Put(h, p).nal, nals |-> Put(h, p).nals]
  BY DEF After
<1> HIDE DEF clock
<1>10. clock \in Int
  <2>1. after.clock = clock
    BY <1>9
  <2> QED
    BY <1>8, <2>1
<1> HIDE DEF after
<1>11. after \in Ears
  BY <1>1, <1>6, <1>7, <1>9, <1>10 DEF Ears
<1> QED
  BY <1>11 DEF after

\* The packet that comes is the first of those on their way.
LEMMA HearKeeps ==
  ASSUME RtpInv, Hear
  PROVE  RtpInv'
<1>1. PICK z : Leaves(wire, Now, z) /\ Settled(z)
  BY DEF RtpInv
<1>2. wire \in Seq(Packets) /\ wire # <<>>
  BY DEF RtpInv, TypeOK, Hear
<1>3. PICK y : Hears(Now, Head(wire), y) /\ Leaves(Tail(wire), y, z)
  BY <1>1, <1>2, LeavesRest
<1>4. PICK p : p = Head(wire)
  OBVIOUS
<1>5. PICK t : t = p.channel
  OBVIOUS
<1>6. PICK h : h = heard[t]
  OBVIOUS
<1>7. PICK u : u = Head(sent[t])
  OBVIOUS
<1>8. /\ t \in Tracks /\ sent[t] # <<>> /\ Comes(t, h, u, p)
      /\ y = [heard |-> [heard EXCEPT ![t] = After(t, h, u, p)],
              sent |-> [sent EXCEPT ![t] = IF p.marker THEN Tail(sent[t]) ELSE sent[t]]]
  <2>1. Now.heard = heard /\ Now.sent = sent
    BY DEF Now
  <2> QED
    BY <1>3, <1>4, <1>5, <1>6, <1>7, <2>1, Zenon DEF Hears
<1>9. /\ wire' = Tail(wire)
      /\ heard' = [heard EXCEPT ![t] = After(t, h, u, p)]
      /\ sent' = [sent EXCEPT ![t] = IF p.marker THEN Tail(sent[t]) ELSE sent[t]]
      /\ right' <=> /\ Follows(h, p)
                    /\ p.marker => /\ IsWhole(SoFar(h, p.load), p.load)
                                   /\ Nals(h, p) = AllOf(u, Len(u.lengths))
      /\ onTime' <=> After(t, h, u, p).clock = Ticks(t, u.at)
      /\ right' \in BOOLEAN /\ onTime' \in BOOLEAN
      /\ UNCHANGED <<ssrcs, stream, units, plays, latest>>
  <2>1. right /\ onTime
    BY DEF RtpInv
  <2>2. Heard(t, h, u, p)
    BY <1>4, <1>5, <1>6, <1>7, <1>8, <2>1, HearIs
  <2> QED
    BY <2>2 DEF Heard
<1>10. right' /\ onTime'
  BY <1>8, <1>9 DEF Comes
<1>11. Leaves(wire', Now', z)
  <2>1. Now' = y
    BY <1>8, <1>9 DEF Now
  <2> QED
    BY <1>3, <1>9, <2>1
<1>12. Settled(z)'
  BY <1>1, <1>9 DEF Settled
<1>13. TypeOK'
  <2>1. /\ DOMAIN sent = Tracks /\ \A c \in Tracks : sent[c] \in Seq(UnitsOf(c))
        /\ heard \in [Tracks -> Ears]
    BY DEF RtpInv, TypeOK
  <2>2. p \in Packets /\ h \in Ears /\ u \in UnitsOf(t) /\ Tail(sent[t]) \in Seq(UnitsOf(t))
        /\ Tail(wire) \in Seq(Packets)
    <3>1. sent[t] \in Seq(UnitsOf(t)) /\ sent[t] # <<>>
      BY <1>8, <2>1
    <3>2. u \in UnitsOf(t) /\ Tail(sent[t]) \in Seq(UnitsOf(t))
      BY <1>7, <3>1
    <3> QED
      BY <1>2, <1>4, <1>6, <1>8, <2>1, <3>2
  <2>3. heard' \in [Tracks -> Ears]
    <3>1. After(t, h, u, p) \in Ears
      BY <1>8, <2>2, AfterIs DEF Comes
    <3> QED
      BY <1>9, <2>1, <3>1
  <2>4. DOMAIN sent' = Tracks /\ \A c \in Tracks : sent'[c] \in Seq(UnitsOf(c))
    BY <1>8, <1>9, <2>1, <2>2
  <2> QED
    BY <1>9, <2>2, <2>3, <2>4 DEF RtpInv, TypeOK
<1>14. PacketsFit'
  <2>1. \A i \in 1..Len(Tail(wire)) : Tail(wire)[i] = wire[i + 1] /\ i + 1 \in 1..Len(wire)
    BY <1>2
  <2> QED
    BY <1>9, <2>1 DEF RtpInv, PacketsFit
<1> QED
  BY <1>10, <1>11, <1>12, <1>13, <1>14 DEF RtpInv

\* So every step keeps it.
LEMMA RtpInvNext == RtpInv /\ [Next]_vars => RtpInv'
<1> SUFFICES ASSUME RtpInv, [Next]_vars  PROVE RtpInv'
  OBVIOUS
<1>1. ASSUME NEW bound \in SUBSET Tracks \ {{}}, Play(bound)  PROVE RtpInv'
  BY <1>1, PlayKeeps
<1>2. CASE Pause
  BY <1>2, PauseKeeps
<1>3. ASSUME NEW t \in Tracks, NEW u \in UnitsOf(t), Write(t, u)  PROVE RtpInv'
  BY <1>3, WriteKeeps
<1>4. CASE Hear
  BY <1>4, HearKeeps
<1>5. CASE UNCHANGED vars
  <2>1. PICK y : Leaves(wire, Now, y) /\ Settled(y)
    BY DEF RtpInv
  <2>2. Leaves(wire', Now', y) /\ Settled(y)'
    BY <1>5, <2>1 DEF vars, Now, Settled
  <2>3. TypeOK'
    BY <1>5 DEF vars, RtpInv, TypeOK
  <2> QED
    BY <1>5, <2>2, <2>3 DEF vars, RtpInv, PacketsFit
<1> QED
  BY <1>1, <1>2, <1>3, <1>4, <1>5 DEF Next

\* Nothing has gone wrong and nothing will with what is on its way, whatever is
\* played, paused, written and heard in whichever order (rtp/mod.rs,
\* Stream; h264.rs and aac.rs, packetize).
THEOREM RtpInvariant == Spec => []RtpInv
<1>1. Init => RtpInv
  BY RtpInvInit
<1>2. RtpInv /\ [Next]_vars => RtpInv'
  BY RtpInvNext
<1> QED
  BY <1>1, <1>2, PTL DEF Spec

\* The state is what it should be: numbers and timestamps stay within what they
\* are written in, and every packet is one of the three kinds.
THEOREM RtpTypes == Spec => []TypeOK
<1>1. RtpInv => TypeOK
  BY DEF RtpInv
<1> QED
  BY <1>1, RtpInvariant, PTL

\* Every access unit comes out of its packets as it went in, with no gap in
\* their numbers, no two units under one marker and none cut off by a PAUSE,
\* for units of any lengths and numbers that wrap anywhere.
THEOREM UnitsAreWhole == Spec => []UnitsComeBackWhole
<1>1. RtpInv => UnitsComeBackWhole
  BY DEF RtpInv, UnitsComeBackWhole
<1> QED
  BY <1>1, RtpInvariant, PTL

\* Every packet is heard for the tick that its unit was written with, however
\* often timestamps wrapped and whichever way time went.
THEOREM TimesAreBack == Spec => []TimesComeBack
<1>1. RtpInv => TimesComeBack
  BY DEF RtpInv, TimesComeBack
<1> QED
  BY <1>1, RtpInvariant, PTL

\* No packet that is on its way is larger than may cross the network in one piece.
THEOREM NoneTooLarge == Spec => []PacketsFit
<1>1. RtpInv => PacketsFit
  BY DEF RtpInv
<1> QED
  BY <1>1, RtpInvariant, PTL

\* A receiver that has heard everything has nothing half put together: the last
\* packet of a unit tells it that the unit is over, without the next.
THEOREM NothingWaits == Spec => []NothingIsWaitedFor
<1>1. RtpInv => NothingIsWaitedFor
  <2> SUFFICES ASSUME RtpInv, wire = <<>>, NEW t \in Tracks
               PROVE  sent[t] = <<>> /\ ~Begun(heard[t])
    BY DEF NothingIsWaitedFor
  <2>1. PICK y : Leaves(wire, Now, y) /\ Settled(y)
    BY DEF RtpInv
  <2>2. y = Now
    <3>1. PICK X : Takes(X, wire, Now, y)
      BY <2>1 DEF Leaves
    <3>2. Len(wire) = 0
      OBVIOUS
    <3> QED
      BY <3>1, <3>2 DEF Takes
  <2>3. Now.sent = sent /\ Now.heard = heard
    BY DEF Now
  <2> QED
    BY <2>1, <2>2, <2>3 DEF Settled
<1> QED
  BY <1>1, RtpInvariant, PTL
=============================================================================
