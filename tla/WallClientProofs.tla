--------------------------- MODULE WallClientProofs ---------------------------
(***************************************************************************)
(* What a fetch of a range brings, for walls of any length, pages and      *)
(* executes of any size, and any number of changes and failures.           *)
(***************************************************************************)
EXTENDS WallClient, SequenceTheorems, TLAPS

------------------------------------------------------------------------------
(* Facts about the operators of the model.                                 *)

LEMMA DivBounds ==
    ASSUME NEW a \in Int, NEW b \in Nat \ {0}
    PROVE  /\ a \div b \in Int
           /\ b * (a \div b) <= a
           /\ a < b * (a \div b) + b
<1>1. a \div b \in Int
  OBVIOUS
<1>2. b * (a \div b) <= a
  OBVIOUS
<1>3. a < b * (a \div b) + b
  OBVIOUS
<1> QED
  BY <1>1, <1>2, <1>3

LEMMA DivBelow ==
    ASSUME NEW a \in Nat, NEW b \in Nat \ {0}, NEW k \in Int
    PROVE  /\ a \div b \in Nat
           /\ a < b * k => a \div b < k
           /\ a >= b * k => a \div b >= k
<1> DEFINE q == a \div b
<1>1. q \in Int /\ b * q <= a /\ a < b * q + b
  BY DivBounds
<1> HIDE DEF q
<1>2. q >= 0
  <2>1. ASSUME q <= -1 PROVE FALSE
    <3>1. b * q <= b * (-1)
      BY <1>1, <2>1
    <3> QED
      BY <1>1, <3>1
  <2> QED
    BY <1>1, <2>1
<1>3. ASSUME a < b * k, q >= k PROVE FALSE
  <2>1. b * q >= b * k
    BY <1>1, <1>3
  <2> QED
    BY <1>1, <1>3, <2>1
<1>4. ASSUME a >= b * k, q + 1 <= k PROVE FALSE
  <2>1. b * (q + 1) <= b * k
    BY <1>1, <1>4
  <2> QED
    BY <1>1, <1>4, <2>1
<1> QED
  BY <1>1, <1>2, <1>3, <1>4 DEF q

LEMMA TimesMonotonic ==
    ASSUME NEW c \in Nat, NEW a \in Int, NEW b \in Int, a <= b
    PROVE  c * a <= c * b
OBVIOUS

\* A probe is inside the interval.
LEMMA MidBetween ==
    ASSUME NEW l \in Nat, NEW r \in Int, l <= r
    PROVE  Mid(l, r) \in Nat /\ l <= Mid(l, r) /\ Mid(l, r) <= r
BY DEF Mid

LEMMA OneCall ==
    <<0>> \in Seq(Nat) /\ \A x \in Nat : <<x>> \in Seq(Nat) /\ Len(<<x>>) = 1 /\ ToSet(<<x>>) = {x}
BY DEF ToSet

\* The k-th piece of a sequence of calls.
Piece(seq, size, k) ==
    SubSeq(seq, size * k + 1, IF size * (k + 1) < Len(seq) THEN size * (k + 1) ELSE Len(seq))

LEMMA PieceProperties ==
    ASSUME NEW seq \in Seq(Nat), NEW size \in Nat \ {0},
           NEW k \in 0 .. ((Len(seq) - 1) \div size)
    PROVE  /\ Piece(seq, size, k) \in Seq(Nat)
           /\ ToSet(Piece(seq, size, k)) =
                {seq[i] : i \in {j \in 1 .. Len(seq) : size * k < j /\ j <= size * (k + 1)}}
<1> DEFINE m == size * k
           last  == IF m + size < Len(seq) THEN m + size ELSE Len(seq)
<1>1. Len(seq) \in Nat /\ k \in Nat
  <2>1. Len(seq) \in Nat
    BY LenProperties
  <2>2. (Len(seq) - 1) \div size \in Int
    BY <2>1, DivBounds
  <2> QED
    BY <2>1, <2>2
<1>2. size * k <= Len(seq) - 1
  <2> DEFINE q == (Len(seq) - 1) \div size
  <2>1. q \in Int /\ size * q <= Len(seq) - 1
    BY <1>1, DivBounds
  <2>2. k \in Int /\ k <= q /\ size \in Nat
    BY <1>1, <2>1
  <2> HIDE DEF q
  <2>3. size * k <= size * q
    BY <2>1, <2>2, TimesMonotonic
  <2>4. size * k \in Int /\ size * q \in Int
    BY <2>1, <2>2
  <2>5. PICK x \in Int, y \in Int : x = size * k /\ y = size * q
    BY <2>4
  <2>6. x <= y /\ y <= Len(seq) - 1
    BY <2>1, <2>3, <2>5
  <2>7. x <= Len(seq) - 1
    BY <1>1, <2>6
  <2> QED
    BY <2>5, <2>7
<1>3. m \in Nat /\ size * (k + 1) = m + size
  BY <1>1
<1>4. Piece(seq, size, k) = SubSeq(seq, m + 1, last)
  BY <1>3 DEF Piece
<1>5. m <= Len(seq) - 1
  BY <1>2
<1> HIDE DEF m
<1>6. m + 1 \in Int /\ last \in Int /\ m + 1 <= last /\ last <= Len(seq)
  BY <1>1, <1>3, <1>5
<1>7. \A i \in m + 1 .. last : i \in 1 .. Len(seq)
  BY <1>1, <1>3, <1>6
<1>8. \A i \in m + 1 .. last : seq[i] \in Nat
  BY <1>7, ElementOfSeq
<1>9. /\ SubSeq(seq, m + 1, last) \in Seq(Nat)
      /\ Len(SubSeq(seq, m + 1, last)) = last - m
      /\ \A i \in 1 .. last - m : SubSeq(seq, m + 1, last)[i] = seq[m + i]
  <2> HIDE DEF last
  <2>1. /\ SubSeq(seq, m + 1, last) \in Seq(Nat)
        /\ Len(SubSeq(seq, m + 1, last))
             = IF m + 1 <= last THEN last - (m + 1) + 1 ELSE 0
        /\ \A i \in 1 .. last - (m + 1) + 1 :
             SubSeq(seq, m + 1, last)[i] = seq[m + 1 + i - 1]
    BY <1>6, <1>8, SubSeqProperties
  <2>2. last - (m + 1) + 1 = last - m
    BY <1>3, <1>6
  <2>3. \A i \in 1 .. last - m : m + 1 + i - 1 = m + i
    BY <1>3, <1>6
  <2> QED
    BY <1>6, <2>1, <2>2, <2>3
<1>10. ToSet(Piece(seq, size, k)) = {seq[m + i] : i \in 1 .. last - m}
  <2>1. DOMAIN SubSeq(seq, m + 1, last) = 1 .. last - m
    BY <1>9, LenProperties
  <2> HIDE DEF last
  <2> QED
    BY <1>4, <1>9, <2>1 DEF ToSet
<1>11. ASSUME NEW j \in 1 .. Len(seq), m < j, j <= m + size
       PROVE  j - m \in 1 .. last - m /\ j = m + (j - m)
  BY <1>1, <1>3, <1>11
<1>12. ASSUME NEW i \in 1 .. last - m
       PROVE  m + i \in 1 .. Len(seq) /\ m < m + i /\ m + i <= m + size
  BY <1>1, <1>3, <1>6
<1>13. {seq[m + i] : i \in 1 .. last - m}
         = {seq[i] : i \in {j \in 1 .. Len(seq) : m < j /\ j <= m + size}}
  <2> HIDE DEF last
  <2> QED
    BY <1>11, <1>12
<1> QED
  BY <1>3, <1>4, <1>9, <1>10, <1>13 DEF m

PieceChunk(seq, size, k) ==
    [calls |-> Piece(seq, size, k), size |-> size, error |-> "none"]

LEMMA PiecesAre ==
    ASSUME NEW seq, NEW size
    PROVE  Pieces(seq, size) = {PieceChunk(seq, size, k) : k \in 0 .. ((Len(seq) - 1) \div size)}
BY DEF Pieces, PieceChunk, Piece

LEMMA PiecesType ==
    ASSUME NEW seq \in Seq(Nat), NEW size \in Nat \ {0}
    PROVE  /\ Pieces(seq, size) \subseteq Chunk
           /\ \A chunk \in Pieces(seq, size) : chunk.size = size /\ chunk.error = "none"
<1>1. ASSUME NEW k \in 0 .. ((Len(seq) - 1) \div size)
      PROVE  /\ PieceChunk(seq, size, k) \in Chunk
             /\ PieceChunk(seq, size, k).size = size
             /\ PieceChunk(seq, size, k).error = "none"
  <2>1. Piece(seq, size, k) \in Seq(Nat)
    BY PieceProperties
  <2> QED
    BY <2>1 DEF PieceChunk, Chunk, Errors
<1> QED
  BY <1>1, PiecesAre

\* Cutting calls into chunks neither drops nor adds one.
LEMMA PiecesCover ==
    ASSUME NEW seq \in Seq(Nat), NEW size \in Nat \ {0}
    PROVE  UNION {ToSet(chunk.calls) : chunk \in Pieces(seq, size)} = ToSet(seq)
<1>1. Len(seq) \in Nat /\ ToSet(seq) = {seq[i] : i \in 1 .. Len(seq)}
  BY LenProperties DEF ToSet
<1>2. ASSUME NEW chunk \in Pieces(seq, size), NEW c \in ToSet(chunk.calls)
      PROVE  c \in ToSet(seq)
  <2>1. PICK k \in 0 .. ((Len(seq) - 1) \div size) : chunk.calls = Piece(seq, size, k)
    BY <1>2, PiecesAre DEF PieceChunk
  <2>2. ToSet(Piece(seq, size, k)) =
          {seq[i] : i \in {j \in 1 .. Len(seq) : size * k < j /\ j <= size * (k + 1)}}
    BY PieceProperties
  <2>3. PICK i \in 1 .. Len(seq) : c = seq[i]
    BY <1>2, <2>1, <2>2, Zenon
  <2> QED
    BY <1>1, <2>3
<1>3. ASSUME NEW j \in 1 .. Len(seq)
      PROVE  \E chunk \in Pieces(seq, size) : seq[j] \in ToSet(chunk.calls)
  <2> DEFINE k == (j - 1) \div size
  <2>1. j - 1 \in Nat /\ k \in Nat /\ size * k <= j - 1 /\ j - 1 < size * k + size
    BY <1>1, DivBounds, DivBelow
  <2>2. Len(seq) - 1 \in Nat /\ j - 1 <= Len(seq) - 1
    BY <1>1
  <2> HIDE DEF k
  <2>3. size * k <= Len(seq) - 1 /\ size * (k + 1) = size * k + size /\ size * k \in Nat
    BY <2>1, <2>2
  <2>4. (Len(seq) - 1) \div size \in Nat /\ (Len(seq) - 1) \div size >= k
    <3> DEFINE a == Len(seq) - 1
    <3>1. a \in Nat /\ size * k <= a /\ size * k \in Nat /\ k \in Int
      BY <2>1, <2>2, <2>3
    <3> HIDE DEF a
    <3>2. a >= size * k
      BY <3>1
    <3>3. a \div size \in Nat /\ a \div size >= k
      BY <3>1, <3>2, DivBelow
    <3> QED
      BY <3>3 DEF a
  <2>5. k \in 0 .. ((Len(seq) - 1) \div size)
    BY <2>1, <2>4
  <2>6. size * k < j /\ j <= size * (k + 1)
    BY <1>1, <2>1, <2>3
  <2>7. seq[j] \in ToSet(Piece(seq, size, k))
    <3>1. ToSet(Piece(seq, size, k)) =
            {seq[i] : i \in {n \in 1 .. Len(seq) : size * k < n /\ n <= size * (k + 1)}}
      BY <2>5, PieceProperties
    <3> QED
      BY <2>6, <3>1, Zenon
  <2>8. /\ PieceChunk(seq, size, k) \in Pieces(seq, size)
        /\ PieceChunk(seq, size, k).calls = Piece(seq, size, k)
    BY <2>5, PiecesAre DEF PieceChunk
  <2> QED
    BY <2>7, <2>8
<1>4. \A c \in ToSet(seq) : \E chunk \in Pieces(seq, size) : c \in ToSet(chunk.calls)
  BY <1>1, <1>3
<1> QED
  BY <1>2, <1>4

\* No more calls than a chunk takes are one chunk.
LEMMA OnePiece ==
    ASSUME NEW seq \in Seq(Nat), NEW size \in Nat \ {0}, Len(seq) \in 1 .. size
    PROVE  Pieces(seq, size) = {[calls |-> seq, size |-> size, error |-> "none"]}
<1>1. Len(seq) - 1 \in Nat /\ Len(seq) - 1 < size * 1 /\ Len(seq) \in Nat
  OBVIOUS
<1>2. (Len(seq) - 1) \div size \in Nat /\ (Len(seq) - 1) \div size < 1
  BY <1>1, DivBelow
<1>3. 0 .. ((Len(seq) - 1) \div size) = {0}
  BY <1>2
<1>4. Piece(seq, size, 0) = SubSeq(seq, 1, Len(seq))
  <2>1. size * 0 + 1 = 1 /\ size * (0 + 1) = size
    OBVIOUS
  <2>2. (IF size < Len(seq) THEN size ELSE Len(seq)) = Len(seq)
    BY <1>1
  <2> QED
    BY <2>1, <2>2 DEF Piece
<1>5. SubSeq(seq, 1, Len(seq)) = seq
  BY SubSeqFull
<1> QED
  BY <1>3, <1>4, <1>5, PiecesAre DEF PieceChunk

\* The pages from the newer to the older of the two offsets.
LEMMA OffsetsProperties ==
    ASSUME NEW start \in Nat, NEW end \in Nat
    PROVE  /\ Offsets(start, end) \in Seq(Nat)
           /\ Len(Offsets(start, end)) > 0
           /\ \A a \in ToSet(Offsets(start, end)) : a <= start \/ a <= end
           /\ \A o \in Nat : \/ start <= o /\ o <= end
                             \/ end <= o /\ o <= start
                => \E a \in ToSet(Offsets(start, end)) : a <= o /\ o < a + PageSize
           /\ start < PageSize * CallsPerExecute /\ end < PageSize * CallsPerExecute
                => Len(Offsets(start, end)) <= CallsPerExecute
<1> DEFINE newer == IF end > start THEN start ELSE end
           older == IF end > start THEN end ELSE start
           d == (older - newer) \div PageSize
<1>1. PageSize \in Nat \ {0} /\ CallsPerExecute \in Nat
  BY WallAssumption
<1>2. /\ newer \in Nat /\ older \in Nat /\ newer <= older /\ older - newer \in Nat
      /\ (older = start \/ older = end)
      /\ \/ newer = start /\ older = end
         \/ newer = end /\ older = start
  OBVIOUS
<1>3. Offsets(start, end) = [i \in 1 .. (d + 1) |-> newer + PageSize * (i - 1)]
  BY DEF Offsets
<1> HIDE DEF newer, older
<1>4. d \in Nat /\ PageSize * d <= older - newer
  BY <1>1, <1>2, DivBounds, DivBelow
<1>5. ASSUME NEW i \in 1 .. d + 1
      PROVE  newer + PageSize * (i - 1) \in Nat /\ newer + PageSize * (i - 1) <= older
  <2>1. i - 1 \in Nat /\ i - 1 <= d
    BY <1>4
  <2> HIDE DEF d
  <2>2. PageSize * (i - 1) <= PageSize * d
    BY <1>1, <1>4, <2>1, TimesMonotonic
  <2>3. PageSize * (i - 1) \in Nat /\ PageSize * d \in Nat
    BY <1>1, <1>4, <2>1
  <2> QED
    BY <1>2, <1>4, <2>2, <2>3
<1>6. Offsets(start, end) \in Seq(Nat) /\ Len(Offsets(start, end)) = d + 1
  <2> HIDE DEF d
  <2>1. d + 1 \in Nat
    BY <1>4
  <2>2. [i \in 1 .. (d + 1) |-> newer + PageSize * (i - 1)] \in [1 .. (d + 1) -> Nat]
    BY <1>5
  <2> QED
    BY <1>3, <2>1, <2>2, LenProperties
<1>7. ToSet(Offsets(start, end)) = {newer + PageSize * (i - 1) : i \in 1 .. d + 1}
  <2> HIDE DEF d
  <2> QED
    BY <1>3 DEF ToSet
<1>8. ASSUME NEW o \in Nat, newer <= o, o <= older
      PROVE  \E i \in 1 .. d + 1 : LET a == newer + PageSize * (i - 1)
                                   IN  a <= o /\ o < a + PageSize
  <2> DEFINE k == (o - newer) \div PageSize
  <2>1. o - newer \in Nat
    BY <1>2, <1>8
  <2>2. k \in Nat /\ PageSize * k <= o - newer /\ o - newer < PageSize * k + PageSize
    <3> DEFINE a == o - newer
    <3> HIDE DEF a
    <3>1. a \in Nat /\ a \in Int
      BY <2>1 DEF a
    <3>2. a \div PageSize \in Nat
      BY <1>1, <3>1, DivBelow
    <3>3. PageSize * (a \div PageSize) <= a /\ a < PageSize * (a \div PageSize) + PageSize
      BY <1>1, <3>1, DivBounds
    <3> QED
      BY <3>2, <3>3 DEF a
  <2> HIDE DEF k
  <2>3. k <= d
    <3>1. older - newer >= PageSize * k /\ k \in Int /\ PageSize * k \in Nat
      BY <1>1, <1>2, <1>8, <2>1, <2>2
    <3> QED
      BY <1>1, <1>2, <3>1, DivBelow
  <2> HIDE DEF d
  <2>4. k + 1 \in 1 .. d + 1 /\ (k + 1) - 1 = k /\ PageSize * k \in Nat
    BY <1>1, <1>4, <2>2, <2>3
  <2>5. newer + PageSize * k <= o /\ o < newer + PageSize * k + PageSize
    BY <1>1, <1>2, <2>2, <2>4
  <2> QED
    BY <2>4, <2>5
<1>9. ASSUME start < PageSize * CallsPerExecute, end < PageSize * CallsPerExecute
      PROVE  d + 1 <= CallsPerExecute
  <2>1. older - newer < PageSize * CallsPerExecute /\ CallsPerExecute \in Int
    <3>1. older < PageSize * CallsPerExecute /\ PageSize * CallsPerExecute \in Nat
      BY <1>1, <1>2, <1>9
    <3> QED
      BY <1>1, <1>2, <3>1
  <2>2. d < CallsPerExecute
    BY <1>1, <1>2, <2>1, DivBelow
  <2> HIDE DEF d
  <2> QED
    BY <1>1, <1>4, <2>2
<1> HIDE DEF d
<1>10. \A a \in ToSet(Offsets(start, end)) : a <= start \/ a <= end
  <2>1. \A a \in ToSet(Offsets(start, end)) : a <= older
    BY <1>5, <1>7
  <2> QED
    BY <1>2, <2>1
<1>11. ASSUME NEW o \in Nat, (start <= o /\ o <= end) \/ (end <= o /\ o <= start)
       PROVE  \E a \in ToSet(Offsets(start, end)) : a <= o /\ o < a + PageSize
  <2>1. newer <= o /\ o <= older
    BY <1>2, <1>11
  <2>2. PICK i \in 1 .. d + 1 : LET a == newer + PageSize * (i - 1)
                               IN  a <= o /\ o < a + PageSize
    BY <1>8, <2>1
  <2>3. newer + PageSize * (i - 1) \in ToSet(Offsets(start, end))
    BY <1>7
  <2> QED
    BY <2>2, <2>3
<1>12. Len(Offsets(start, end)) > 0
  BY <1>4, <1>6
<1>13. start < PageSize * CallsPerExecute /\ end < PageSize * CallsPerExecute
         => Len(Offsets(start, end)) <= CallsPerExecute
  BY <1>6, <1>9
<1> QED
  BY <1>6, <1>10, <1>11, <1>12, <1>13

------------------------------------------------------------------------------
(* What VK answers.                                                        *)

LEMMA WallGetProperties ==
    ASSUME Shown \in Seq(Post), NEW offset \in Nat, NEW count \in Nat
    PROVE  /\ WallGet(offset, count).count = Len(Shown)
           /\ WallGet(offset, count).count \in Nat
           /\ WallGet(offset, count).items \in Seq(Post)
           /\ \A i \in DOMAIN Shown :
                offset <= Len(Shown) - i /\ Len(Shown) - i < offset + count
                    => Shown[i] \in ToSet(WallGet(offset, count).items)
<1> DEFINE size == IF offset + count < Len(Shown) THEN count
                   ELSE IF offset < Len(Shown) THEN Len(Shown) - offset ELSE 0
           items == [i \in 1 .. size |-> Shown[Len(Shown) - offset - i + 1]]
<1>1. Len(Shown) \in Nat /\ DOMAIN Shown = 1 .. Len(Shown)
  BY LenProperties
<1>2. size \in Nat /\ size <= count /\ (size > 0 => size <= Len(Shown) - offset)
  BY <1>1
<1>3. WallGet(offset, count) = [count |-> Len(Shown), items |-> items]
  BY DEF WallGet
<1>4. \A i \in Nat : offset <= Len(Shown) - i /\ Len(Shown) - i < offset + count /\ i > 0
        => Len(Shown) - i - offset + 1 \in 1 .. size
  BY <1>1
<1> HIDE DEF size
<1>5. \A i \in 1 .. size : Shown[Len(Shown) - offset - i + 1] \in Post
  <2>1. \A i \in 1 .. size : Len(Shown) - offset - i + 1 \in 1 .. Len(Shown)
    BY <1>1, <1>2
  <2> QED
    BY <2>1, ElementOfSeq
<1>6. items \in Seq(Post)
  <2>1. items \in [1 .. size -> Post]
    BY <1>5
  <2> QED
    BY <1>2, <2>1
<1>7. ASSUME NEW i \in 1 .. Len(Shown), offset <= Len(Shown) - i,
             Len(Shown) - i < offset + count
      PROVE  Shown[i] \in ToSet(items)
  <2> DEFINE j == Len(Shown) - i - offset + 1
  <2>1. j \in 1 .. size
    BY <1>1, <1>4, <1>7
  <2>2. Len(Shown) - offset - j + 1 = i
    BY <1>1
  <2>3. items[j] = Shown[i] /\ DOMAIN items = 1 .. size
    BY <2>1, <2>2
  <2> QED
    BY <2>1, <2>3 DEF ToSet
<1> QED
  BY <1>1, <1>3, <1>6, <1>7

\* The answer to a probe is the post at its offset, if there is one.
LEMMA ProbeAnswer ==
    ASSUME Shown \in Seq(Post), NEW offset \in Nat, offset < Len(Shown)
    PROVE  /\ WallGet(offset, 1).items # <<>>
           /\ WallGet(offset, 1).items = <<Shown[Len(Shown) - offset]>>
           /\ Last(WallGet(offset, 1).items) = Shown[Len(Shown) - offset]
<1>1. Len(Shown) \in Nat
  BY LenProperties
<1>2. (IF offset + 1 < Len(Shown) THEN 1
       ELSE IF offset < Len(Shown) THEN Len(Shown) - offset ELSE 0) = 1
  BY <1>1
<1> DEFINE items == [i \in 1 .. 1 |-> Shown[Len(Shown) - offset - i + 1]]
<1>3. WallGet(offset, 1).items = items
  BY <1>2 DEF WallGet
<1>4. Len(Shown) - offset - 1 + 1 = Len(Shown) - offset
  BY <1>1
<1>5. items[1] = Shown[Len(Shown) - offset]
  BY <1>4
<1>6. Len(items) = 1 /\ DOMAIN items = 1 .. 1
  <2>1. items \in [1 .. 1 -> {items[1]}]
    OBVIOUS
  <2> QED
    BY <2>1, LenProperties
<1>7. items = <<items[1]>>
  OBVIOUS
<1> HIDE DEF items
<1>8. items # <<>>
  <2>1. 1 \in DOMAIN items /\ DOMAIN <<>> = {}
    BY <1>6
  <2> QED
    BY <2>1
<1> QED
  BY <1>3, <1>5, <1>6, <1>7, <1>8 DEF Last

\* Posts without one of them.
LEMMA RemoveAtProperties ==
    ASSUME NEW seq \in Seq(Post), NEW i \in DOMAIN seq
    PROVE  /\ RemoveAt(seq, i) \in Seq(Post)
           /\ Len(RemoveAt(seq, i)) = Len(seq) - 1
           /\ \A k \in 1 .. Len(seq) - 1 :
                RemoveAt(seq, i)[k] = IF k < i THEN seq[k] ELSE seq[k + 1]
<1> DEFINE n == Len(seq)
           a == SubSeq(seq, 1, i - 1)
           b == SubSeq(seq, i + 1, n)
<1>1. n \in Nat /\ i \in 1 .. n /\ \A k \in 1 .. n : seq[k] \in Post
  BY LenProperties, ElementOfSeq
<1>2. a \in Seq(Post) /\ Len(a) = i - 1 /\ \A k \in 1 .. i - 1 : a[k] = seq[k]
  <2>1. /\ a \in Seq(Post)
        /\ Len(a) = IF 1 <= i - 1 THEN (i - 1) - 1 + 1 ELSE 0
        /\ \A k \in 1 .. (i - 1) - 1 + 1 : a[k] = seq[1 + k - 1]
    <3>1. 1 \in Int /\ i - 1 \in Int /\ \A k \in 1 .. i - 1 : seq[k] \in Post
      BY <1>1
    <3> HIDE DEF n
    <3> QED
      BY <3>1, SubSeqProperties
  <2> HIDE DEF a, n
  <2> QED
    BY <1>1, <2>1
<1>3. b \in Seq(Post) /\ Len(b) = n - i /\ \A k \in 1 .. n - i : b[k] = seq[i + k]
  <2>1. /\ b \in Seq(Post)
        /\ Len(b) = IF i + 1 <= n THEN n - (i + 1) + 1 ELSE 0
        /\ \A k \in 1 .. n - (i + 1) + 1 : b[k] = seq[i + 1 + k - 1]
    <3>1. i + 1 \in Int /\ n \in Int /\ \A k \in i + 1 .. n : seq[k] \in Post
      BY <1>1
    <3> HIDE DEF n
    <3> QED
      BY <3>1, SubSeqProperties
  <2> HIDE DEF b, n
  <2> QED
    BY <1>1, <2>1
<1>4. RemoveAt(seq, i) = a \o b
  BY DEF RemoveAt
<1> HIDE DEF a, b, n
<1>5. /\ a \o b \in Seq(Post) /\ Len(a \o b) = Len(a) + Len(b)
      /\ \A k \in 1 .. Len(a) + Len(b) :
            (a \o b)[k] = IF k <= Len(a) THEN a[k] ELSE b[k - Len(a)]
  BY <1>2, <1>3, ConcatProperties
<1>6. Len(a) + Len(b) = n - 1
  BY <1>1, <1>2, <1>3
<1>7. ASSUME NEW k \in 1 .. n - 1
      PROVE  (a \o b)[k] = IF k < i THEN seq[k] ELSE seq[k + 1]
  <2>1. CASE k < i
    <3>1. k \in 1 .. i - 1 /\ k <= Len(a)
      BY <1>1, <1>2, <1>7, <2>1
    <3> QED
      BY <1>2, <1>5, <1>6, <1>7, <2>1, <3>1
  <2>2. CASE k >= i
    <3>1. ~ (k <= Len(a)) /\ k - Len(a) \in 1 .. n - i /\ i + (k - Len(a)) = k + 1 /\ ~ (k < i)
      BY <1>1, <1>2, <1>7, <2>2
    <3>2. b[k - Len(a)] = seq[k + 1]
      BY <1>3, <3>1
    <3>3. (a \o b)[k] = b[k - Len(a)]
      BY <1>5, <1>6, <1>7, <3>1
    <3> QED
      BY <3>1, <3>2, <3>3
  <2>3. k < i \/ k >= i
    BY <1>1, <1>7
  <2> QED
    BY <2>1, <2>2, <2>3
<1> QED
  BY <1>4, <1>5, <1>6, <1>7 DEF n

\* They keep their order.
LEMMA RemoveAtKeepsOrder ==
    ASSUME NEW seq \in Seq(Post), NEW i \in DOMAIN seq
    PROVE  LET rest == RemoveAt(seq, i)
               Old(k) == IF k < i THEN k ELSE k + 1
           IN  /\ rest \in Seq(Post) /\ DOMAIN rest = 1 .. Len(seq) - 1
               /\ \A k \in DOMAIN rest :
                    /\ Old(k) \in DOMAIN seq \ {i} /\ rest[k] = seq[Old(k)]
                    /\ \A j \in DOMAIN rest : j < k => Old(j) < Old(k)
<1> DEFINE rest == RemoveAt(seq, i)
           Old(k) == IF k < i THEN k ELSE k + 1
<1>1. PICK n \in Nat : n = Len(seq) /\ DOMAIN seq = 1 .. n
  BY LenProperties
<1>2. /\ rest \in Seq(Post) /\ Len(rest) = n - 1
      /\ \A k \in 1 .. n - 1 : rest[k] = seq[Old(k)]
  BY <1>1, RemoveAtProperties
<1> HIDE DEF rest
<1>3. DOMAIN rest = 1 .. n - 1
  BY <1>2, LenProperties
<1>4. \A k \in 1 .. n - 1 : Old(k) \in 1 .. n /\ Old(k) # i
  BY <1>1
<1>5. \A j, k \in 1 .. n - 1 : j < k => Old(j) < Old(k)
  BY <1>1
<1> HIDE DEF Old
<1>6. /\ rest \in Seq(Post) /\ DOMAIN rest = 1 .. Len(seq) - 1
      /\ \A k \in DOMAIN rest :
            /\ Old(k) \in DOMAIN seq \ {i} /\ rest[k] = seq[Old(k)]
            /\ \A j \in DOMAIN rest : j < k => Old(j) < Old(k)
  BY <1>1, <1>2, <1>3, <1>4, <1>5
<1> QED
  BY <1>6 DEF rest, Old

\* The pinned post stands behind all others, as offsets run at offset 0.
LEMMA ShownProperties ==
    ASSUME wall \in Seq(Post), pin \in Seq(Post), Len(pin) <= 1
    PROVE  /\ Shown \in Seq(Post) /\ Len(wall) \in Nat /\ Len(Shown) \in Nat
           /\ Len(Shown) = Len(wall) + IF pin = <<>> THEN 0 ELSE 1
           /\ \A i \in DOMAIN wall : i \in DOMAIN Shown /\ Shown[i] = wall[i]
           /\ pin = <<>> => ToSet(pin) = {}
           /\ pin # <<>> => /\ DOMAIN pin = 1 .. 1 /\ pin[1] \in Post /\ ToSet(pin) = {pin[1]}
                            /\ Len(Shown) \in DOMAIN Shown /\ Shown[Len(Shown)] = pin[1]
<1>1. /\ Len(wall) \in Nat /\ DOMAIN wall = 1 .. Len(wall)
      /\ Len(pin) \in Nat /\ DOMAIN pin = 1 .. Len(pin)
      /\ \A i \in 1 .. Len(pin) : pin[i] \in Post
  BY LenProperties, ElementOfSeq
<1>2. /\ Shown \in Seq(Post) /\ Len(Shown) = Len(wall) + Len(pin)
      /\ \A k \in 1 .. Len(wall) + Len(pin) :
            Shown[k] = IF k <= Len(wall) THEN wall[k] ELSE pin[k - Len(wall)]
  BY ConcatProperties DEF Shown
<1>3. DOMAIN Shown = 1 .. Len(wall) + Len(pin)
  BY <1>2, LenProperties
<1>4. (pin = <<>> => Len(pin) = 0) /\ (Len(pin) = 0 => pin = <<>>)
  BY EmptySeq
<1>5. pin # <<>> => Len(pin) = 1
  BY <1>1, <1>4
<1>6. Len(Shown) = Len(wall) + IF pin = <<>> THEN 0 ELSE 1
  BY <1>1, <1>2, <1>4, <1>5
<1>7. \A i \in DOMAIN wall : i \in DOMAIN Shown /\ Shown[i] = wall[i]
  BY <1>1, <1>2, <1>3
<1>8. pin = <<>> => ToSet(pin) = {}
  BY <1>1, <1>4 DEF ToSet
<1>9. ASSUME pin # <<>>
      PROVE  /\ DOMAIN pin = 1 .. 1 /\ pin[1] \in Post /\ ToSet(pin) = {pin[1]}
             /\ Len(Shown) \in DOMAIN Shown /\ Shown[Len(Shown)] = pin[1]
  <2>1. Len(pin) = 1
    BY <1>5, <1>9
  <2>2. DOMAIN pin = 1 .. 1 /\ pin[1] \in Post
    BY <1>1, <2>1
  <2>3. ToSet(pin) = {pin[1]}
    BY <2>2 DEF ToSet
  <2>4. Len(wall) + 1 \in 1 .. Len(wall) + Len(pin) /\ ~ (Len(wall) + 1 <= Len(wall))
        /\ Len(wall) + 1 - Len(wall) = 1
    BY <1>1, <2>1
  <2> QED
    BY <1>2, <1>3, <2>1, <2>2, <2>3, <2>4
<1>10. Len(Shown) \in Nat
  BY <1>1, <1>2
<1> QED
  BY <1>1, <1>2, <1>6, <1>7, <1>8, <1>9, <1>10

------------------------------------------------------------------------------
(* Type correctness.                                                       *)

\* New calls are all to be answered.
LEMMA AskProperties ==
    ASSUME NEW offsets \in Seq(Nat), Ask(offsets)
    PROVE  /\ pool' \subseteq Chunk
           /\ \A chunk \in pool' : chunk.size = CallsPerExecute /\ chunk.error = "none"
           /\ DOMAIN got' = {}
           /\ Asked' = ToSet(offsets)
<1>1. CallsPerExecute \in Nat \ {0}
  BY WallAssumption
<1>2. pool' = Pieces(offsets, CallsPerExecute) /\ got' = <<>>
  BY DEF Ask
<1>3. DOMAIN got' = {}
  BY <1>2
<1>4. UNION {ToSet(chunk.calls) : chunk \in pool'} = ToSet(offsets)
  BY <1>1, <1>2, PiecesCover
<1>5. Asked' = DOMAIN got' \cup UNION {ToSet(chunk.calls) : chunk \in pool'}
  BY DEF Asked
<1> QED
  BY <1>1, <1>2, <1>3, <1>4, <1>5, PiecesType

\* A search stays on the wall that was counted, and ends with an offset of it.
LEMMA SearchProperties ==
    ASSUME TypeOK, CountInv, SearchInv, step \in Searches
    PROVE  LET mid == Mid(left, right)
           IN  /\ mid \in Nat /\ left <= mid /\ mid <= right /\ mid < total
               /\ NextLeft \in Nat /\ NextRight \in Int /\ NextRight < total
               /\ NextLeft \in {left, mid + 1} /\ NextRight \in {right, mid - 1}
               /\ Over => Found \in Nat /\ Found < total
               /\ Over /\ ~ Hit => /\ NextLeft = NextRight + 1
                                   /\ \/ Found = NextLeft /\ NextLeft < total
                                      \/ Found = total - 1 /\ NextLeft = total
<1> DEFINE mid == Mid(left, right)
<1>1. /\ left \in Nat /\ right \in Int /\ total \in Nat
      /\ left <= right /\ right < total /\ total > 0
  BY DEF TypeOK, SearchInv, CountInv
<1>2. mid \in Nat /\ left <= mid /\ mid <= right
  BY <1>1, MidBetween
<1> HIDE DEF mid
<1>3. /\ NextRight = IF Narrow THEN mid - 1 ELSE right
      /\ NextLeft = IF Narrow THEN left ELSE mid + 1
      /\ Found = IF Hit THEN mid ELSE IF NextLeft < total THEN NextLeft ELSE NextRight
  BY DEF NextRight, NextLeft, Found, mid
<1>4. /\ NextLeft \in Nat /\ NextRight \in Int /\ NextRight < total
      /\ NextLeft \in {left, mid + 1} /\ NextRight \in {right, mid - 1}
  BY <1>1, <1>2, <1>3
<1>5. ASSUME Over, ~ Hit
      PROVE  NextLeft = NextRight + 1
  BY <1>1, <1>2, <1>3, <1>5 DEF Over
<1>6. ASSUME Over, ~ Hit
      PROVE  \/ Found = NextLeft /\ NextLeft < total
             \/ Found = total - 1 /\ NextLeft = total
  BY <1>1, <1>3, <1>4, <1>5, <1>6
<1>7. ASSUME Over
      PROVE  Found \in Nat /\ Found < total
  BY <1>1, <1>2, <1>3, <1>4, <1>6, <1>7
<1> QED
  BY <1>1, <1>2, <1>4, <1>5, <1>6, <1>7 DEF mid

LEMMA OneCallType == \A x \in Nat : <<x>> \in Seq(Nat)
OBVIOUS

\* At first the wall is in order, with or without a pinned post.
LEMMA InitWall ==
    ASSUME Init
    PROVE  /\ wall \in Seq(Post) /\ pin \in Seq(Post) /\ Len(pin) <= 1 /\ lastId \in Nat
           /\ WallInv
<1>1. PICK n \in 0 .. MaxPosts : \E at \in [1 .. n -> Dates] :
        /\ \A i, j \in 1 .. n : i < j => at[i] <= at[j]
        /\ LET posts == [i \in 1 .. n |-> [id |-> i, at |-> at[i]]]
           IN  \/ wall = posts /\ pin = <<>>
               \/ \E k \in 1 .. n : wall = RemoveAt(posts, k) /\ pin = <<posts[k]>>
        /\ lastId = n
  BY DEF Init
<1>2. PICK at \in [1 .. n -> Dates] :
        /\ \A i, j \in 1 .. n : i < j => at[i] <= at[j]
        /\ LET posts == [i \in 1 .. n |-> [id |-> i, at |-> at[i]]]
           IN  \/ wall = posts /\ pin = <<>>
               \/ \E k \in 1 .. n : wall = RemoveAt(posts, k) /\ pin = <<posts[k]>>
        /\ lastId = n
  BY <1>1
<1> DEFINE posts == [i \in 1 .. n |-> [id |-> i, at |-> at[i]]]
<1>3. n \in Nat /\ range.from <= range.to
  BY WallAssumption DEF Init
<1>4. DOMAIN posts = 1 .. n /\ \A i \in 1 .. n : posts[i].id = i /\ posts[i].at = at[i]
  OBVIOUS
<1>5. posts \in Seq(Post) /\ Len(posts) = n
  <2>1. posts \in [1 .. n -> Post]
    BY <1>3 DEF Post
  <2> QED
    BY <1>3, <2>1, LenProperties
<1>6. \/ wall = posts /\ pin = <<>>
      \/ \E k \in 1 .. n : wall = RemoveAt(posts, k) /\ pin = <<posts[k]>>
  BY <1>2
<1> HIDE DEF posts
<1>7. CASE wall = posts /\ pin = <<>>
  <2>1. pin \in Seq(Post) /\ Len(pin) = 0
    BY <1>7
  <2>2. WallInv
    BY <1>2, <1>3, <1>4, <1>7 DEF WallInv, At
  <2> QED
    BY <1>2, <1>3, <1>5, <1>7, <2>1, <2>2
<1>8. CASE \E k \in 1 .. n : wall = RemoveAt(posts, k) /\ pin = <<posts[k]>>
  <2>1. PICK k \in 1 .. n : wall = RemoveAt(posts, k) /\ pin = <<posts[k]>>
    BY <1>8
  <2> DEFINE Old(j) == IF j < k THEN j ELSE j + 1
  <2>2. /\ wall \in Seq(Post)
        /\ \A i \in DOMAIN wall :
            /\ Old(i) \in 1 .. n /\ Old(i) # k /\ wall[i] = posts[Old(i)]
            /\ \A j \in DOMAIN wall : j < i => Old(j) < Old(i)
    BY <1>4, <1>5, <2>1, RemoveAtKeepsOrder
  <2> HIDE DEF Old
  <2>3. \A i \in DOMAIN wall : wall[i].id = Old(i) /\ At(i) = at[Old(i)]
    BY <1>4, <2>2 DEF At
  <2>4. pin \in Seq(Post) /\ Len(pin) = 1 /\ pin[1].id = k
    <3>1. posts[k] \in Post /\ posts[k].id = k
      BY <1>3, <1>4, <1>5, ElementOfSeq
    <3> QED
      BY <2>1, <3>1
  <2>5. \A i, j \in DOMAIN wall : i < j => At(i) <= At(j) /\ wall[i].id < wall[j].id
    BY <1>2, <2>2, <2>3
  <2>6. WallInv
    BY <1>2, <1>3, <2>2, <2>3, <2>4, <2>5 DEF WallInv
  <2> QED
    BY <1>2, <1>3, <2>2, <2>4, <2>6
<1> QED
  BY <1>6, <1>7, <1>8

LEMMA InitType == Init => TypeOK
<1> SUFFICES ASSUME Init PROVE TypeOK
  OBVIOUS
<1>1. wall \in Seq(Post) /\ pin \in Seq(Post) /\ Len(pin) <= 1 /\ lastId \in Nat
  BY InitWall
<1>2. pool \subseteq Chunk
  <2>1. <<0>> \in Seq(Nat) /\ CallsPerExecute \in Nat \ {0}
    BY OneCallType, WallAssumption
  <2> QED
    BY <2>1, PiecesType DEF Init
<1>3. DOMAIN got = {}
  BY DEF Init
<1>4. /\ step \in Steps
      /\ total \in Nat /\ left \in Nat /\ right \in Int /\ startIndex \in Nat
      /\ answer = {} /\ deleted \in Nat /\ faults \in Nat
      /\ dropped \in BOOLEAN /\ split \in BOOLEAN
  <2>1. /\ step = "resolve" /\ total = 0 /\ left = 0 /\ right = 0 /\ startIndex = 0
        /\ answer = {} /\ deleted = 0 /\ faults = 0 /\ dropped = FALSE /\ split = FALSE
    BY DEF Init
  <2>2. "resolve" \in Steps
    BY DEF Steps
  <2>3. dropped \in BOOLEAN /\ split \in BOOLEAN
    BY <2>1
  <2> QED
    BY <2>1, <2>2, <2>3
<1>5. counted \in 0 .. lastId
  BY <1>1 DEF Init
<1>6. range \in [from : Dates, to : Dates]
  BY DEF Init
<1> QED
  BY <1>1, <1>2, <1>3, <1>4, <1>5, <1>6 DEF TypeOK

LEMMA NextType ==
    ASSUME TypeOK, CountInv, SearchInv, [Next]_vars
    PROVE  TypeOK'
<1> USE DEF TypeOK, ClientUnchanged, vk, search, calls, history, Fault
<1>0. 0 \in Nat /\ <<0>> \in Seq(Nat)
  BY OneCallType
<1>1. ASSUME NEW chunk \in pool, Execute(chunk) PROVE TypeOK'
  <2>1. PICK refused \in SUBSET ToSet(chunk.calls) :
          /\ IF refused = {} THEN UNCHANGED faults ELSE faults' = faults + 1
          /\ got' = [o \in DOMAIN got \cup (ToSet(chunk.calls) \ refused) |->
                      IF o \in DOMAIN got THEN got[o]
                      ELSE WallGet(o, IF step = "pages" THEN PageSize ELSE 1)]
          /\ dropped' = (dropped \/ refused # {})
    BY <1>1 DEF Execute
  <2>2. ToSet(chunk.calls) \subseteq Nat
    BY ElementOfSeq, LenProperties DEF Chunk, ToSet
  <2>3. (IF step = "pages" THEN PageSize ELSE 1) \in Nat
    BY WallAssumption
  <2>4. \A o \in DOMAIN got' : got'[o].count \in Nat /\ got'[o].items \in Seq(Post)
    BY <2>1, <2>2, <2>3, ShownProperties, WallGetProperties
  <2>5. DOMAIN got' \subseteq Nat
    BY <2>1, <2>2
  <2>6. pool' \subseteq Chunk /\ dropped' \in BOOLEAN /\ faults' \in Nat
    BY <1>1, <2>1 DEF Execute
  <2>7. UNCHANGED <<wall, pin, lastId, range, step, total, left, right, startIndex, answer,
                    counted, deleted, split>>
    BY <1>1 DEF Execute
  <2> QED
    BY <2>4, <2>5, <2>6, <2>7
<1>2. ASSUME NEW chunk \in pool, ExecuteLost(chunk) PROVE TypeOK'
  BY <1>2 DEF ExecuteLost
<1>3. ASSUME NEW chunk \in pool, ExecuteFail(chunk) PROVE TypeOK'
  <2>1. PICK error \in Errors :
          /\ faults' = faults \/ faults' = faults + 1
          /\ pool' = (pool \ {chunk}) \cup {[chunk EXCEPT !.error = error]}
    BY <1>3 DEF ExecuteFail
  <2>2. [chunk EXCEPT !.error = error] \in Chunk
    BY DEF Chunk
  <2>3. pool' \subseteq Chunk
    BY <2>1, <2>2
  <2>4. faults' \in Nat
    BY <2>1
  <2>5. UNCHANGED <<wall, pin, lastId, range, step, total, left, right, startIndex, got,
                    answer, counted, deleted, dropped, split>>
    BY <1>3 DEF ExecuteFail
  <2> QED
    BY <2>3, <2>4, <2>5
<1>4. CASE Retry
  <2>1. \A chunk \in pool : chunk.calls \in Seq(Nat) /\ Again(chunk) \in Nat \ {0}
    <3> SUFFICES ASSUME NEW chunk \in pool
                 PROVE  chunk.calls \in Seq(Nat) /\ Again(chunk) \in Nat \ {0}
      OBVIOUS
    <3>1. chunk.calls \in Seq(Nat) /\ chunk.size \in Nat
      BY DEF Chunk
    <3>2. Again(chunk) # 0
      BY <1>4 DEF Retry, Hopeless
    <3>3. chunk.size \div 2 \in Nat
      BY <3>1
    <3> QED
      BY <3>1, <3>2, <3>3 DEF Again
  <2>2. pool' \subseteq Chunk
    <3>1. pool' = UNION {Pieces(chunk.calls, Again(chunk)) : chunk \in pool}
      BY <1>4 DEF Retry
    <3>2. \A chunk \in pool : Pieces(chunk.calls, Again(chunk)) \subseteq Chunk
      BY <2>1, PiecesType
    <3> QED
      BY <3>1, <3>2
  <2> QED
    BY <1>4, <2>2 DEF Retry
<1>5. CASE PoolFail
  BY <1>5 DEF PoolFail, Steps
<1>6. CASE Resolved
  BY <1>0, <1>6, AskProperties DEF Resolved, FindNothing, Steps
<1>7. CASE Informed
  BY <1>0, <1>7, AskProperties DEF Informed, FindNothing, Steps
<1>8. CASE Counted
  <2>1. Count \in Nat
    BY DEF Count
  <2>2. CASE Count = 0
    BY <1>8, <2>2 DEF Counted, Finish, Steps
  <2>3. CASE Count # 0
    <3>1. 0 <= Count - 1 /\ Count - 1 \in Int
      BY <2>1, <2>3
    <3>2. Mid(0, Count - 1) \in Nat
      BY <3>1, MidBetween
    <3>3. <<Mid(0, Count - 1)>> \in Seq(Nat)
      BY <3>2, OneCallType
    <3>4. Ask(<<Mid(0, Count - 1)>>) /\ right' = Count - 1 /\ total' = Count
      BY <1>8, <2>3 DEF Counted, SearchFor
    <3>5. pool' \subseteq Chunk /\ DOMAIN got' = {}
      BY <3>3, <3>4, AskProperties
    <3>6. /\ step' = "start" /\ left' = 0 /\ counted' = lastId /\ deleted' = 0
          /\ UNCHANGED <<wall, pin, lastId, range, startIndex, answer, dropped, split, faults>>
      BY <1>8, <2>3 DEF Counted, SearchFor
    <3> QED
      BY <2>1, <3>1, <3>4, <3>5, <3>6 DEF Steps, Searches
  <2> QED
    BY <2>2, <2>3
<1>9. CASE SearchOn
  <2>1. NextLeft \in Nat /\ NextRight \in Int /\ NextLeft <= NextRight
    BY <1>9, SearchProperties DEF SearchOn, Over
  <2>2. <<Mid(NextLeft, NextRight)>> \in Seq(Nat)
    BY <2>1, MidBetween, OneCallType
  <2>3. Ask(<<Mid(NextLeft, NextRight)>>)
    BY <1>9 DEF SearchOn
  <2> QED
    BY <1>9, <2>1, <2>2, <2>3, AskProperties DEF SearchOn
<1>10. CASE StartFound
  <2>1. Found \in Nat
    BY <1>10, SearchProperties DEF StartFound, Answered, Searches
  <2>2. 0 <= total - 1 /\ total - 1 \in Int
    BY <1>10 DEF StartFound, Answered, Searches, CountInv
  <2>3. <<Mid(0, total - 1)>> \in Seq(Nat)
    BY <2>2, MidBetween, OneCallType
  <2>4. Ask(<<Mid(0, total - 1)>>)
    BY <1>10 DEF StartFound, SearchFor
  <2> QED
    BY <1>10, <2>1, <2>2, <2>3, <2>4, AskProperties
    DEF StartFound, SearchFor, Steps, Searches
<1>11. CASE EndFound
  <2>1. Found \in Nat
    BY <1>11, SearchProperties DEF EndFound, Answered, Searches
  <2>2. Offsets(startIndex, Found) \in Seq(Nat)
    BY <2>1, OffsetsProperties
  <2> QED
    BY <1>11, <2>2, AskProperties DEF EndFound, Steps
<1>12. CASE Collected
  <2>1. \A o \in DOMAIN got : ToSet(got[o].items) \subseteq Post
    BY ElementOfSeq, LenProperties DEF ToSet
  <2>2. Posts \subseteq Post
    BY <2>1 DEF Posts
  <2> QED
    BY <1>12, <2>2 DEF Collected, Finish, Steps
<1>13. CASE MakePost
  <2>1. PICK d \in Dates : wall' = Append(wall, [id |-> lastId + 1, at |-> d])
    BY <1>13 DEF MakePost
  <2>2. [id |-> lastId + 1, at |-> d] \in Post
    BY DEF Post
  <2>3. wall' \in Seq(Post)
    BY <2>1, <2>2, AppendProperties
  <2> QED
    BY <1>13, <2>3 DEF MakePost
<1>14. CASE DeletePost
  <2>1. <<>> \in Seq(Post) /\ Len(<<>>) <= 1
    OBVIOUS
  <2>2. wall' \in Seq(Post) /\ pin' \in Seq(Post) /\ Len(pin') <= 1
    BY <1>14, <2>1, RemoveAtProperties DEF DeletePost
  <2> QED
    BY <1>14, <2>2 DEF DeletePost
<1>15. CASE UNCHANGED vars
  BY <1>15 DEF vars
<1> QED
  BY <1>1, <1>2, <1>3, <1>4, <1>5, <1>6, <1>7, <1>8, <1>9, <1>10, <1>11, <1>12, <1>13,
     <1>14, <1>15 DEF Next, Pool, Client

------------------------------------------------------------------------------
(* The binary search.                                                      *)

LEMMA WallPosts ==
    ASSUME TypeOK
    PROVE  /\ Len(wall) \in Nat /\ DOMAIN wall = 1 .. Len(wall)
           /\ \A i \in DOMAIN wall : /\ wall[i] \in Post /\ wall[i].id \in Nat
                                     /\ At(i) \in Nat /\ At(i) # 0
<1>1. wall \in Seq(Post)
  BY DEF TypeOK
<1>2. Len(wall) \in Nat /\ DOMAIN wall = 1 .. Len(wall)
  BY <1>1, LenProperties
<1>3. \A i \in DOMAIN wall : wall[i] \in Post
  BY <1>1, <1>2, ElementOfSeq
<1>4. \A p \in Post : p.id \in Nat /\ p.at \in Nat /\ p.at # 0
  BY WallAssumption DEF Post, Dates
<1> QED
  BY <1>2, <1>3, <1>4 DEF At

\* A later place on the wall is of no earlier date.
LEMMA Sorted ==
    ASSUME WallInv, TypeOK, NEW i \in DOMAIN wall, NEW j \in DOMAIN wall, i <= j
    PROVE  At(i) <= At(j) /\ At(i) \in Nat /\ At(j) \in Nat
<1>1. \A k \in DOMAIN wall : At(k) \in Nat
  BY WallPosts
<1>2. i \in Nat /\ j \in Nat
  BY WallPosts
<1> QED
  BY <1>1, <1>2 DEF WallInv

\* The numbers a step works with.
LEMMA Numbers ==
    ASSUME TypeOK
    PROVE  /\ Len(wall) \in Nat /\ DOMAIN wall = 1 .. Len(wall)
           /\ Shift \in Nat /\ total \in Nat /\ left \in Nat /\ right \in Int
           /\ startIndex \in Nat /\ range.from \in Nat /\ range.to \in Nat
           /\ Bound \in Nat
<1>1. range.from \in Nat /\ range.to \in Nat
  BY WallAssumption DEF TypeOK, Dates
<1>2. Shift \in Nat
  BY DEF TypeOK, Shift
<1> QED
  BY <1>1, <1>2, WallPosts DEF TypeOK, Bound

\* The pinned post is one, and the wall has all others.
LEMMA PinPost ==
    ASSUME TypeOK
    PROVE  /\ pin = <<>> => ToSet(pin) = {}
           /\ pin # <<>> => /\ pin = <<pin[1]>> /\ pin[1] \in Post /\ pin[1].id \in Nat
                            /\ pin[1].at \in Nat /\ pin[1].at # 0
                            /\ ToSet(pin) = {pin[1]} /\ Last(pin) = pin[1]
<1>1. wall \in Seq(Post) /\ pin \in Seq(Post) /\ Len(pin) <= 1
  BY DEF TypeOK
<1>2. pin = <<>> => ToSet(pin) = {}
  BY <1>1, ShownProperties
<1>3. ASSUME pin # <<>>
      PROVE  /\ pin = <<pin[1]>> /\ pin[1] \in Post /\ pin[1].id \in Nat
             /\ pin[1].at \in Nat /\ pin[1].at # 0
             /\ ToSet(pin) = {pin[1]} /\ Last(pin) = pin[1]
  <2>1. DOMAIN pin = 1 .. 1 /\ pin[1] \in Post /\ ToSet(pin) = {pin[1]}
    BY <1>1, <1>3, ShownProperties
  <2>2. Len(pin) = 1 /\ pin = <<pin[1]>>
    BY <1>1, <2>1, LenProperties
  <2>3. \A p \in Post : p.id \in Nat /\ p.at \in Nat /\ p.at # 0
    BY WallAssumption DEF Post, Dates
  <2> QED
    BY <2>1, <2>2, <2>3 DEF Last
<1> QED
  BY <1>2, <1>3

LEMMA WallLength ==
    ASSUME TypeOK, CountInv, Sound, step \in Searches \cup {"pages"}
    PROVE  /\ total \in Nat /\ Shift \in Nat
           /\ Len(Shown) = total + Shift
           /\ pin = <<>> => Len(wall) = total + Shift /\ DOMAIN wall = 1 .. total + Shift
           /\ pin # <<>> => /\ Len(wall) = total + Shift - 1
                            /\ DOMAIN wall = 1 .. total + Shift - 1
<1>1. PICK m \in Nat, n \in Nat : m = total /\ n = Shift
  BY Numbers
<1>2. PICK k \in Nat : k = Len(wall) /\ DOMAIN wall = 1 .. k
  BY Numbers
<1>3. Len(Shown) = k + IF pin = <<>> THEN 0 ELSE 1
  BY <1>2, ShownProperties DEF TypeOK
<1>4. Len(Shown) = m + n
  BY <1>1 DEF CountInv
<1>5. (pin = <<>> => k = m + n) /\ (pin # <<>> => k = m + n - 1)
  BY <1>3, <1>4
<1>6. CASE pin = <<>>
  BY <1>1, <1>2, <1>4, <1>5, <1>6
<1>7. CASE pin # <<>>
  BY <1>1, <1>2, <1>4, <1>5, <1>7
<1> QED
  BY <1>6, <1>7

\* An answered probe tells which posts are before and which are after the bound; but
\* the pinned post says nothing of those behind it.
LEMMA ProbeTells ==
    ASSUME IInv, Sound, step \in Searches, pool = {}
    PROVE  LET mid == Mid(left, right)
           IN  /\ Probe \in Nat /\ Probe # 0
               /\ mid > 0 \/ pin = <<>> => Dated(mid, Probe)
               /\ Probe > Bound =>
                    /\ \A i \in DOMAIN wall : i > total + Shift - (mid + 1) => At(i) > Bound
                    /\ PinAfter(Bound, mid + 1)
               /\ Probe < Bound /\ (mid > 0 \/ pin = <<>>) =>
                    \A i \in DOMAIN wall : i < total - (mid - 1) => At(i) < Bound
<1> DEFINE mid == Mid(left, right)
<1>1. TypeOK /\ WallInv /\ CountInv /\ SearchInv /\ CallInv /\ GotInv
  BY DEF IInv
<1>2. mid \in Nat
  BY <1>1, SearchProperties
<1>3. DOMAIN got = {mid}
  BY <1>1 DEF CallInv, Sound, Asked
<1>4. /\ mid = 0 /\ pin # <<>> => got[mid].items = pin
      /\ mid > 0 \/ pin = <<>> =>
            got[mid].items # <<>> /\ Dated(mid, Last(got[mid].items).at)
  BY <1>1, <1>3 DEF GotInv
<1>5. got[mid].items # <<>> /\ Probe = Last(got[mid].items).at
  <2>1. got[mid].items # <<>>
    BY <1>2, <1>4
  <2> QED
    BY <1>3, <2>1 DEF Probe
<1> HIDE DEF mid
<1>6. CASE mid > 0 \/ pin = <<>>
  <2>1. PICK k \in total - mid .. total + Shift - mid : k \in DOMAIN wall /\ At(k) = Probe
    BY <1>4, <1>5, <1>6 DEF Dated
  <2>2. At(k) \in Nat /\ At(k) # 0
    BY <1>1, <2>1, WallPosts
  <2>3. Probe \in Nat /\ Probe # 0 /\ Dated(mid, Probe)
    BY <1>4, <1>5, <1>6, <2>1, <2>2
  <2>4. ASSUME Probe > Bound, NEW i \in DOMAIN wall, i > total + Shift - (mid + 1)
        PROVE  At(i) > Bound
    <3>1. k <= i
      BY <1>1, <1>2, <2>1, <2>4, Numbers
    <3>2. At(k) <= At(i) /\ At(i) \in Nat /\ Bound \in Nat
      BY <1>1, <2>1, <3>1, Sorted, Numbers
    <3> QED
      BY <2>1, <2>3, <2>4, <3>2
  <2>5. ASSUME Probe < Bound, NEW i \in DOMAIN wall, i < total - (mid - 1)
        PROVE  At(i) < Bound
    <3>1. i <= k
      BY <1>1, <1>2, <2>1, <2>5, Numbers
    <3>2. At(i) <= At(k) /\ At(i) \in Nat /\ Bound \in Nat
      BY <1>1, <2>1, <3>1, Sorted, Numbers
    <3> QED
      BY <2>1, <2>3, <2>5, <3>2
  <2>6. PinAfter(Bound, mid + 1)
    BY <1>2, <1>6 DEF PinAfter
  <2> QED
    BY <2>3, <2>4, <2>5, <2>6 DEF mid
<1>7. CASE mid = 0 /\ pin # <<>>
  <2>1. Probe = pin[1].at /\ Probe \in Nat /\ Probe # 0
    BY <1>1, <1>4, <1>5, <1>7, PinPost
  <2>2. \A i \in DOMAIN wall : ~ (i > total + Shift - (mid + 1))
    <3>1. Len(wall) = total + Shift - 1
      BY <1>1, <1>7, WallLength
    <3>2. Len(wall) \in Nat /\ DOMAIN wall = 1 .. Len(wall) /\ total \in Nat /\ Shift \in Nat
      BY <1>1, Numbers
    <3> QED
      BY <1>7, <3>1, <3>2
  <2>3. Probe > Bound => PinAfter(Bound, mid + 1)
    BY <2>1 DEF PinAfter
  <2> QED
    BY <1>7, <2>1, <2>2, <2>3 DEF mid
<1> QED
  BY <1>2, <1>6, <1>7

\* What a probe tells is what the next interval stands for.
LEMMA SearchNarrows ==
    ASSUME IInv, Sound, step \in Searches, pool = {}, ~ Hit
    PROVE  /\ \A i \in DOMAIN wall : i > total + Shift - NextLeft => At(i) > Bound
           /\ ~ Narrow \/ Mid(left, right) > 0 \/ pin = <<>> =>
                \A i \in DOMAIN wall : i < total - NextRight => At(i) < Bound
           /\ PinAfter(Bound, NextLeft)
<1>1. SearchInv /\ Probe \in Nat /\ Probe # 0 /\ Bound \in Nat
  BY ProbeTells, Numbers DEF IInv
<1>2. Probe # Bound
  BY DEF Hit, Bound
<1>3. (Narrow => Probe < Bound) /\ (~ Narrow => Probe > Bound)
  <2>1. CASE step = "start"
    BY <1>1, <1>2, <2>1 DEF Narrow, Bound
  <2>2. CASE step = "end"
    BY <1>1, <1>2, <2>2 DEF Narrow, Bound
  <2> QED
    BY <2>1, <2>2 DEF Searches
<1>4. CASE Narrow
  <2>1. NextLeft = left /\ NextRight = Mid(left, right) - 1 /\ Probe < Bound
    BY <1>3, <1>4 DEF NextLeft, NextRight
  <2>2. /\ \A i \in DOMAIN wall : i > total + Shift - left => At(i) > Bound
        /\ PinAfter(Bound, left)
    BY <1>1 DEF SearchInv
  <2>3. Mid(left, right) > 0 \/ pin = <<>> =>
            \A i \in DOMAIN wall : i < total - (Mid(left, right) - 1) => At(i) < Bound
    BY <2>1, ProbeTells
  <2> QED
    BY <1>4, <2>1, <2>2, <2>3
<1>5. CASE ~ Narrow
  <2>1. Probe > Bound
    BY <1>3, <1>5
  <2>2. NextLeft = Mid(left, right) + 1 /\ NextRight = right
    BY <1>5 DEF NextLeft, NextRight
  <2> QED
    BY <1>1, <2>1, <2>2, ProbeTells DEF SearchInv
<1> QED
  BY <1>4, <1>5

\* A search ends at a post of the bound, or between those before and after it, or at
\* the pinned post.
LEMMA SearchFinds ==
    ASSUME IInv, Sound, step \in Searches, pool = {}, Over
    PROVE  \/ Dated(Found, Bound)
           \/ /\ Found = 0 /\ pin # <<>>
              /\ \A i \in DOMAIN wall : i < total - 1 => At(i) < Bound
           \/ /\ \A i \in DOMAIN wall : i > total + Shift - Found => At(i) > Bound
              /\ \/ Found = total - 1
                 \/ \A i \in DOMAIN wall : i <= total - Found => At(i) < Bound
              /\ PinAfter(Bound, Found)
<1> DEFINE mid == Mid(left, right)
<1>1. TypeOK /\ CountInv /\ SearchInv
  BY DEF IInv
<1>2. /\ mid \in Nat /\ left <= mid /\ mid <= right
      /\ left \in Nat /\ right \in Int /\ total \in Nat /\ Shift \in Nat
      /\ right < total
  BY <1>1, SearchProperties, Numbers DEF SearchInv
<1>3. (mid = 0 => left = 0 /\ right <= 1) /\ (mid = 1 /\ right <= 1 => left = 1)
  BY <1>2 DEF Mid
<1>4. \/ Hit /\ (mid > 0 \/ pin = <<>>)
      \/ mid = 0 /\ pin # <<>> /\ (Hit \/ Narrow)
      \/ ~ Hit /\ (~ Narrow \/ mid > 0 \/ pin = <<>>)
  BY <1>2
<1>5. /\ Found = IF Hit THEN mid ELSE IF NextLeft < total THEN NextLeft ELSE NextRight
      /\ NextLeft = IF Narrow THEN left ELSE mid + 1
  BY DEF Found, NextLeft
<1>6. CASE Hit /\ (mid > 0 \/ pin = <<>>)
  <2>1. Found = mid /\ Probe = Bound
    BY <1>5, <1>6 DEF Hit, Bound
  <2> QED
    BY <1>6, <2>1, ProbeTells
<1>7. CASE mid = 0 /\ pin # <<>> /\ (Hit \/ Narrow)
  <2>1. Found = 0
    BY <1>2, <1>3, <1>5, <1>7
  <2>2. \A i \in DOMAIN wall : i < total - 1 => i < total - right
    BY <1>1, <1>2, <1>3, <1>7, Numbers
  <2>3. \A i \in DOMAIN wall : i < total - 1 => At(i) < Bound
    BY <1>1, <2>2 DEF SearchInv
  <2> QED
    BY <1>7, <2>1, <2>3
<1>8. CASE ~ Hit /\ (~ Narrow \/ mid > 0 \/ pin = <<>>)
  <2>1. /\ NextLeft = NextRight + 1 /\ NextRight \in Int
        /\ \/ Found = NextLeft /\ NextLeft < total
           \/ Found = total - 1 /\ NextLeft = total
    BY <1>1, <1>8, SearchProperties
  <2>2. /\ \A i \in DOMAIN wall : i > total + Shift - NextLeft => At(i) > Bound
        /\ \A i \in DOMAIN wall : i < total - NextRight => At(i) < Bound
        /\ PinAfter(Bound, NextLeft)
    BY <1>8, SearchNarrows
  <2>3. \A i \in DOMAIN wall : i \in Nat
    BY <1>1, Numbers
  <2>4. CASE Found = NextLeft
    <3>1. \A i \in DOMAIN wall : i <= total - Found => i < total - NextRight
      BY <1>2, <2>1, <2>3, <2>4
    <3> QED
      BY <2>2, <2>4, <3>1
  <2>5. CASE Found = total - 1 /\ NextLeft = total
    <3>1. \A i \in DOMAIN wall : i > total + Shift - Found => i > total + Shift - NextLeft
      BY <1>2, <2>3, <2>5
    <3>2. PinAfter(Bound, Found)
      <4> SUFFICES ASSUME Found = 1 PROVE PinAfter(Bound, left)
        BY <1>2, <1>3, <1>5, <2>5 DEF PinAfter
      <4> QED
        BY <1>1 DEF SearchInv
    <3> QED
      BY <2>2, <2>5, <3>1, <3>2
  <2> QED
    BY <2>1, <2>4, <2>5
<1> QED
  BY <1>4, <1>6, <1>7, <1>8

------------------------------------------------------------------------------
(* The pool.                                                               *)

Rest == /\ WallInv /\ CountInv /\ SearchInv /\ StartInv /\ CallInv /\ GotInv
        /\ OneExecuteInv /\ RangeAnswered /\ OneNewPostAbsorbed

\* A step of the pool changes nothing that the client has found out.
LEMMA PoolFrame ==
    ASSUME IInv, pool # {}, ~ dropped' => ~ dropped, ClientUnchanged, UNCHANGED step
    PROVE  /\ WallInv' /\ CountInv' /\ SearchInv' /\ StartInv'
           /\ RangeAnswered' /\ OneNewPostAbsorbed'
           /\ Sound' => Sound
           /\ \A o \in Nat : IsEnd(o)' = IsEnd(o)
<1>1. /\ WallInv /\ CountInv /\ SearchInv /\ StartInv
      /\ UNCHANGED <<wall, pin, lastId, range, total, left, right, startIndex, counted, deleted>>
  BY DEF IInv, ClientUnchanged, vk, search
<1>2. step \notin {"done", "nothing", "failed"}
  BY DEF IInv, CountInv
<1>3. Sound' => Sound
  BY <1>1 DEF Sound
<1>4. UNCHANGED <<Shift, Bound>> /\ \A i : At(i)' = At(i)
  BY <1>1 DEF Shift, Bound, At
<1>6. \A o \in Nat : IsEnd(o)' = IsEnd(o) /\ IsStart(o)' = IsStart(o)
  BY <1>1, <1>4 DEF IsEnd, IsStart, Dated, PinAfter
<1>7. WallInv'
  BY <1>1, <1>4 DEF WallInv
<1>8. CountInv'
  BY <1>1, <1>2, <1>3, <1>4 DEF CountInv, Shown
<1>9. SearchInv'
  BY <1>1, <1>3, <1>4 DEF SearchInv, PinAfter
<1>10. StartInv'
  <2>1. startIndex \in Nat
    BY DEF IInv, TypeOK
  <2> QED
    BY <1>1, <1>3, <1>6, <2>1 DEF StartInv
<1>11. RangeAnswered' /\ OneNewPostAbsorbed'
  BY <1>2 DEF RangeAnswered, OneNewPostAbsorbed
<1> QED
  BY <1>3, <1>6, <1>7, <1>8, <1>9, <1>10, <1>11

\* As long as the same calls are answered or will be, and no answer changes.
LEMMA CallsKept ==
    ASSUME IInv, pool # {}, ~ dropped' => ~ dropped, ClientUnchanged, UNCHANGED step,
           ~ dropped' => Asked' = Asked
    PROVE  CallInv'
<1>1. /\ CallInv
      /\ UNCHANGED <<left, right, startIndex, total, deleted>>
  BY DEF IInv, ClientUnchanged, search
<1>2. \A o \in Nat : IsEnd(o)' = IsEnd(o)
  BY PoolFrame
<1>3. total \in Nat /\ \A e \in 0 .. total - 1 : e \in Nat
  BY DEF IInv, TypeOK
<1> QED
  BY <1>1, <1>2, <1>3 DEF CallInv

LEMMA GotKept ==
    ASSUME IInv, pool # {}, ~ dropped' => ~ dropped, ClientUnchanged, UNCHANGED <<step, got>>
    PROVE  GotInv'
<1>1. GotInv /\ UNCHANGED <<wall, pin, lastId, counted, deleted>>
  BY DEF IInv, ClientUnchanged, vk
<1>2. Sound' => Sound
  BY PoolFrame
<1>3. UNCHANGED <<Shift, total>> /\ \A i : At(i)' = At(i)
  BY <1>1 DEF Shift, At, ClientUnchanged, search
<1> QED
  BY <1>1, <1>2, <1>3 DEF GotInv, Dated, Quiet, WallGet, Shown

LEMMA ExecuteLostKeeps ==
    ASSUME IInv, NEW chunk \in pool, ExecuteLost(chunk) PROVE Rest'
<1>1. pool # {} /\ dropped' = TRUE /\ ClientUnchanged /\ UNCHANGED step
  BY DEF ExecuteLost
<1>2. CallInv' /\ GotInv' /\ OneExecuteInv'
  BY <1>1 DEF CallInv, GotInv, OneExecuteInv, OneNewPost, Sound
<1> QED
  BY <1>1, <1>2, PoolFrame DEF Rest

\* What OneExecuteInv says while the pages are still to be asked for.
LEMMA OneChunk ==
    ASSUME IInv, pool # {}, ~ dropped' => ~ dropped, ~ split' => ~ split, ClientUnchanged,
           UNCHANGED step, step = "pages", OneNewPost'
    PROVE  /\ DOMAIN got = {}
           /\ OneNewPost
           /\ \E chunk \in pool :
               /\ pool = {chunk}
               /\ chunk.size = CallsPerExecute
               /\ Len(chunk.calls) \in 1 .. CallsPerExecute
<1>1. OneExecuteInv
  BY DEF IInv
<1>2. OneNewPost
  BY DEF OneNewPost, Sound, ClientUnchanged, vk, search
<1> QED
  BY <1>1, <1>2 DEF OneExecuteInv

LEMMA ExecuteFailKeeps ==
    ASSUME IInv, NEW chunk \in pool, ExecuteFail(chunk) PROVE Rest'
<1>1. PICK error \in Errors :
        pool' = (pool \ {chunk}) \cup {[chunk EXCEPT !.error = error]}
  BY DEF ExecuteFail
<1>2. /\ pool # {} /\ ClientUnchanged /\ UNCHANGED <<step, got, dropped, split>>
  BY DEF ExecuteFail
<1> DEFINE failed == [chunk EXCEPT !.error = error]
<1>3. failed.calls = chunk.calls /\ failed.size = chunk.size
  <2>1. chunk \in Chunk
    BY DEF IInv, TypeOK
  <2> QED
    BY <2>1 DEF Chunk
<1> HIDE DEF failed
<1>4. pool' = (pool \ {chunk}) \cup {failed}
  BY <1>1 DEF failed
<1>5. Asked' = Asked
  BY <1>2, <1>3, <1>4 DEF Asked
<1>6. ASSUME step = "pages", OneNewPost'
      PROVE  /\ DOMAIN got' = {}
             /\ \E c \in pool' : /\ pool' = {c} /\ c.size = CallsPerExecute
                                 /\ Len(c.calls) \in 1 .. CallsPerExecute
  <2>1. /\ DOMAIN got = {}
        /\ pool = {chunk} /\ chunk.size = CallsPerExecute
        /\ Len(chunk.calls) \in 1 .. CallsPerExecute
    BY <1>2, <1>6, OneChunk
  <2>2. pool' = {failed}
    BY <1>4, <2>1
  <2> QED
    BY <1>2, <1>3, <2>1, <2>2
<1>7. OneExecuteInv'
  BY <1>2, <1>6 DEF OneExecuteInv
<1> QED
  BY <1>2, <1>5, <1>7, PoolFrame, CallsKept, GotKept DEF Rest

\* Cutting the chunks of a round again asks for the same calls once more.
LEMMA RetryKeeps == ASSUME IInv, Retry PROVE Rest'
<1>1. /\ pool # {} /\ ClientUnchanged /\ UNCHANGED <<step, got, dropped>>
      /\ pool' = UNION {Pieces(chunk.calls, Again(chunk)) : chunk \in pool}
      /\ ~ split' => ~ split /\ \A chunk \in pool : chunk.error # "too large"
  BY DEF Retry, RoundOver
<1>2. \A chunk \in pool : chunk.calls \in Seq(Nat) /\ Again(chunk) \in Nat \ {0}
  <2> SUFFICES ASSUME NEW chunk \in pool
               PROVE  chunk.calls \in Seq(Nat) /\ Again(chunk) \in Nat \ {0}
    OBVIOUS
  <2>1. chunk.calls \in Seq(Nat) /\ chunk.size \in Nat
    BY DEF IInv, TypeOK, Chunk
  <2>2. Again(chunk) # 0
    BY DEF Retry, Hopeless
  <2>3. chunk.size \div 2 \in Nat
    BY <2>1
  <2> QED
    BY <2>1, <2>2, <2>3 DEF Again
<1>3. UNION {ToSet(piece.calls) : piece \in pool'} = UNION {ToSet(chunk.calls) : chunk \in pool}
  <2> DEFINE Cut(chunk) == Pieces(chunk.calls, Again(chunk))
  <2>1. \A chunk \in pool : UNION {ToSet(piece.calls) : piece \in Cut(chunk)} = ToSet(chunk.calls)
    BY <1>2, PiecesCover
  <2>2. pool' = UNION {Cut(chunk) : chunk \in pool}
    BY <1>1
  <2> HIDE DEF Cut
  <2>3. ASSUME NEW piece \in pool', NEW c \in ToSet(piece.calls)
        PROVE  \E chunk \in pool : c \in ToSet(chunk.calls)
    <3>1. PICK chunk \in pool : piece \in Cut(chunk)
      BY <2>2
    <3>2. c \in UNION {ToSet(p.calls) : p \in Cut(chunk)}
      BY <2>3, <3>1
    <3> QED
      BY <2>1, <3>2
  <2>4. ASSUME NEW chunk \in pool, NEW c \in ToSet(chunk.calls)
        PROVE  \E piece \in pool' : c \in ToSet(piece.calls)
    <3>1. PICK piece \in Cut(chunk) : c \in ToSet(piece.calls)
      BY <2>1, <2>4
    <3> QED
      BY <2>2, <3>1
  <2> QED
    BY <2>3, <2>4
<1>4. Asked' = Asked
  BY <1>1, <1>3 DEF Asked
<1>5. ASSUME step = "pages", OneNewPost'
      PROVE  /\ DOMAIN got' = {}
             /\ \E c \in pool' : /\ pool' = {c} /\ c.size = CallsPerExecute
                                 /\ Len(c.calls) \in 1 .. CallsPerExecute
  <2>1. ~ split'
    BY <1>5 DEF OneNewPost
  <2>2. PICK chunk \in pool : /\ DOMAIN got = {} /\ pool = {chunk}
                              /\ chunk.size = CallsPerExecute
                              /\ Len(chunk.calls) \in 1 .. CallsPerExecute
    BY <1>1, <1>5, <2>1, OneChunk
  <2>3. Again(chunk) = CallsPerExecute
    BY <1>1, <2>1, <2>2 DEF Again
  <2>4. pool' = Pieces(chunk.calls, CallsPerExecute)
    BY <1>1, <2>2, <2>3
  <2>5. pool' = {[calls |-> chunk.calls, size |-> CallsPerExecute, error |-> "none"]}
    BY <1>2, <2>2, <2>3, <2>4, OnePiece
  <2> DEFINE c == [calls |-> chunk.calls, size |-> CallsPerExecute, error |-> "none"]
  <2>6. c.size = CallsPerExecute /\ Len(c.calls) \in 1 .. CallsPerExecute
    BY <2>2
  <2> HIDE DEF c
  <2>7. pool' = {c}
    BY <2>5 DEF c
  <2> QED
    BY <1>1, <2>2, <2>6, <2>7
<1>6. OneExecuteInv'
  BY <1>1, <1>5 DEF OneExecuteInv
<1> QED
  BY <1>1, <1>4, <1>6, PoolFrame, CallsKept, GotKept DEF Rest

\* A fetch that ends without an answer is owed nothing.
LEMMA Ended ==
    ASSUME IInv, UNCHANGED <<vk, range>>, step' \in {"nothing", "failed"}, pool' = {}
    PROVE  Rest'
<1>1. WallInv'
  BY DEF IInv, WallInv, At, vk
<1>2. CountInv' /\ SearchInv' /\ StartInv'
  BY DEF CountInv, SearchInv, StartInv, Counting, Searches
<1>3. CallInv' /\ GotInv' /\ OneExecuteInv'
  BY DEF CallInv, GotInv, OneExecuteInv, Counting, Searches
<1>4. RangeAnswered' /\ OneNewPostAbsorbed'
  BY DEF RangeAnswered, OneNewPostAbsorbed
<1> QED
  BY <1>1, <1>2, <1>3, <1>4 DEF Rest

LEMMA PoolFailKeeps == ASSUME IInv, PoolFail PROVE Rest'
BY Ended DEF PoolFail, ClientUnchanged

\* With one new post at most, and no post at the bounds, what is owed lies between
\* the offsets the two searches have returned.
LEMMA OwedInReach ==
    ASSUME IInv, step = "pages", OneNewPost, NEW e \in 0 .. total - 1, IsEnd(e),
           NEW i \in DOMAIN wall, wall[i] \in Owed
    PROVE  Len(wall) - i \in Nat /\ e <= Len(wall) - i /\ Len(wall) - i <= startIndex
<1>1. TypeOK /\ WallInv /\ CountInv /\ StartInv /\ Sound
  BY DEF IInv, OneNewPost
<1>2. /\ Len(wall) \in Nat /\ DOMAIN wall = 1 .. Len(wall) /\ Shift \in Nat
      /\ total \in Nat /\ startIndex \in Nat /\ e \in Nat
  BY <1>1, Numbers
<1>3. Len(wall) = total + Shift /\ i <= total
  BY <1>1, WallLength DEF CountInv, Owed, Searches, OneNewPost
<1>4. range.from \in Nat /\ range.to \in Nat /\ At(i) \in Nat
      /\ range.from <= At(i) /\ At(i) <= range.to
  BY <1>1, Numbers, WallPosts DEF Owed, At
<1>5. \A k \in DOMAIN wall : At(k) # range.from /\ At(k) # range.to
  BY DEF OneNewPost, ToSet, At
<1>6. ~ Dated(e, range.to) /\ ~ Dated(startIndex, range.from)
  BY <1>5 DEF Dated
<1>7. ~ (i > total + Shift - e)
  BY <1>4, <1>6 DEF IsEnd
<1>8. e <= Len(wall) - i
  BY <1>2, <1>3, <1>7
<1>9. Shift <= 1
  BY <1>1, <1>2 DEF Shift, OneNewPost, TypeOK
<1>10. IsStart(startIndex)
  BY <1>1 DEF StartInv
<1>11. CASE startIndex = total - 1
  <2>1. PICK k \in DOMAIN wall : At(k) < range.from
    BY DEF OneNewPost, ToSet, At
  <2>2. 1 \in DOMAIN wall /\ 1 <= k
    BY <1>2
  <2>3. At(1) <= At(k) /\ At(1) \in Nat /\ At(k) \in Nat
    BY <1>1, <2>1, <2>2, Sorted
  <2>4. i # 1
    BY <1>4, <2>1, <2>3
  <2> QED
    BY <1>2, <1>3, <1>8, <1>9, <1>11, <2>4
<1>12. CASE \A k \in DOMAIN wall : k <= total - startIndex => At(k) < range.from
  <2>1. ~ (i <= total - startIndex)
    BY <1>4, <1>12
  <2> QED
    BY <1>2, <1>3, <1>8, <1>9, <2>1
<1>13. pin = <<>>
  BY DEF OneNewPost
<1> QED
  BY <1>6, <1>10, <1>11, <1>12, <1>13 DEF IsStart

LEMMA ExecuteKeeps ==
    ASSUME IInv, NEW chunk \in pool, Execute(chunk) PROVE Rest'
<1> DEFINE size == IF step = "pages" THEN PageSize ELSE 1
<1>1. PICK refused \in SUBSET ToSet(chunk.calls) :
        /\ got' = [o \in DOMAIN got \cup (ToSet(chunk.calls) \ refused) |->
                    IF o \in DOMAIN got THEN got[o] ELSE WallGet(o, size)]
        /\ dropped' = (dropped \/ refused # {})
  BY DEF Execute
<1>2. /\ pool # {} /\ ClientUnchanged /\ UNCHANGED <<step, split>>
      /\ pool' = pool \ {chunk}
  BY DEF Execute
<1>3. ~ dropped' => ~ dropped /\ refused = {}
  BY <1>1
<1>4. ASSUME ~ dropped'
      PROVE  /\ DOMAIN got' = DOMAIN got \cup ToSet(chunk.calls)
             /\ \A o \in DOMAIN got : got'[o] = got[o]
             /\ \A o \in DOMAIN got' \ DOMAIN got : got'[o] = WallGet(o, size)
  BY <1>1, <1>3, <1>4
<1>5. /\ TypeOK /\ CountInv /\ SearchInv /\ CallInv /\ GotInv
      /\ UNCHANGED <<wall, pin, lastId, range, total, left, right, startIndex, counted, deleted>>
  BY <1>2 DEF IInv, ClientUnchanged, vk, search
<1>6. Sound' => Sound
  BY <1>2, <1>3, PoolFrame
<1>7. ~ dropped' => Asked' = Asked
  BY <1>2, <1>4 DEF Asked
<1>8. ToSet(chunk.calls) \subseteq Nat /\ ToSet(chunk.calls) \subseteq Asked
  <2>1. chunk.calls \in Seq(Nat)
    BY <1>5 DEF TypeOK, Chunk
  <2>2. ToSet(chunk.calls) \subseteq Nat
    BY <2>1, ElementOfSeq, LenProperties DEF ToSet
  <2> QED
    BY <2>2 DEF Asked
<1>9. GotInv'
  <2>0. /\ \A o : WallGet(o, PageSize)' = WallGet(o, PageSize)
        /\ Quiet' = Quiet /\ Shift' = Shift /\ Shown' = Shown
        /\ \A i : At(i)' = At(i)
    BY <1>5 DEF WallGet, Quiet, Shift, At, Shown
  <2> DEFINE Tells(o, items) ==
                /\ o = 0 /\ pin # <<>> => items = pin
                /\ o > 0 \/ pin = <<>> => items # <<>> /\ Dated(o, Last(items).at)
  <2> SUFFICES ASSUME Sound'
               PROVE  /\ step = "count" => \A o \in DOMAIN got' : got'[o].count = Len(Shown)
                      /\ step \in Searches => \A o \in DOMAIN got' : Tells(o, got'[o].items)
                      /\ step = "pages" /\ Quiet =>
                           \A o \in DOMAIN got' : got'[o] = WallGet(o, PageSize)
    BY <1>2, <1>5, <2>0 DEF GotInv, Dated
  <2>1. Sound /\ ~ dropped'
    BY <1>6 DEF Sound
  <2>2. \A o \in DOMAIN got' \ DOMAIN got : o \in ToSet(chunk.calls)
    BY <1>4, <2>1
  <2>3. Shown \in Seq(Post) /\ size \in Nat
    BY <1>5, WallAssumption, ShownProperties DEF TypeOK
  <2>4. \A o \in DOMAIN got' \ DOMAIN got : got'[o].count = Len(Shown)
    BY <1>4, <1>8, <2>1, <2>2, <2>3, WallGetProperties
  <2>5. ASSUME step \in Searches, NEW o \in DOMAIN got' \ DOMAIN got
        PROVE  Tells(o, got'[o].items)
    <3>1. o = Mid(left, right) /\ ~ dropped
      BY <1>5, <1>8, <2>1, <2>2, <2>5 DEF CallInv, Sound
    <3>2. o \in Nat /\ o < total
      BY <1>5, <2>5, <3>1, SearchProperties
    <3>3. PICK n \in Nat : n = Len(Shown)
      BY <2>3, LenProperties
    <3>4. /\ n = total + Shift /\ Shift \in Nat /\ total \in Nat
          /\ pin = <<>> => DOMAIN wall = 1 .. n
          /\ pin # <<>> => DOMAIN wall = 1 .. n - 1
      BY <1>5, <2>1, <2>5, <3>3, WallLength
    <3>5. o < n
      BY <3>2, <3>4
    <3>6. got'[o] = WallGet(o, 1)
      BY <1>4, <2>1, <2>5 DEF Searches
    <3>7. /\ got'[o].items # <<>> /\ got'[o].items = <<Shown[n - o]>>
          /\ Last(got'[o].items) = Shown[n - o]
      BY <2>3, <3>2, <3>3, <3>5, <3>6, ProbeAnswer
    <3>8. CASE o = 0 /\ pin # <<>>
      <4>1. n - o = n
        BY <3>8
      <4>2. Shown[n] = pin[1] /\ pin = <<pin[1]>>
        BY <1>5, <3>3, <3>8, ShownProperties, PinPost DEF TypeOK
      <4> QED
        BY <3>7, <3>8, <4>1, <4>2
    <3>9. CASE o > 0 \/ pin = <<>>
      <4>1. n - o \in DOMAIN wall /\ n - o \in total - o .. total + Shift - o
        BY <3>2, <3>4, <3>5, <3>9
      <4>2. Shown[n - o] = wall[n - o]
        BY <1>5, <4>1, ShownProperties DEF TypeOK
      <4>3. Last(got'[o].items).at = At(n - o)
        BY <3>7, <4>2 DEF At
      <4>4. Dated(o, At(n - o))
        BY <4>1 DEF Dated
      <4> QED
        BY <3>7, <3>9, <4>3, <4>4
    <3> QED
      BY <3>2, <3>8, <3>9
  <2>6. ASSUME step \in Searches, NEW o \in DOMAIN got
        PROVE  Tells(o, got'[o].items)
    <3>1. got'[o] = got[o]
      BY <1>4, <2>1, <2>6
    <3>2. Tells(o, got[o].items)
      BY <1>5, <2>1, <2>6 DEF GotInv
    <3> QED
      BY <3>1, <3>2
  <2>7. ASSUME step = "pages", Quiet, NEW o \in DOMAIN got'
        PROVE  got'[o] = WallGet(o, PageSize)
    BY <1>4, <1>5, <2>1, <2>7 DEF GotInv
  <2> QED
    BY <1>4, <1>5, <2>1, <2>4, <2>5, <2>6, <2>7 DEF GotInv
<1>10. OneExecuteInv'
  <2> SUFFICES ASSUME step = "pages", OneNewPost'
               PROVE  /\ pool' = {}
                      /\ Owed' \subseteq UNION {ToSet(got'[o].items) : o \in DOMAIN got'}
    BY <1>2 DEF OneExecuteInv
  <2>1. ~ dropped' /\ OneNewPost /\ pool = {chunk} /\ DOMAIN got = {}
    <3>1. ~ dropped'
      BY DEF OneNewPost, Sound
    <3> QED
      BY <1>2, <1>3, <3>1, OneChunk
  <2>2. PICK e \in 0 .. total - 1 : Asked = ToSet(Offsets(startIndex, e)) /\ IsEnd(e)
    BY <1>5, <2>1 DEF CallInv, OneNewPost, Sound
  <2>3. DOMAIN got' = ToSet(Offsets(startIndex, e))
    BY <1>4, <2>1, <2>2 DEF Asked
  <2>4. Owed' = Owed
    BY <1>5 DEF Owed, Standing
  <2>5. ASSUME NEW p \in Owed
        PROVE  \E o \in DOMAIN got' : p \in ToSet(got'[o].items)
    <3>1. PICK i \in DOMAIN wall : p = wall[i]
      <4>1. pin = <<>> /\ p \in Standing
        BY <2>1 DEF OneNewPost, Owed
      <4>2. p \in ToSet(wall)
        BY <1>5, <4>1, PinPost DEF Standing
      <4> QED
        BY <4>2 DEF ToSet
    <3>2. Len(wall) - i \in Nat /\ e <= Len(wall) - i /\ Len(wall) - i <= startIndex
      BY <2>1, <2>2, <3>1, OwedInReach
    <3>3. startIndex \in Nat /\ e \in Nat
      BY <1>5 DEF TypeOK
    <3>4. PICK a \in DOMAIN got' : a <= Len(wall) - i /\ Len(wall) - i < a + PageSize
      BY <2>3, <3>2, <3>3, OffsetsProperties
    <3>5. got'[a] = WallGet(a, PageSize) /\ a \in Nat
      BY <1>4, <1>8, <2>1, <3>4
    <3>6. /\ Shown \in Seq(Post) /\ PageSize \in Nat /\ Len(Shown) = Len(wall)
          /\ i \in DOMAIN Shown /\ Shown[i] = p
      BY <1>5, <2>1, <3>1, WallAssumption, ShownProperties DEF TypeOK, OneNewPost
    <3> QED
      BY <3>4, <3>5, <3>6, WallGetProperties
  <2> QED
    BY <1>2, <2>1, <2>4, <2>5
<1> QED
  BY <1>2, <1>3, <1>7, <1>9, <1>10, PoolFrame, CallsKept DEF Rest

------------------------------------------------------------------------------
(* The client.                                                             *)

LEMMA CountingKeeps ==
    ASSUME IInv, UNCHANGED <<vk, range, deleted>>, step \in Counting, step' \in Counting,
           Ask(<< 0 >>)
    PROVE  Rest'
<1>1. /\ WallInv /\ CountInv /\ UNCHANGED <<wall, pin, lastId, range, deleted>>
  BY DEF IInv, vk
<1>2. DOMAIN got' = {} /\ Asked' = {0}
  <2>1. <<0>> \in Seq(Nat) /\ ToSet(<<0>>) = {0}
    BY OneCall
  <2> QED
    BY <2>1, AskProperties
<1>3. step' \notin Searches \cup {"pages", "done", "nothing", "failed"}
  BY DEF Counting, Searches
<1>4. WallInv'
  BY <1>1 DEF WallInv, At
<1>5. CountInv' /\ SearchInv' /\ StartInv'
  BY <1>1, <1>3 DEF CountInv, SearchInv, StartInv, Searches
<1>6. CallInv' /\ GotInv' /\ OneExecuteInv'
  BY <1>2, <1>3 DEF CallInv, GotInv, OneExecuteInv
<1>7. RangeAnswered' /\ OneNewPostAbsorbed'
  BY <1>3 DEF RangeAnswered, OneNewPostAbsorbed
<1> QED
  BY <1>4, <1>5, <1>6, <1>7 DEF Rest

LEMMA ResolvedKeeps == ASSUME IInv, Resolved PROVE Rest'
<1>1. step = "resolve" /\ pool = {} /\ UNCHANGED <<vk, range, deleted>>
  BY DEF Resolved, Answered, history
<1>2. CASE FindNothing
  BY <1>1, <1>2, Ended DEF FindNothing, calls
<1>3. CASE step' = "info" /\ Ask(<<0>>)
  BY <1>1, <1>3, CountingKeeps DEF Counting
<1> QED
  BY <1>2, <1>3 DEF Resolved

LEMMA InformedKeeps == ASSUME IInv, Informed PROVE Rest'
<1>1. step = "info" /\ pool = {} /\ UNCHANGED <<vk, range, deleted>>
  BY DEF Informed, Answered
<1>2. CASE FindNothing
  BY <1>1, <1>2, Ended DEF FindNothing, calls
<1>3. CASE step' = "count" /\ Ask(<<0>>)
  BY <1>1, <1>3, CountingKeeps DEF Counting
<1> QED
  BY <1>2, <1>3 DEF Informed

\* The searches begin with the whole wall, of which they know nothing.
LEMMA SearchBegins ==
    ASSUME IInv, UNCHANGED <<vk, range>>, NEW count \in Nat, count > 0, total' = count,
           NEW s \in Searches, SearchFor(s, count),
           Shift' \in Nat,
           Sound' => /\ Len(Shown) = total' + Shift'
                     /\ \A i \in DOMAIN wall : wall[i].id <= counted' => i <= total',
           s = "end" => startIndex' < total' /\ (Sound' => IsStart(startIndex)')
    PROVE  Rest'
<1>1. /\ TypeOK /\ WallInv /\ UNCHANGED <<wall, pin, lastId, range>>
      /\ Len(Shown) \in Nat /\ \A i \in DOMAIN wall : i \in Nat /\ 1 <= i /\ i <= Len(Shown)
  <2>1. TypeOK /\ WallInv /\ UNCHANGED <<wall, pin, lastId, range>>
    BY DEF IInv, vk
  <2>2. PICK n \in Nat : n = Len(Shown)
    BY <2>1, ShownProperties DEF TypeOK
  <2>3. DOMAIN Shown = 1 .. n /\ \A i \in DOMAIN wall : i \in DOMAIN Shown
    BY <2>1, <2>2, ShownProperties, LenProperties DEF TypeOK
  <2> QED
    BY <2>1, <2>2, <2>3
<1>2. step' = s /\ left' = 0 /\ right' = count - 1 /\ Ask(<<Mid(0, count - 1)>>)
  BY DEF SearchFor
<1>3. 0 <= count - 1 /\ count - 1 < count /\ count - 1 \in Int
  OBVIOUS
<1>4. DOMAIN got' = {} /\ Asked' = {Mid(left', right')}
  <2>1. Mid(0, count - 1) \in Nat
    BY <1>3, MidBetween
  <2>2. <<Mid(0, count - 1)>> \in Seq(Nat) /\ ToSet(<<Mid(0, count - 1)>>) = {Mid(0, count - 1)}
    BY <2>1, OneCall
  <2> QED
    BY <1>2, <2>2, AskProperties
<1>5. step' \in Searches /\ step' \notin Counting \cup {"pages", "done", "nothing", "failed"}
  BY <1>2 DEF Searches, Counting
<1>6. WallInv'
  BY <1>1 DEF WallInv, At
<1>7. CountInv'
  BY <1>1, <1>5 DEF CountInv, Shown
<1>8. SearchInv'
  <2>1. Sound' => /\ \A i \in DOMAIN wall : ~ (i > total' + Shift' - left')
                  /\ \A i \in DOMAIN wall : ~ (i < total' - right')
    BY <1>1, <1>2
  <2> QED
    BY <1>1, <1>2, <1>3, <2>1 DEF SearchInv, PinAfter
<1>9. StartInv'
  BY <1>2, <1>5 DEF StartInv, Searches
<1>10. CallInv' /\ GotInv' /\ OneExecuteInv'
  <2>1. Mid(left, right)' = Mid(left', right')
    BY DEF Mid
  <2> QED
    BY <1>4, <1>5, <2>1 DEF CallInv, GotInv, OneExecuteInv
<1>11. RangeAnswered' /\ OneNewPostAbsorbed'
  BY <1>5 DEF RangeAnswered, OneNewPostAbsorbed
<1> QED
  BY <1>6, <1>7, <1>8, <1>9, <1>10, <1>11 DEF Rest

LEMMA CountedKeeps == ASSUME IInv, Counted PROVE Rest'
<1>1. /\ TypeOK /\ WallInv /\ CountInv /\ CallInv /\ GotInv
      /\ step = "count" /\ pool = {} /\ UNCHANGED <<vk, wall, pin, lastId, range, dropped>>
      /\ counted' = lastId /\ deleted' = 0
  BY DEF IInv, Counted, Answered, vk
<1>1a. PICK n \in Nat, m \in Nat : /\ n = Len(Shown) /\ m = Len(wall) /\ DOMAIN wall = 1 .. m
                                 /\ n = m + IF pin = <<>> THEN 0 ELSE 1
  BY <1>1, ShownProperties, LenProperties DEF TypeOK
<1>2. Count \in Nat
  BY <1>1 DEF Count, TypeOK
<1>3. ~ dropped => Count = n
  <2> SUFFICES ASSUME ~ dropped PROVE Count = n
    OBVIOUS
  <2>1. Sound
    BY <1>1 DEF Sound, CountInv, Counting
  <2>2. 0 \in DOMAIN got
    BY <1>1 DEF CallInv, Asked, Counting
  <2> QED
    BY <1>1a, <1>1, <2>1, <2>2 DEF GotInv, Count
<1>4. CASE Count = 0
  <2>1. step' = "done" /\ answer' = {} /\ pool' = {}
    BY <1>1, <1>4 DEF Counted, Finish, calls
  <2>2. ~ dropped' => Owed' = {}
    <3> SUFFICES ASSUME ~ dropped PROVE Owed' = {}
      BY <1>1
    <3>1. m = 0 /\ pin = <<>>
      BY <1>1a, <1>3, <1>4
    <3>2. ToSet(wall) = {} /\ ToSet(pin) = {}
      BY <1>1a, <1>1, <3>1, PinPost DEF ToSet
    <3> QED
      BY <1>1, <3>2 DEF Owed, Standing
  <2>3. RangeAnswered' /\ OneNewPostAbsorbed'
    BY <2>2 DEF RangeAnswered, OneNewPostAbsorbed, Missing
  <2>4. WallInv'
    BY <1>1 DEF WallInv, At
  <2>5. CountInv' /\ SearchInv' /\ StartInv' /\ CallInv' /\ GotInv' /\ OneExecuteInv'
    BY <2>1 DEF CountInv, SearchInv, StartInv, CallInv, GotInv, OneExecuteInv, Counting,
                Searches
  <2> QED
    BY <2>3, <2>4, <2>5 DEF Rest
<1>5. CASE Count # 0
  <2>1. total' = Count /\ SearchFor("start", Count)
    BY <1>5 DEF Counted
  <2>2. Shift' = 0
    BY <1>1 DEF Shift, TypeOK
  <2>3. Sound' => /\ Len(Shown) = total' + Shift'
                  /\ \A i \in DOMAIN wall : wall[i].id <= counted' => i <= total'
    <3>1. Sound' => ~ dropped
      BY <1>1 DEF Sound
    <3>2. ~ dropped => total' = n
      BY <1>3, <2>1
    <3>3. \A i \in DOMAIN wall : i <= n
      BY <1>1a
    <3> QED
      BY <1>1a, <2>2, <3>1, <3>2, <3>3
  <2>4. "start" \in Searches /\ "start" # "end"
    BY DEF Searches
  <2>5. Count > 0 /\ Shift' \in Nat
    BY <1>2, <1>5, <2>2
  <2> QED
    BY <1>1, <1>2, <2>1, <2>3, <2>4, <2>5, SearchBegins
<1> QED
  BY <1>4, <1>5

\* A step of a search goes on with what the probe has told.
LEMMA SearchOnKeeps == ASSUME IInv, SearchOn PROVE Rest'
<1>1. /\ TypeOK /\ WallInv /\ CountInv /\ SearchInv /\ StartInv
      /\ step \in Searches /\ pool = {} /\ ~ Over
      /\ UNCHANGED <<wall, pin, lastId, range, step, total, startIndex, counted, deleted, dropped>>
      /\ left' = NextLeft /\ right' = NextRight /\ Ask(<<Mid(NextLeft, NextRight)>>)
  BY DEF IInv, SearchOn, vk, history
<1>2. /\ NextLeft \in Nat /\ NextRight \in Int /\ NextRight < total /\ NextLeft <= NextRight
  BY <1>1, SearchProperties DEF Over
<1>3. DOMAIN got' = {} /\ Asked' = {Mid(left, right)'}
  <2>1. Mid(NextLeft, NextRight) \in Nat
    BY <1>2, MidBetween
  <2>2. /\ <<Mid(NextLeft, NextRight)>> \in Seq(Nat)
        /\ ToSet(<<Mid(NextLeft, NextRight)>>) = {Mid(NextLeft, NextRight)}
    BY <2>1, OneCall
  <2>3. Mid(left, right)' = Mid(NextLeft, NextRight)
    BY <1>1 DEF Mid
  <2> QED
    BY <1>1, <2>2, <2>3, AskProperties
<1>4. step \notin Counting \cup {"pages", "done", "nothing", "failed"}
  BY <1>1 DEF Searches, Counting
<1>5. /\ Shift' = Shift /\ Bound' = Bound /\ Sound' = Sound
      /\ \A i : At(i)' = At(i)
  BY <1>1 DEF Shift, Bound, Sound, At
<1>6. WallInv'
  BY <1>1 DEF WallInv, At
<1>7. CountInv'
  BY <1>1, <1>4, <1>5 DEF CountInv, Shown
<1>8. SearchInv'
  <2>1. Sound => /\ \A i \in DOMAIN wall : i > total + Shift - NextLeft => At(i) > Bound
                 /\ \A i \in DOMAIN wall : i < total - NextRight => At(i) < Bound
                 /\ PinAfter(Bound, NextLeft)
    <3>1. Mid(left, right) > 0 \/ ~ Narrow
      <4>1. Mid(left, right) \in Nat
        BY <1>1, SearchProperties
      <4> QED
        BY <1>2, <4>1 DEF NextRight
    <3> QED
      BY <1>1, <3>1, SearchNarrows DEF Over
  <2>2. PinAfter(Bound, left)' <=> PinAfter(Bound, NextLeft)
    BY <1>1, <1>5 DEF PinAfter
  <2> QED
    BY <1>1, <1>2, <1>5, <2>1, <2>2 DEF SearchInv
<1>9. StartInv'
  BY <1>1, <1>5 DEF StartInv, IsStart, Dated
<1>10. CallInv' /\ GotInv' /\ OneExecuteInv'
  BY <1>1, <1>3, <1>4 DEF CallInv, GotInv, OneExecuteInv
<1>11. RangeAnswered' /\ OneNewPostAbsorbed'
  BY <1>1, <1>4 DEF RangeAnswered, OneNewPostAbsorbed
<1> QED
  BY <1>6, <1>7, <1>8, <1>9, <1>10, <1>11 DEF Rest

LEMMA StartFoundKeeps == ASSUME IInv, StartFound PROVE Rest'
<1>1. /\ TypeOK /\ WallInv /\ CountInv /\ SearchInv
      /\ step = "start" /\ step \in Searches /\ pool = {} /\ Over
      /\ UNCHANGED <<vk, wall, pin, lastId, range, total, counted, deleted, dropped>>
      /\ startIndex' = Found /\ SearchFor("end", total)
  BY DEF IInv, StartFound, Answered, Searches, vk, history
<1>2. Found \in Nat /\ Found < total /\ total \in Nat /\ total > 0 /\ Shift \in Nat
  BY <1>1, SearchProperties, Numbers DEF CountInv
<1>3. Shift' = Shift /\ Sound' = Sound /\ \A i : At(i)' = At(i)
  BY <1>1 DEF Shift, Sound, At
<1>4. Bound = range.from
  BY <1>1 DEF Bound
<1>5. Sound => IsStart(Found)
  BY <1>1, <1>4, SearchFinds DEF IsStart
<1>6. Sound' => IsStart(startIndex)'
  BY <1>1, <1>3, <1>5 DEF IsStart, Dated
<1>7. Sound' => /\ Len(Shown) = total' + Shift'
                /\ \A i \in DOMAIN wall : wall[i].id <= counted' => i <= total'
  BY <1>1, <1>3 DEF CountInv
<1>8. "end" \in Searches
  BY DEF Searches
<1> QED
  BY <1>1, <1>2, <1>3, <1>6, <1>7, <1>8, SearchBegins

LEMMA EndFoundKeeps == ASSUME IInv, EndFound PROVE Rest'
<1>1. /\ TypeOK /\ WallInv /\ CountInv /\ SearchInv /\ StartInv
      /\ step = "end" /\ step \in Searches /\ pool = {} /\ Over
      /\ step' = "pages" /\ Ask(Offsets(startIndex, Found))
      /\ UNCHANGED <<wall, pin, lastId, range, total, startIndex, counted, deleted, dropped, split>>
  BY DEF IInv, EndFound, Answered, Searches, vk, search, history
<1>2. /\ Found \in Nat /\ Found < total /\ total \in Nat
      /\ startIndex \in Nat /\ startIndex < total
  BY <1>1, SearchProperties, Numbers DEF StartInv
<1>3. /\ Offsets(startIndex, Found) \in Seq(Nat)
      /\ Len(Offsets(startIndex, Found)) > 0
      /\ startIndex < PageSize * CallsPerExecute /\ Found < PageSize * CallsPerExecute
            => Len(Offsets(startIndex, Found)) <= CallsPerExecute
  BY <1>2, OffsetsProperties
<1>4. DOMAIN got' = {} /\ Asked' = ToSet(Offsets(startIndex, Found))
  BY <1>1, <1>3, AskProperties
<1>5. Shift' = Shift /\ Sound' = Sound /\ \A i : At(i)' = At(i)
  BY <1>1 DEF Shift, Sound, At
<1>6. Sound => IsEnd(Found)
  <2> SUFFICES ASSUME Sound PROVE IsEnd(Found)
    OBVIOUS
  <2>1. Bound = range.to
    BY <1>1 DEF Bound
  <2>2. CASE Found = 0 /\ pin # <<>>
    <3>1. \A i \in DOMAIN wall : ~ (i > total + Shift - Found)
      BY <1>1, <1>2, <2>2, WallLength
    <3> QED
      BY <2>2, <3>1 DEF IsEnd, PinAfter
  <2> QED
    BY <1>1, <2>1, <2>2, SearchFinds DEF IsEnd
<1>7. WallInv'
  BY <1>1 DEF WallInv, At
<1>8. CountInv' /\ SearchInv'
  BY <1>1, <1>5 DEF CountInv, SearchInv, Counting, Searches, Shown
<1>9. StartInv'
  BY <1>1, <1>5 DEF StartInv, IsStart, Dated
<1>10. CallInv'
  <2> SUFFICES ASSUME ~ dropped
               PROVE  /\ Found \in 0 .. total - 1
                      /\ Asked' = ToSet(Offsets(startIndex, Found))
                      /\ deleted = 0 => IsEnd(Found)
    BY <1>1, <1>5 DEF CallInv, Counting, Searches, IsEnd, Dated, PinAfter, Offsets
  <2>1. Found \in 0 .. total - 1
    BY <1>2
  <2> QED
    BY <1>4, <1>6, <2>1 DEF Sound
<1>11. GotInv'
  BY <1>1, <1>4 DEF GotInv
<1>12. OneExecuteInv'
  <2> SUFFICES ASSUME OneNewPost'
               PROVE  \E chunk \in pool' : /\ pool' = {chunk}
                                           /\ chunk.size = CallsPerExecute
                                           /\ Len(chunk.calls) \in 1 .. CallsPerExecute
    BY <1>4 DEF OneExecuteInv
  <2> DEFINE pages == Offsets(startIndex, Found)
             c == [calls |-> pages, size |-> CallsPerExecute, error |-> "none"]
  <2>1. total <= PageSize * CallsPerExecute
    BY <1>1 DEF OneNewPost
  <2>2. CallsPerExecute \in Nat \ {0} /\ PageSize * CallsPerExecute \in Nat
    BY WallAssumption
  <2>3. Len(pages) \in 1 .. CallsPerExecute
    <3>1. startIndex < PageSize * CallsPerExecute /\ Found < PageSize * CallsPerExecute
      BY <1>2, <2>1, <2>2
    <3>2. Len(pages) \in Nat
      BY <1>3, LenProperties
    <3> QED
      BY <1>3, <2>2, <3>1, <3>2
  <2>4. pool' = {c}
    BY <1>1, <1>3, <2>2, <2>3, OnePiece DEF Ask
  <2>5. c.size = CallsPerExecute /\ c.calls = pages
    OBVIOUS
  <2> HIDE DEF c, pages
  <2> QED
    BY <2>3, <2>4, <2>5
<1>13. RangeAnswered' /\ OneNewPostAbsorbed'
  BY <1>1 DEF RangeAnswered, OneNewPostAbsorbed
<1> QED
  BY <1>7, <1>8, <1>9, <1>10, <1>11, <1>12, <1>13 DEF Rest

\* On a wall that has not changed, what is owed lies between the offsets the two
\* searches have returned, or has the date of one of them, or is on the first page
\* because the pinned post has ended the first search.
LEMMA OwedInReachOrTied ==
    ASSUME IInv, step = "pages", Quiet, ~ dropped, NEW e \in 0 .. total - 1, IsEnd(e),
           NEW i \in DOMAIN wall, wall[i] \in Owed, ~ Tied(wall[i])
    PROVE  /\ total - i \in Nat /\ e <= total - i
           /\ total - i <= startIndex \/ (startIndex = 0 /\ total - i <= 1)
<1>1. TypeOK /\ WallInv /\ CountInv /\ StartInv /\ Sound
  BY DEF IInv, Quiet, Sound
<1>2. /\ \A k \in DOMAIN wall : k \in Nat /\ 1 <= k /\ k <= total
      /\ Shift = 0 /\ total \in Nat /\ startIndex \in Nat /\ e \in Nat
      /\ range.from \in Nat /\ range.to \in Nat
  <2>1. /\ total \in Nat /\ startIndex \in Nat
        /\ range.from \in Nat /\ range.to \in Nat
    BY <1>1, Numbers
  <2>2. Shift = 0
    <3>1. lastId \in Nat /\ lastId = counted
      BY <1>1 DEF TypeOK, Quiet
    <3> QED
      BY <3>1 DEF Shift
  <2>3. DOMAIN wall = 1 .. total \/ DOMAIN wall = 1 .. total - 1
    <3>1. /\ pin = <<>> => DOMAIN wall = 1 .. total + Shift
          /\ pin # <<>> => DOMAIN wall = 1 .. total + Shift - 1
      BY <1>1, WallLength
    <3> QED
      BY <2>1, <2>2, <3>1
  <2> QED
    BY <2>1, <2>2, <2>3
<1>3. At(i) \in Nat /\ range.from <= At(i) /\ At(i) <= range.to
  BY <1>1, WallPosts DEF Owed, At
<1>4. ASSUME NEW k \in DOMAIN wall, k # i, At(k) \in {range.from, range.to}
      PROVE  At(i) # At(k)
  <2>1. wall[k] # wall[i]
    <3>1. wall[k].id \in Nat /\ wall[i].id \in Nat /\ wall[k].id # wall[i].id
      BY <1>1, <1>2, <1>4, WallPosts DEF WallInv
    <3> QED
      BY <3>1
  <2>2. wall[k] \in Standing
    BY DEF ToSet, Standing
  <2> QED
    BY <1>4, <2>1, <2>2 DEF Tied, At
<1>5. e <= total - i
  <2>1. CASE \A k \in DOMAIN wall : k > total + Shift - e => At(k) > range.to
    BY <1>2, <1>3, <2>1
  <2>2. CASE Dated(e, range.to)
    <3>1. PICK k \in DOMAIN wall : k = total - e /\ At(k) = range.to
      BY <1>2, <2>2 DEF Dated
    <3>2. ASSUME k < i PROVE FALSE
      <4>1. At(k) <= At(i)
        BY <1>1, <1>2, <3>2, Sorted
      <4> QED
        BY <1>2, <1>3, <1>4, <3>1, <3>2, <4>1
    <3> QED
      BY <1>2, <3>1, <3>2
  <2> QED
    BY <2>1, <2>2 DEF IsEnd
<1>6. total - i <= startIndex \/ (startIndex = 0 /\ total - i <= 1)
  <2>1. CASE startIndex = total - 1
    BY <1>2, <2>1
  <2>2. CASE \A k \in DOMAIN wall : k <= total - startIndex => At(k) < range.from
    <3>1. ~ (i <= total - startIndex)
      BY <1>2, <1>3, <2>2
    <3> QED
      BY <1>2, <3>1
  <2>3. CASE Dated(startIndex, range.from)
    <3>1. PICK k \in DOMAIN wall : k = total - startIndex /\ At(k) = range.from
      BY <1>2, <2>3 DEF Dated
    <3>2. ASSUME i < k PROVE FALSE
      <4>1. At(i) <= At(k)
        BY <1>1, <1>2, <3>2, Sorted
      <4> QED
        BY <1>2, <1>3, <1>4, <3>1, <3>2, <4>1
    <3> QED
      BY <1>2, <3>1, <3>2
  <2>4. CASE startIndex = 0 /\ \A k \in DOMAIN wall : k < total - 1 => At(k) < range.from
    <3>1. ~ (i < total - 1)
      BY <1>2, <1>3, <2>4
    <3> QED
      BY <1>2, <2>4, <3>1
  <2> QED
    BY <1>1, <2>1, <2>2, <2>3, <2>4 DEF StartInv, IsStart
<1> QED
  BY <1>2, <1>5, <1>6

\* A pinned post that is owed is on the first page, if no newer one ends the second
\* search behind it.
LEMMA PinInReachOrTied ==
    ASSUME IInv, step = "pages", Quiet, ~ dropped, NEW e \in 0 .. total - 1, IsEnd(e),
           pin # <<>>, pin[1] \in Owed, ~ Tied(pin[1]), ~ OutOfOrder(pin[1])
    PROVE  e = 0
<1>1. TypeOK /\ WallInv /\ CountInv /\ Sound
  BY DEF IInv, Quiet, Sound
<1>2. total \in Nat /\ e \in Nat /\ e < total /\ Shift = 0 /\ DOMAIN wall = 1 .. total - 1
  <2>1. total \in Nat /\ DOMAIN wall = 1 .. total + Shift - 1
    BY <1>1, WallLength
  <2>2. Shift = 0
    <3>1. lastId \in Nat /\ lastId = counted
      BY <1>1 DEF TypeOK, Quiet
    <3> QED
      BY <3>1 DEF Shift
  <2> QED
    BY <2>1, <2>2
<1>3. /\ range.to \in Nat /\ pin[1].at \in Nat /\ pin[1].at <= range.to
      /\ pin[1] \in ToSet(pin)
  BY <1>1, Numbers, PinPost DEF Owed
<1>4. ASSUME NEW k \in DOMAIN wall
      PROVE  At(k) \in Nat /\ (At(k) <= pin[1].at \/ At(k) < range.to)
  <2>1. wall[k] \in ToSet(wall) /\ At(k) \in Nat
    BY <1>1, WallPosts DEF ToSet
  <2>2. ~ (At(k) > pin[1].at /\ At(k) >= range.to)
    BY <1>3, <2>1 DEF OutOfOrder, At
  <2> QED
    BY <1>3, <2>1, <2>2
<1>5. CASE Dated(e, range.to)
  <2>1. PICK k \in DOMAIN wall : At(k) = range.to
    BY <1>5 DEF Dated
  <2>2. pin[1].at = range.to
    BY <1>3, <1>4, <2>1
  <2>3. wall[k] \in Standing /\ wall[k] # pin[1]
    <3>1. wall[k].id # pin[1].id
      BY <1>1 DEF WallInv
    <3> QED
      BY <3>1 DEF Standing, ToSet
  <2> QED
    BY <2>1, <2>2, <2>3 DEF Tied, At
<1>6. CASE /\ \A k \in DOMAIN wall : k > total + Shift - e => At(k) > range.to
           /\ PinAfter(range.to, e)
  <2>1. e # 1
    BY <1>3, <1>6 DEF PinAfter
  <2>2. ASSUME e > 1 PROVE FALSE
    <3>1. total - 1 \in DOMAIN wall /\ total - 1 > total + Shift - e
      BY <1>2, <2>2
    <3>2. At(total - 1) > range.to
      BY <1>6, <3>1
    <3>3. At(total - 1) \in Nat /\ (At(total - 1) <= pin[1].at \/ At(total - 1) < range.to)
      BY <1>4, <3>1
    <3> QED
      BY <1>3, <3>2, <3>3
  <2> QED
    BY <1>2, <2>1, <2>2
<1> QED
  BY <1>5, <1>6 DEF IsEnd

\* So every post that is owed, but for the two exceptions, is on a page that is asked for.
LEMMA OwedOnPages ==
    ASSUME IInv, step = "pages", Quiet, ~ dropped, NEW e \in 0 .. total - 1, IsEnd(e),
           NEW p \in Owed, ~ Tied(p), ~ OutOfOrder(p)
    PROVE  \E a \in ToSet(Offsets(startIndex, e)) : p \in ToSet(WallGet(a, PageSize).items)
<1>1. TypeOK /\ CountInv /\ Sound /\ PageSize \in Nat \ {0, 1}
  BY WallAssumption DEF IInv, Quiet, Sound
<1>2. /\ total \in Nat /\ e \in Nat /\ startIndex \in Nat
      /\ Len(Shown) = total /\ Shown \in Seq(Post)
  <2>1. lastId \in Nat /\ lastId = counted
    BY <1>1 DEF TypeOK, Quiet
  <2>2. Shift = 0
    BY <2>1 DEF Shift
  <2>3. total \in Nat /\ Len(Shown) = total + Shift
    BY <1>1, WallLength
  <2>4. Shown \in Seq(Post)
    BY <1>1, ShownProperties DEF TypeOK
  <2> QED
    BY <1>1, <2>2, <2>3, <2>4 DEF TypeOK
<1>3. /\ Offsets(startIndex, e) \in Seq(Nat)
      /\ \A o \in Nat : \/ startIndex <= o /\ o <= e
                        \/ e <= o /\ o <= startIndex
           => \E a \in ToSet(Offsets(startIndex, e)) : a <= o /\ o < a + PageSize
  BY <1>2, OffsetsProperties
<1>4. ToSet(Offsets(startIndex, e)) \subseteq Nat
  BY <1>3, ElementOfSeq, LenProperties DEF ToSet
<1>5. ASSUME NEW k \in DOMAIN Shown, Shown[k] = p, NEW a \in ToSet(Offsets(startIndex, e)),
             a <= total - k, total - k < a + PageSize
      PROVE  p \in ToSet(WallGet(a, PageSize).items)
  BY <1>1, <1>2, <1>4, <1>5, WallGetProperties
<1>6. CASE p \in ToSet(wall)
  <2>1. PICK i \in DOMAIN wall : p = wall[i]
    BY <1>6 DEF ToSet
  <2>2. i \in DOMAIN Shown /\ Shown[i] = p
    BY <1>1, <2>1, ShownProperties DEF TypeOK
  <2>3. PICK o \in Nat : /\ o = total - i /\ e <= o
                         /\ o <= startIndex \/ (startIndex = 0 /\ o <= 1)
    BY <2>1, OwedInReachOrTied
  <2>4. CASE o <= startIndex
    <3>1. PICK a \in ToSet(Offsets(startIndex, e)) : a <= o /\ o < a + PageSize
      BY <1>3, <2>3, <2>4
    <3> QED
      BY <1>5, <2>2, <2>3, <3>1
  <2>5. CASE startIndex = 0 /\ o <= 1
    <3>1. PICK a \in ToSet(Offsets(startIndex, e)) : a <= 0 /\ 0 < a + PageSize
      BY <1>2, <1>3, <2>5
    <3>2. a \in Nat /\ a <= o /\ o < a + PageSize
      BY <1>1, <1>4, <2>5, <3>1
    <3> QED
      BY <1>5, <2>2, <2>3, <3>2
  <2> QED
    BY <2>3, <2>4, <2>5
<1>7. CASE p \in ToSet(pin)
  <2>1. pin # <<>> /\ p = pin[1]
    BY <1>1, <1>7, PinPost
  <2>2. total \in DOMAIN Shown /\ Shown[total] = p
    BY <1>1, <1>2, <2>1, ShownProperties DEF TypeOK
  <2>3. e = 0
    BY <2>1, PinInReachOrTied
  <2>4. PICK a \in ToSet(Offsets(startIndex, e)) : a <= 0 /\ 0 < a + PageSize
    BY <1>2, <1>3, <2>3
  <2>5. total - total = 0
    BY <1>2
  <2> QED
    BY <1>5, <2>2, <2>4, <2>5
<1> QED
  BY <1>6, <1>7 DEF Owed, Standing

LEMMA CollectedKeeps == ASSUME IInv, Collected PROVE Rest'
<1>1. /\ TypeOK /\ WallInv /\ OneExecuteInv /\ CallInv /\ GotInv
      /\ step = "pages" /\ pool = {}
      /\ step' = "done" /\ answer' = Posts /\ pool' = {}
      /\ UNCHANGED <<wall, pin, lastId, range, total, counted, deleted, dropped, split>>
  BY DEF IInv, Collected, Answered, Finish, vk, search, calls, history
<1>2. Owed' = Owed
  BY <1>1 DEF Owed, Standing
<1>3. RangeAnswered'
  <2> SUFFICES ASSUME Quiet, ~ dropped, NEW p \in Owed \ Posts, ~ Tied(p), ~ OutOfOrder(p)
               PROVE  FALSE
    BY <1>1, <1>2 DEF RangeAnswered, Quiet, Missing, Tied, OutOfOrder, Standing
  <2>1. PICK e \in 0 .. total - 1 : DOMAIN got = ToSet(Offsets(startIndex, e)) /\ IsEnd(e)
    BY <1>1 DEF CallInv, Asked, Quiet
  <2>2. PICK a \in DOMAIN got : p \in ToSet(WallGet(a, PageSize).items)
    BY <1>1, <2>1, OwedOnPages
  <2>3. got[a] = WallGet(a, PageSize)
    BY <1>1 DEF GotInv, Sound, Quiet
  <2> QED
    BY <2>2, <2>3 DEF Posts, Owed
<1>4. OneNewPostAbsorbed'
  <2> SUFFICES ASSUME OneNewPost PROVE Owed \subseteq Posts
    BY <1>1, <1>2 DEF OneNewPostAbsorbed, OneNewPost, Sound, Missing
  <2>1. Owed \subseteq UNION {ToSet(got[o].items) : o \in DOMAIN got}
    BY <1>1 DEF OneExecuteInv
  <2> QED
    BY <2>1 DEF Posts, Owed
<1>5. WallInv'
  BY <1>1 DEF WallInv, At
<1>6. CountInv' /\ SearchInv' /\ StartInv' /\ CallInv' /\ GotInv' /\ OneExecuteInv'
  BY <1>1 DEF CountInv, SearchInv, StartInv, CallInv, GotInv, OneExecuteInv, Counting, Searches
<1> QED
  BY <1>3, <1>4, <1>5, <1>6 DEF Rest

------------------------------------------------------------------------------
(* VK.                                                                     *)

\* A new post stands before all others: what stood at an offset is still within
\* Shift places of it.
LEMMA MakePostKeeps == ASSUME IInv, MakePost PROVE Rest'
<1>1. /\ TypeOK /\ WallInv /\ CountInv /\ SearchInv /\ StartInv /\ CallInv /\ GotInv
      /\ OneExecuteInv
      /\ step \notin {"resolve", "info", "count", "done", "nothing", "failed"}
      /\ lastId' = lastId + 1
      /\ UNCHANGED <<pin, range, step, total, left, right, startIndex, pool, got, counted, deleted,
                     dropped, split>>
  BY DEF IInv, MakePost, Active, search, calls, history
<1>2. PICK d \in Dates : /\ \A p \in Standing : p.at <= d
                         /\ wall' = Append(wall, [id |-> lastId + 1, at |-> d])
  BY DEF MakePost
<1>0. PICK n \in Nat : n = Len(wall)
  BY <1>1, Numbers
<1>3. /\ DOMAIN wall = 1 .. n /\ Shift \in Nat /\ total \in Nat
      /\ left \in Nat /\ right \in Int /\ startIndex \in Nat /\ lastId \in Nat
      /\ range.from \in Nat /\ range.to \in Nat /\ Bound \in Nat
      /\ counted \in Nat /\ counted <= lastId
  BY <1>0, <1>1, Numbers DEF TypeOK
<1>4. d \in Nat
  BY WallAssumption DEF Dates
<1>5. /\ DOMAIN wall' = 1 .. n + 1 /\ Len(wall') = n + 1
      /\ \A i \in 1 .. n : wall'[i] = wall[i]
      /\ wall'[n + 1] = [id |-> lastId + 1, at |-> d]
  <2>1. [id |-> lastId + 1, at |-> d] \in Post
    BY <1>3 DEF Post
  <2> QED
    BY <1>0, <1>1, <1>2, <1>3, <2>1, AppendProperties, LenProperties DEF TypeOK
<1>6. /\ \A i \in 1 .. n : At(i)' = At(i) /\ At(i) \in Nat
      /\ At(n + 1)' = d
  <2>1. \A i \in 1 .. n : At(i)' = At(i)
    BY <1>5 DEF At
  <2>2. \A i \in 1 .. n : At(i) \in Nat
    BY <1>0, <1>1, <1>3, WallPosts
  <2>3. wall'[n + 1].at = d
    BY <1>5
  <2>4. At(n + 1)' = d
    BY <2>3 DEF At
  <2> QED
    BY <2>1, <2>2, <2>4
<1>7. \A i \in 1 .. n : At(i) <= d
  <2> SUFFICES ASSUME NEW i \in 1 .. n PROVE At(i) <= d
    OBVIOUS
  <2>1. wall[i] \in Standing
    BY <1>3 DEF Standing, ToSet
  <2> QED
    BY <1>2, <2>1 DEF At
<1>8. Shift' = Shift + 1 /\ Bound' = Bound /\ Sound' = Sound
  BY <1>1, <1>3 DEF Shift, Bound, Sound
<1>9. step \in Searches \cup {"pages"} /\ total > 0
  BY <1>1 DEF CountInv, TypeOK, Steps
<1>10. Sound => (pin = <<>> => n = total + Shift) /\ (pin # <<>> => n = total + Shift - 1)
  BY <1>0, <1>1, <1>9, WallLength
<1>11. \A i \in 1 .. n + 1 : i \in 1 .. n \/ i = n + 1
  BY <1>3
<1>12. ASSUME NEW o \in Int, NEW date, Dated(o, date) PROVE Dated(o, date)'
  <2>1. PICK i \in total - o .. total + Shift - o : i \in DOMAIN wall /\ At(i) = date
    BY <1>12 DEF Dated
  <2>2. i \in total - o .. total + Shift' - o
    BY <1>3, <1>8, <2>1
  <2>3. i \in DOMAIN wall' /\ At(i)' = date
    BY <1>3, <1>5, <1>6, <2>1
  <2>4. i \in (total - o .. total + Shift - o)'
    BY <1>1, <2>2
  <2> QED
    BY <2>3, <2>4 DEF Dated
<1>13. WallInv'
  <2>1. \A i \in 1 .. n + 1 : wall'[i].id <= lastId + 1
    <3>1. \A i \in 1 .. n : wall[i].id \in Nat /\ wall[i].id <= lastId
      BY <1>1, <1>3, WallPosts DEF WallInv
    <3>2. wall'[n + 1].id = lastId + 1
      BY <1>5
    <3> QED
      BY <1>3, <1>5, <1>11, <3>1, <3>2
  <2>2. ASSUME NEW i \in 1 .. n + 1, NEW j \in 1 .. n + 1, i < j
        PROVE  At(i)' <= At(j)' /\ wall'[i].id < wall'[j].id
    <3>1. i \in 1 .. n
      BY <2>2
    <3>2. CASE j \in 1 .. n
      <4>1. At(i) <= At(j) /\ wall[i].id < wall[j].id
        BY <1>1, <1>3, <2>2, <3>1, <3>2 DEF WallInv
      <4> QED
        BY <1>5, <1>6, <3>1, <3>2, <4>1
    <3>3. CASE j = n + 1
      <4>1. At(i)' <= d /\ wall[i].id <= lastId /\ wall[i].id \in Nat
        BY <1>1, <1>3, <1>6, <1>7, <3>1, WallPosts DEF WallInv
      <4>2. wall'[n + 1].id = lastId + 1
        BY <1>5
      <4> QED
        BY <1>3, <1>5, <1>6, <3>1, <3>3, <4>1, <4>2
    <3> QED
      BY <1>11, <2>2, <3>2, <3>3
  <2>3. ASSUME pin # <<>>
        PROVE  pin[1].id <= lastId + 1 /\ \A i \in 1 .. n + 1 : wall'[i].id # pin[1].id
    <3>1. pin[1].id \in Nat /\ pin[1].id <= lastId /\ wall'[n + 1].id = lastId + 1
      BY <1>1, <1>5, <2>3, PinPost DEF WallInv
    <3>2. \A i \in 1 .. n : wall'[i].id # pin[1].id
      BY <1>1, <1>3, <1>5, <2>3 DEF WallInv
    <3> QED
      BY <1>3, <1>11, <3>1, <3>2
  <2> QED
    BY <1>1, <1>5, <2>1, <2>2, <2>3 DEF WallInv
<1>14. CountInv'
  <2> SUFFICES ASSUME Sound'
               PROVE  /\ Len(Shown') = total + Shift'
                      /\ \A i \in 1 .. n + 1 : wall'[i].id <= counted => i <= total
    BY <1>1, <1>5, <1>9 DEF CountInv, Counting, Searches
  <2>1. Len(Shown') = total + Shift'
    <3>1. wall' \in Seq(Post) /\ pin \in Seq(Post) /\ pin' = pin /\ wall \in Seq(Post)
      BY <1>1, <1>2, <1>3, AppendProperties DEF TypeOK, Post
    <3>2. PICK k \in Nat : k = Len(pin)
      BY <3>1, LenProperties
    <3>3. Len(wall' \o pin) = n + 1 + k /\ Len(wall \o pin) = n + k
      <4>1. /\ Len(wall' \o pin) = Len(wall') + Len(pin)
            /\ Len(wall \o pin) = Len(wall) + Len(pin)
        BY <3>1, ConcatProperties
      <4> QED
        BY <1>0, <1>5, <3>2, <4>1
    <3>4. Len(wall \o pin) = total + Shift
      BY <1>1, <1>8, <1>9 DEF CountInv, Shown
    <3>5. total + Shift' = total + Shift + 1
      BY <1>3, <1>8
    <3> QED
      BY <1>3, <3>1, <3>3, <3>4, <3>5 DEF Shown
  <2>2. \A i \in 1 .. n : wall'[i].id <= counted => i <= total
    BY <1>1, <1>3, <1>5, <1>8, <1>9 DEF CountInv
  <2>3. wall'[n + 1].id = lastId + 1 /\ ~ (lastId + 1 <= counted)
    BY <1>3, <1>5
  <2> QED
    BY <1>11, <2>1, <2>2, <2>3
<1>15. SearchInv'
  <2> SUFFICES ASSUME step \in Searches, Sound
               PROVE  /\ \A i \in 1 .. n + 1 : i > total + Shift + 1 - left => At(i)' > Bound
                      /\ \A i \in 1 .. n + 1 : i < total - right => At(i)' < Bound
                      /\ PinAfter(Bound, left)
    <3>1. SearchInv' <=> (step \in Searches =>
             /\ 0 <= left /\ left <= right /\ right < total
             /\ Sound =>
                  /\ \A i \in 1 .. n + 1 : i > total + Shift' - left => At(i)' > Bound
                  /\ \A i \in 1 .. n + 1 : i < total - right => At(i)' < Bound
                  /\ PinAfter(Bound, left))
      BY <1>1, <1>5, <1>8 DEF SearchInv, PinAfter
    <3>2. total + Shift' - left = total + Shift + 1 - left
      BY <1>3, <1>8
    <3> QED
      BY <1>1, <3>1, <3>2 DEF SearchInv
  <2>1. /\ 0 <= left /\ left <= right /\ right < total
        /\ \A i \in 1 .. n : i > total + Shift - left => At(i) > Bound
        /\ \A i \in 1 .. n : i < total - right => At(i) < Bound
        /\ PinAfter(Bound, left)
    BY <1>1, <1>3 DEF SearchInv
  <2>2. \A i \in 1 .. n : i > total + Shift + 1 - left => At(i)' > Bound
    BY <1>3, <1>6, <2>1
  <2>3. n + 1 > total + Shift + 1 - left => d > Bound
    <3> SUFFICES ASSUME n + 1 > total + Shift + 1 - left PROVE d > Bound
      OBVIOUS
    <3>1. n \in 1 .. n /\ n > total + Shift - left
      BY <1>3, <1>9, <1>10, <2>1
    <3>2. At(n) > Bound /\ At(n) <= d /\ At(n) \in Nat
      BY <1>6, <1>7, <2>1, <3>1
    <3> QED
      BY <1>3, <1>4, <3>2
  <2>4. \A i \in 1 .. n : i < total - right => At(i)' < Bound
    BY <1>6, <2>1
  <2>5. ~ (n + 1 < total - right)
    BY <1>3, <1>10, <2>1
  <2>6. At(n + 1)' = d
    BY <1>6
  <2> QED
    BY <1>11, <2>1, <2>2, <2>3, <2>4, <2>5, <2>6
<1>16. ASSUME NEW o \in 0 .. total - 1, Sound, IsStart(o) PROVE IsStart(o)'
  <2>1. CASE o = total - 1
    BY <1>1, <2>1 DEF IsStart
  <2>2. ASSUME pin # <<>>, o = 0, \A i \in DOMAIN wall : i < total - 1 => At(i) < range.from
        PROVE  IsStart(o)'
    <3>1. ~ (n + 1 < total - 1)
      BY <1>3, <1>10, <1>16, <2>2
    <3>2. \A i \in DOMAIN wall' : i < total - 1 => At(i)' < range.from
      BY <1>3, <1>5, <1>6, <1>11, <2>2, <3>1
    <3> QED
      BY <1>1, <2>2, <3>2 DEF IsStart
  <2>3. CASE \A i \in DOMAIN wall : i <= total - o => At(i) < range.from
    <3>1. CASE pin = <<>> \/ o > 0
      <4>1. ~ (n + 1 <= total - o)
        BY <1>3, <1>10, <1>16, <3>1
      <4>2. \A i \in DOMAIN wall' : i <= total - o => At(i)' < range.from
        BY <1>3, <1>5, <1>6, <1>11, <2>3, <4>1
      <4> QED
        BY <1>1, <4>2 DEF IsStart
    <3>2. CASE pin # <<>> /\ o = 0
      <4>1. \A i \in DOMAIN wall : i < total - 1 => At(i) < range.from
        BY <1>3, <2>3, <3>2
      <4> QED
        BY <2>2, <3>2, <4>1
    <3> QED
      BY <1>16, <3>1, <3>2
  <2>4. CASE Dated(o, range.from)
    BY <1>1, <1>12, <2>4 DEF IsStart
  <2> QED
    BY <1>16, <2>1, <2>2, <2>3, <2>4 DEF IsStart
<1>17. ASSUME NEW o \in 0 .. total - 1, Sound, IsEnd(o) PROVE IsEnd(o)'
  <2>1. CASE /\ \A i \in DOMAIN wall : i > total + Shift - o => At(i) > range.to
             /\ PinAfter(range.to, o)
    <3>1. n + 1 > total + Shift + 1 - o => d > range.to
      <4> SUFFICES ASSUME n + 1 > total + Shift + 1 - o PROVE d > range.to
        OBVIOUS
      <4>1. n \in 1 .. n /\ n > total + Shift - o
        BY <1>3, <1>9, <1>10
      <4>2. At(n) > range.to /\ At(n) <= d /\ At(n) \in Nat
        BY <1>3, <1>6, <1>7, <2>1, <4>1
      <4> QED
        BY <1>3, <1>4, <4>2
    <3>2. \A i \in 1 .. n : i > total + Shift + 1 - o => At(i)' > range.to
      BY <1>3, <1>6, <2>1
    <3>3. At(n + 1)' = d /\ total + Shift' - o = total + Shift + 1 - o
      BY <1>3, <1>6, <1>8
    <3>4. \A i \in DOMAIN wall' : i > total + Shift' - o => At(i)' > range.to
      BY <1>5, <1>11, <3>1, <3>2, <3>3
    <3>5. PinAfter(range.to, o)'
      BY <1>1, <2>1 DEF PinAfter
    <3> QED
      BY <1>1, <3>4, <3>5 DEF IsEnd
  <2>2. CASE Dated(o, range.to)
    BY <1>1, <1>12, <2>2 DEF IsEnd
  <2> QED
    BY <1>17, <2>1, <2>2 DEF IsEnd
<1>18. StartInv'
  <2> SUFFICES ASSUME step \in {"end", "pages"}
               PROVE  startIndex < total /\ (Sound => IsStart(startIndex)')
    BY <1>1, <1>8 DEF StartInv
  <2>1. startIndex < total /\ (Sound => IsStart(startIndex))
    BY <1>1 DEF StartInv
  <2>2. PICK o \in 0 .. total - 1 : o = startIndex
    BY <1>3, <2>1
  <2>3. ASSUME Sound PROVE IsStart(o)'
    BY <1>16, <2>1, <2>2, <2>3
  <2>4. IsStart(startIndex)' <=> IsStart(o)'
    BY <1>1, <2>2 DEF IsStart, Dated
  <2> QED
    BY <2>1, <2>3, <2>4
<1>19. CallInv'
  <2> SUFFICES ASSUME ~ dropped
               PROVE  /\ step \in Searches => Asked' = {Mid(left, right)}
                      /\ step = "pages" => \E e \in 0 .. total - 1 :
                           /\ Asked' = ToSet(Offsets(startIndex, e))
                           /\ deleted = 0 => IsEnd(e)'
    BY <1>1 DEF CallInv, Counting, Searches
  <2>1. Asked' = Asked
    BY <1>1 DEF Asked
  <2>2. ASSUME step = "pages"
        PROVE  \E e \in 0 .. total - 1 : /\ Asked' = ToSet(Offsets(startIndex, e))
                                         /\ deleted = 0 => IsEnd(e)'
    <3>1. PICK e \in 0 .. total - 1 : /\ Asked = ToSet(Offsets(startIndex, e))
                                      /\ deleted = 0 => IsEnd(e)
      BY <1>1, <2>2 DEF CallInv
    <3>2. deleted = 0 => IsEnd(e)'
      BY <1>17, <3>1 DEF Sound
    <3> QED
      BY <2>1, <3>1, <3>2
  <2>3. step \in Searches => Asked' = {Mid(left, right)}
    BY <1>1, <2>1 DEF CallInv
  <2> QED
    BY <2>2, <2>3
<1>20. GotInv'
  <2>1. ~ Quiet'
    BY <1>1, <1>3 DEF Quiet
  <2> SUFFICES ASSUME Sound, step \in Searches, NEW o \in DOMAIN got
               PROVE  /\ o = 0 /\ pin # <<>> => got[o].items = pin
                      /\ o > 0 \/ pin = <<>> =>
                           got[o].items # <<>> /\ Dated(o, Last(got[o].items).at)'
    BY <1>1, <1>8, <2>1 DEF GotInv, Searches
  <2>2. /\ o = 0 /\ pin # <<>> => got[o].items = pin
        /\ o > 0 \/ pin = <<>> => got[o].items # <<>> /\ Dated(o, Last(got[o].items).at)
    BY <1>1 DEF GotInv
  <2>3. o \in Int
    BY <1>1 DEF TypeOK
  <2>4. PICK date : date = Last(got[o].items).at
    OBVIOUS
  <2>5. o > 0 \/ pin = <<>> => Dated(o, date)'
    BY <1>12, <2>2, <2>3, <2>4
  <2> QED
    BY <1>1, <2>2, <2>4, <2>5
<1>21. ToSet(wall') = ToSet(wall) \cup {[id |-> lastId + 1, at |-> d]}
  <2>1. \A i \in 1 .. n : wall'[i] = wall[i] /\ i \in 1 .. n + 1
    BY <1>3, <1>5
  <2>2. n + 1 \in 1 .. n + 1
    BY <1>3
  <2> QED
    BY <1>3, <1>5, <1>11, <2>1, <2>2 DEF ToSet
<1>22. ASSUME OneNewPost' PROVE OneNewPost
  <2>1. Sound /\ ~ split /\ total <= PageSize * CallsPerExecute /\ pin = <<>>
    BY <1>1, <1>8, <1>22 DEF OneNewPost
  <2>2. lastId <= counted + 1
    BY <1>1, <1>3, <1>22 DEF OneNewPost
  <2>3. \A p \in ToSet(wall) : p.at \notin {range.from, range.to}
    BY <1>1, <1>21, <1>22 DEF OneNewPost
  <2>4. \E p \in ToSet(wall) : p.at < range.from
    <3>1. PICK p \in ToSet(wall') : p.at < range.from
      BY <1>1, <1>22 DEF OneNewPost
    <3>2. CASE p \in ToSet(wall)
      BY <3>1, <3>2
    <3>3. CASE p = [id |-> lastId + 1, at |-> d]
      <4>1. n \in 1 .. n /\ n \in DOMAIN wall
        BY <1>3, <1>9, <1>10, <2>1
      <4>2. At(n) \in Nat /\ At(n) <= d /\ d < range.from
        BY <1>6, <1>7, <3>1, <3>3, <4>1
      <4>3. At(n) < range.from
        BY <1>3, <1>4, <4>2
      <4> QED
        BY <4>1, <4>3 DEF At, ToSet
    <3> QED
      BY <1>21, <3>1, <3>2, <3>3
  <2> QED
    BY <2>1, <2>2, <2>3, <2>4 DEF OneNewPost
<1>23. Owed' \subseteq Owed
  <2> SUFFICES ASSUME NEW p \in Owed' PROVE p \in Owed
    OBVIOUS
  <2>1. /\ p \in ToSet(wall') \cup ToSet(pin) /\ p.id <= counted /\ range.from <= p.at /\ p.at <= range.to
    BY <1>1 DEF Owed, Standing
  <2>2. p # [id |-> lastId + 1, at |-> d]
    BY <1>3, <2>1
  <2> QED
    BY <1>21, <2>1, <2>2 DEF Owed, Standing
<1>24. OneExecuteInv'
  <2> SUFFICES ASSUME step = "pages", OneNewPost'
               PROVE  \/ /\ DOMAIN got = {}
                         /\ \E chunk \in pool :
                             /\ pool = {chunk}
                             /\ chunk.size = CallsPerExecute
                             /\ Len(chunk.calls) \in 1 .. CallsPerExecute
                      \/ /\ pool = {}
                         /\ Owed' \subseteq UNION {ToSet(got[o].items) : o \in DOMAIN got}
    BY <1>1 DEF OneExecuteInv
  <2> QED
    BY <1>1, <1>22, <1>23 DEF OneExecuteInv
<1>25. RangeAnswered' /\ OneNewPostAbsorbed'
  BY <1>1 DEF RangeAnswered, OneNewPostAbsorbed
<1> QED
  BY <1>13, <1>14, <1>15, <1>18, <1>19, <1>20, <1>24, <1>25 DEF Rest

\* A deleted post ends what the bookkeeping says of the wall, not the wall's order.
LEMMA DeletePostKeeps == ASSUME IInv, DeletePost PROVE Rest'
<1>1. /\ TypeOK /\ WallInv /\ CountInv /\ SearchInv /\ StartInv /\ CallInv
      /\ step \notin {"resolve", "info", "count", "done", "nothing", "failed"}
      /\ deleted' = deleted + 1 /\ deleted \in Nat
      /\ UNCHANGED <<lastId, range, step, total, left, right, startIndex, pool, got, counted,
                     dropped, split>>
  BY DEF IInv, TypeOK, DeletePost, Active, search, calls
<1>2. deleted' # 0
  BY <1>1
<1>3. ~ Sound' /\ ~ OneNewPost' /\ ~ Quiet'
  BY <1>2 DEF Sound, OneNewPost, Quiet
<1>4. ASSUME NEW i \in DOMAIN wall, wall' = RemoveAt(wall, i), pin' = pin
      PROVE  WallInv'
  <2> DEFINE Old(k) == IF k < i THEN k ELSE k + 1
  <2>1. \A k \in DOMAIN wall' :
            /\ Old(k) \in DOMAIN wall /\ wall'[k] = wall[Old(k)]
            /\ \A j \in DOMAIN wall' : j < k => Old(j) < Old(k)
    BY <1>1, <1>4, RemoveAtKeepsOrder DEF TypeOK
  <2> HIDE DEF Old
  <2>2. \A k \in DOMAIN wall' : At(k)' = At(Old(k))
    BY <2>1 DEF At
  <2>3. \A k \in DOMAIN wall' : /\ wall'[k].id <= lastId
                                /\ pin # <<>> => wall'[k].id # pin[1].id
    BY <1>1, <2>1 DEF WallInv
  <2>4. ASSUME NEW j \in DOMAIN wall', NEW k \in DOMAIN wall', j < k
        PROVE  At(j)' <= At(k)' /\ wall'[j].id < wall'[k].id
    <3>1. At(Old(j)) <= At(Old(k)) /\ wall[Old(j)].id < wall[Old(k)].id
      BY <1>1, <2>1, <2>4 DEF WallInv
    <3> QED
      BY <2>1, <2>2, <3>1
  <2> QED
    BY <1>1, <1>4, <2>3, <2>4 DEF WallInv
<1>5. ASSUME pin' = <<>>, wall' = wall
      PROVE  WallInv'
  BY <1>1, <1>5 DEF WallInv, At
<1>6. WallInv'
  BY <1>4, <1>5 DEF DeletePost
<1>7. CountInv'
  BY <1>1, <1>3 DEF CountInv, Counting
<1>8. SearchInv' /\ StartInv'
  BY <1>1, <1>3 DEF SearchInv, StartInv
<1>9. CallInv'
  <2>1. Asked' = Asked
    BY <1>1 DEF Asked
  <2> QED
    BY <1>1, <1>2, <2>1 DEF CallInv, Counting
<1>10. GotInv' /\ OneExecuteInv'
  BY <1>3 DEF GotInv, OneExecuteInv
<1>11. RangeAnswered' /\ OneNewPostAbsorbed'
  BY <1>1 DEF RangeAnswered, OneNewPostAbsorbed
<1> QED
  BY <1>6, <1>7, <1>8, <1>9, <1>10, <1>11 DEF Rest

LEMMA StutterKeeps == ASSUME IInv, UNCHANGED vars PROVE Rest'
<1>1. UNCHANGED <<wall, pin, lastId, range, step, total, left, right, startIndex, pool, got, answer,
                  counted, deleted, dropped, split>>
  BY DEF vars, vk, search, calls, history
<1>2. UNCHANGED <<Shift, Bound, Sound, Asked, Quiet, Shown, Standing, Owed>> /\ \A i : At(i)' = At(i)
  BY <1>1 DEF Shift, Bound, Sound, Asked, Quiet, Shown, Standing, Owed, At
<1>3. WallInv' /\ CountInv' /\ SearchInv'
  BY <1>1, <1>2 DEF IInv, WallInv, CountInv, SearchInv, PinAfter
<1>4. \A o \in Nat : (IsStart(o)' <=> IsStart(o)) /\ (IsEnd(o)' <=> IsEnd(o))
  BY <1>1, <1>2 DEF IsStart, IsEnd, Dated, PinAfter
<1>5. StartInv' /\ CallInv'
  <2>1. startIndex \in Nat /\ total \in Nat
    BY DEF IInv, TypeOK
  <2>2. StartInv'
    BY <1>1, <1>2, <1>4, <2>1 DEF IInv, StartInv
  <2>3. \A e \in 0 .. total - 1 : e \in Nat
    BY <2>1
  <2>4. CallInv'
    BY <1>1, <1>2, <1>4, <2>3 DEF IInv, CallInv
  <2> QED
    BY <2>2, <2>4
<1>6. GotInv'
  BY <1>1, <1>2 DEF IInv, GotInv, Dated, WallGet
<1>7. OneNewPost' <=> OneNewPost
  BY <1>1, <1>2 DEF OneNewPost
<1>8. OneExecuteInv'
  BY <1>1, <1>2, <1>7 DEF IInv, OneExecuteInv
<1>9. RangeAnswered' /\ OneNewPostAbsorbed'
  BY <1>1, <1>2 DEF IInv, RangeAnswered, OneNewPostAbsorbed, Missing, Tied, OutOfOrder
<1> QED
  BY <1>3, <1>5, <1>6, <1>8, <1>9 DEF Rest

------------------------------------------------------------------------------
(* Every state of a fetch.                                                 *)

LEMMA InitRest == ASSUME Init PROVE Rest
<1>1. TypeOK
  BY InitType
<1>2. /\ step = "resolve" /\ pool = Pieces(<<0>>, CallsPerExecute) /\ got = <<>>
      /\ deleted = 0 /\ range.from <= range.to
  BY DEF Init
<1>3. WallInv
  BY InitWall
<1>4. CountInv /\ SearchInv /\ StartInv /\ OneExecuteInv /\ RangeAnswered /\ OneNewPostAbsorbed
  BY <1>2 DEF CountInv, SearchInv, StartInv, OneExecuteInv, RangeAnswered, OneNewPostAbsorbed,
              Searches
<1>5. DOMAIN got = {}
  BY <1>2
<1>6. GotInv
  BY <1>2, <1>5 DEF GotInv, Searches
<1>7. CallInv
  <2>1. Asked = {0}
    BY <1>2, <1>5, OneCall, PiecesCover, WallAssumption DEF Asked
  <2> QED
    BY <1>2, <2>1 DEF CallInv, Searches
<1> QED
  BY <1>3, <1>4, <1>6, <1>7 DEF Rest

LEMMA NextIInv == ASSUME IInv, [Next]_vars PROVE IInv'
<1>1. TypeOK'
  BY NextType DEF IInv
<1>2. CASE Pool
  BY <1>2, ExecuteKeeps, ExecuteLostKeeps, ExecuteFailKeeps, RetryKeeps, PoolFailKeeps, <1>1
     DEF Pool, Rest, IInv
<1>3. CASE Client
  BY <1>3, ResolvedKeeps, InformedKeeps, CountedKeeps, SearchOnKeeps, StartFoundKeeps,
     EndFoundKeeps, CollectedKeeps, <1>1 DEF Client, Rest, IInv
<1>4. CASE MakePost \/ DeletePost
  BY <1>1, <1>4, MakePostKeeps, DeletePostKeeps DEF Rest, IInv
<1>5. CASE UNCHANGED vars
  BY <1>1, <1>5, StutterKeeps DEF Rest, IInv
<1> QED
  BY <1>2, <1>3, <1>4, <1>5 DEF Next

\* The invariant of a fetch: the searches narrow the wall that was counted to the posts
\* of the range, whatever VK refuses and whoever posts meanwhile (get_vk_data,
\* AdvancedExecutePool).
THEOREM FetchInvariant == Spec => []IInv
<1>1. Init => IInv
  BY InitType, InitRest DEF IInv, Rest
<1> QED
  BY <1>1, NextIInv, PTL DEF Spec

\* Every variable of a fetch has its type: in particular no search leaves the wall
\* that was counted, and no page has a negative offset.
THEOREM TypeCorrect == Spec => []TypeOK
BY FetchInvariant, PTL DEF IInv

\* On a wall that does not change, with no call refused or lost, a fetch answers every
\* post of its range, except those that share the second of one of its bounds with
\* another and a pinned post with a newer one at or behind the end of the range.
THEOREM AllAnswered == Spec => []RangeAnswered
BY FetchInvariant, PTL DEF IInv

\* One post made during a fetch whose pages fit in one execute makes it miss nothing,
\* if there is a post before the range, none at its bounds and none pinned.
THEOREM NewPostAbsorbed == Spec => []OneNewPostAbsorbed
BY FetchInvariant, PTL DEF IInv
==============================================================================
