--------------------------- MODULE GraphAlloc_proofs ---------------------------
(***************************************************************************)
(* The free blocks and the tensors of a plan tile every buffer, whatever   *)
(* graphs are planned one after the other: no byte is given out twice and  *)
(* none is lost.  The planner implements DynAlloc in each of its buffers.  *)
(***************************************************************************)
EXTENDS GraphAlloc, SequenceTheorems, FiniteSetTheorems, TLAPS

BlockType == [offset : Nat, size : Nat]

\* The blocks cover the bytes F, none of them twice.
Tiles(bs, F) ==
    /\ \A m, k \in DOMAIN bs : m # k => Span(bs[m]) \cap Span(bs[k]) = {}
    /\ F = UNION {Span(bs[k]) : k \in DOMAIN bs}

----------------------------------------------------------------------------
(* Lists of blocks.                                                        *)

LEMMA RemoveAtIs ==
    ASSUME NEW S, NEW s \in Seq(S), NEW m \in 1 .. Len(s)
    PROVE  /\ RemoveAt(s, m) \in Seq(S) /\ Len(RemoveAt(s, m)) = Len(s) - 1
           /\ \A k \in 1 .. Len(s) - 1 : RemoveAt(s, m)[k] = IF k < m THEN s[k] ELSE s[k + 1]
<1>0. Len(s) \in Nat /\ m \in Int
  BY LenProperties
<1> DEFINE a == SubSeq(s, 1, m - 1)
           b == SubSeq(s, m + 1, Len(s))
<1>1. a \in Seq(S) /\ Len(a) = m - 1 /\ \A k \in 1 .. m - 1 : a[k] = s[k]
  BY SubSeqProperties
<1>2. b \in Seq(S) /\ Len(b) = Len(s) - m /\ \A k \in 1 .. Len(s) - m : b[k] = s[m + k]
  BY SubSeqProperties
<1>3. RemoveAt(s, m) = a \o b
  BY DEF RemoveAt
<1> HIDE DEF a, b
<1>4. a \o b \in Seq(S) /\ Len(a \o b) = Len(s) - 1
      /\ \A k \in 1 .. Len(s) - 1 : (a \o b)[k] = IF k <= m - 1 THEN a[k] ELSE b[k - (m - 1)]
  BY <1>1, <1>2, ConcatProperties
<1>5. ASSUME NEW k \in 1 .. Len(s) - 1 PROVE (a \o b)[k] = IF k < m THEN s[k] ELSE s[k + 1]
  <2>1. CASE k < m
    BY <1>1, <1>4, <2>1
  <2>2. CASE k >= m
    <3>1. b[k - (m - 1)] = s[m + (k - (m - 1))] /\ m + (k - (m - 1)) = k + 1
      BY <1>2, <2>2
    <3> QED BY <1>4, <2>2, <3>1
  <2>3. k < m \/ k >= m
    BY <1>0
  <2> QED BY <2>1, <2>2, <2>3, Zenon
<1> QED BY <1>3, <1>4, <1>5

LEMMA InsertAtIs ==
    ASSUME NEW S, NEW s \in Seq(S), NEW m \in 1 .. Len(s) + 1, NEW e \in S
    PROVE  /\ InsertAt(s, m, e) \in Seq(S) /\ Len(InsertAt(s, m, e)) = Len(s) + 1
           /\ \A k \in 1 .. Len(s) + 1 :
                InsertAt(s, m, e)[k] = IF k < m THEN s[k] ELSE IF k = m THEN e ELSE s[k - 1]
<1>0. Len(s) \in Nat /\ m \in Int
  BY LenProperties
<1> DEFINE a == SubSeq(s, 1, m - 1)
           b == SubSeq(s, m, Len(s))
           c == a \o <<e>>
<1>1. a \in Seq(S) /\ Len(a) = m - 1 /\ \A k \in 1 .. m - 1 : a[k] = s[k]
  BY SubSeqProperties
<1>2. b \in Seq(S) /\ Len(b) = Len(s) - m + 1 /\ \A k \in 1 .. Len(s) - m + 1 : b[k] = s[m + k - 1]
  BY SubSeqProperties
<1>3. InsertAt(s, m, e) = c \o b
  BY DEF InsertAt
<1> HIDE DEF a, b
<1>4. c \in Seq(S) /\ Len(c) = m /\ \A k \in 1 .. m : c[k] = IF k < m THEN s[k] ELSE e
  <2>1. <<e>> \in Seq(S) /\ Len(<<e>>) = 1 /\ <<e>>[1] = e
    OBVIOUS
  <2> QED BY <1>1, <2>1, ConcatProperties
<1> HIDE DEF c
<1>5. c \o b \in Seq(S) /\ Len(c \o b) = Len(s) + 1
      /\ \A k \in 1 .. Len(s) + 1 : (c \o b)[k] = IF k <= m THEN c[k] ELSE b[k - m]
  BY <1>2, <1>4, ConcatProperties
<1>6. ASSUME NEW k \in 1 .. Len(s) + 1
      PROVE  (c \o b)[k] = IF k < m THEN s[k] ELSE IF k = m THEN e ELSE s[k - 1]
  <2>1. CASE k <= m
    BY <1>4, <1>5, <2>1
  <2>2. CASE k > m
    <3>1. b[k - m] = s[m + (k - m) - 1] /\ m + (k - m) - 1 = k - 1
      BY <1>2, <2>2
    <3> QED BY <1>5, <2>2, <3>1
  <2>3. k <= m \/ k > m
    BY <1>0
  <2> QED BY <2>1, <2>2, <2>3, Zenon
<1> QED BY <1>3, <1>5, <1>6

LEMMA Spans ==
    ASSUME NEW b \in BlockType
    PROVE  /\ b.offset \in Nat /\ b.size \in Nat /\ BlockEnd(b) = b.offset + b.size
           /\ Span(b) \subseteq Nat
           /\ \A x \in Int : x \in Span(b) <=> b.offset <= x /\ x < b.offset + b.size
  BY DEF BlockType, BlockEnd, Span

LEMMA Grow ==
    ASSUME NEW b \in BlockType, NEW z \in Nat
    PROVE  [b EXCEPT !.size = @ + z] = Block(b.offset, b.size + z)
  BY DEF BlockType, Block

\* Two blocks one after the other, and the block they make.
LEMMA SpanJoin ==
    ASSUME NEW a \in BlockType, NEW b \in BlockType, NEW c \in BlockType,
           b.offset = a.offset + a.size, c.offset = a.offset, c.size = a.size + b.size
    PROVE  Span(c) = Span(a) \cup Span(b) /\ Span(a) \cap Span(b) = {}
<1>1. /\ a.offset \in Nat /\ a.size \in Nat /\ b.size \in Nat
      /\ Span(a) \subseteq Int /\ Span(b) \subseteq Int /\ Span(c) \subseteq Int
  BY Spans
<1>2. ASSUME NEW x \in Int
      PROVE  /\ x \in Span(c) <=> x \in Span(a) \/ x \in Span(b)
             /\ ~(x \in Span(a) /\ x \in Span(b))
  <2>1. /\ x \in Span(a) <=> a.offset <= x /\ x < a.offset + a.size
        /\ x \in Span(b) <=> a.offset + a.size <= x /\ x < a.offset + a.size + b.size
        /\ x \in Span(c) <=> a.offset <= x /\ x < a.offset + (a.size + b.size)
    BY Spans
  <2> QED BY <1>1, <2>1
<1> QED BY <1>1, <1>2

\* A block that is taken out takes its bytes along.
LEMMA RemoveTiles ==
    ASSUME NEW bs \in Seq(BlockType), NEW F, Tiles(bs, F), NEW m \in 1 .. Len(bs)
    PROVE  Tiles(RemoveAt(bs, m), F \ Span(bs[m]))
<1> DEFINE r == RemoveAt(bs, m)
           old(k) == IF k < m THEN k ELSE k + 1
<1>1. r \in Seq(BlockType) /\ Len(r) = Len(bs) - 1
      /\ \A k \in 1 .. Len(bs) - 1 : r[k] = bs[old(k)]
  <2>1. \A k \in 1 .. Len(bs) - 1 : RemoveAt(bs, m)[k] = IF k < m THEN bs[k] ELSE bs[k + 1]
    BY RemoveAtIs
  <2> QED BY <2>1, RemoveAtIs
<1> HIDE DEF r
<1>2. DOMAIN r = 1 .. Len(bs) - 1 /\ DOMAIN bs = 1 .. Len(bs)
  BY <1>1
<1>3. \A k \in DOMAIN r : old(k) \in DOMAIN bs /\ old(k) # m
  BY <1>2
<1>4. \A k, l \in DOMAIN r : k # l => old(k) # old(l)
  BY <1>2
<1>5. ASSUME NEW k \in DOMAIN bs, k # m PROVE \E l \in DOMAIN r : old(l) = k
  <2>1. CASE k < m
    BY <1>2, <2>1
  <2>2. CASE k > m
    <3>1. k - 1 \in DOMAIN r /\ old(k - 1) = k
      BY <1>2, <2>2
    <3> QED BY <3>1
  <2> QED BY <1>2, <1>5, <2>1, <2>2
<1> HIDE DEF old
<1>6. \A k, l \in DOMAIN r : k # l => Span(r[k]) \cap Span(r[l]) = {}
  BY <1>1, <1>2, <1>3, <1>4 DEF Tiles
<1>7. F \ Span(bs[m]) = UNION {Span(r[k]) : k \in DOMAIN r}
  <2>1. ASSUME NEW x \in F \ Span(bs[m]) PROVE x \in UNION {Span(r[k]) : k \in DOMAIN r}
    <3>1. PICK k \in DOMAIN bs : x \in Span(bs[k])
      BY <2>1 DEF Tiles
    <3>2. PICK l \in DOMAIN r : old(l) = k
      BY <1>5, <2>1, <3>1
    <3> QED BY <1>1, <1>2, <3>1, <3>2
  <2>2. ASSUME NEW l \in DOMAIN r, NEW x \in Span(r[l]) PROVE x \in F \ Span(bs[m])
    BY <1>1, <1>2, <1>3, <2>2 DEF Tiles
  <2> QED BY <2>1, <2>2
<1> QED BY <1>6, <1>7 DEF Tiles, r

\* A block that is replaced, by one that overlaps no other.
LEMMA ReplaceTiles ==
    ASSUME NEW bs \in Seq(BlockType), NEW F, Tiles(bs, F), NEW m \in 1 .. Len(bs),
           NEW b \in BlockType, Span(b) \cap (F \ Span(bs[m])) = {}
    PROVE  /\ [bs EXCEPT ![m] = b] \in Seq(BlockType)
           /\ Tiles([bs EXCEPT ![m] = b], (F \ Span(bs[m])) \cup Span(b))
<1> DEFINE r == [bs EXCEPT ![m] = b]
<1>1. r \in Seq(BlockType) /\ DOMAIN r = DOMAIN bs /\ m \in DOMAIN bs
  OBVIOUS
<1>2. r[m] = b /\ \A k \in DOMAIN bs : k # m => r[k] = bs[k]
  OBVIOUS
<1> HIDE DEF r
<1>3. \A k \in DOMAIN bs : k # m => Span(bs[k]) \subseteq F \ Span(bs[m])
  BY <1>1 DEF Tiles
<1>4. \A k, l \in DOMAIN r : k # l => Span(r[k]) \cap Span(r[l]) = {}
  BY <1>1, <1>2, <1>3 DEF Tiles
<1>5. (F \ Span(bs[m])) \cup Span(b) = UNION {Span(r[k]) : k \in DOMAIN r}
  <2>1. ASSUME NEW x \in F \ Span(bs[m]) PROVE x \in UNION {Span(r[k]) : k \in DOMAIN r}
    <3>1. PICK k \in DOMAIN bs : x \in Span(bs[k])
      BY <2>1 DEF Tiles
    <3> QED BY <1>1, <1>2, <2>1, <3>1
  <2> QED BY <1>1, <1>2, <1>3, <2>1
<1> QED BY <1>1, <1>4, <1>5 DEF Tiles, r

\* A new block, of bytes that were not covered.
LEMMA InsertTiles ==
    ASSUME NEW bs \in Seq(BlockType), NEW F, Tiles(bs, F), NEW m \in 1 .. Len(bs) + 1,
           NEW b \in BlockType, Span(b) \cap F = {}
    PROVE  /\ InsertAt(bs, m, b) \in Seq(BlockType)
           /\ Tiles(InsertAt(bs, m, b), F \cup Span(b))
<1> DEFINE r == InsertAt(bs, m, b)
           old(k) == IF k < m THEN k ELSE k - 1
<1>1. r \in Seq(BlockType) /\ Len(r) = Len(bs) + 1
      /\ \A k \in 1 .. Len(bs) + 1 :
            r[k] = IF k < m THEN bs[k] ELSE IF k = m THEN b ELSE bs[k - 1]
  <2> DEFINE S == BlockType
  <2>1. bs \in Seq(S) /\ b \in S
    OBVIOUS
  <2> HIDE DEF S
  <2>2. InsertAt(bs, m, b) \in Seq(S) /\ Len(InsertAt(bs, m, b)) = Len(bs) + 1
    BY <2>1, InsertAtIs
  <2>3. \A k \in 1 .. Len(bs) + 1 :
          InsertAt(bs, m, b)[k] = IF k < m THEN bs[k] ELSE IF k = m THEN b ELSE bs[k - 1]
    BY <2>1, InsertAtIs
  <2> QED BY <2>2, <2>3 DEF S
<1> HIDE DEF r
<1>2. r[m] = b /\ \A k \in DOMAIN r \ {m} : r[k] = bs[old(k)]
  BY <1>1
<1>3. DOMAIN r = 1 .. Len(bs) + 1 /\ DOMAIN bs = 1 .. Len(bs) /\ m \in DOMAIN r
  BY <1>1
<1>4. \A k \in DOMAIN r \ {m} : old(k) \in DOMAIN bs
  BY <1>3
<1>5. \A k, l \in DOMAIN r \ {m} : k # l => old(k) # old(l)
  BY <1>3
<1>6. ASSUME NEW k \in DOMAIN bs PROVE \E l \in DOMAIN r \ {m} : old(l) = k
  <2>1. CASE k < m
    BY <1>3, <2>1
  <2>2. CASE k >= m
    <3>1. k + 1 \in DOMAIN r \ {m} /\ old(k + 1) = k
      BY <1>3, <2>2
    <3> QED BY <3>1
  <2> QED BY <1>3, <2>1, <2>2
<1> HIDE DEF old
<1>7. \A k \in DOMAIN bs : Span(bs[k]) \subseteq F
  BY DEF Tiles
<1>8. \A k, l \in DOMAIN r : k # l => Span(r[k]) \cap Span(r[l]) = {}
  BY <1>2, <1>4, <1>5, <1>7 DEF Tiles
<1>9. F \cup Span(b) = UNION {Span(r[k]) : k \in DOMAIN r}
  <2>1. ASSUME NEW x \in F PROVE x \in UNION {Span(r[k]) : k \in DOMAIN r}
    <3>1. PICK k \in DOMAIN bs : x \in Span(bs[k])
      BY <2>1 DEF Tiles
    <3>2. PICK l \in DOMAIN r \ {m} : old(l) = k
      BY <1>6
    <3> QED BY <1>2, <3>1, <3>2
  <2> QED BY <1>2, <1>3, <1>4, <1>7, <2>1
<1> QED BY <1>1, <1>8, <1>9 DEF Tiles, r

----------------------------------------------------------------------------
(* Allocation: the first bytes of a block, which is large enough.          *)

\* Of some naturals there is a least one.
LEMMA LeastNat ==
    ASSUME NEW S \in SUBSET Nat, S # {}
    PROVE  \E m \in S : \A k \in S : m <= k
<1> DEFINE T == {0 .. k : k \in S}
<1>1. T \subseteq FiniteSubsetsOf(Nat) /\ T # {}
  <2>1. ASSUME NEW k \in S PROVE 0 .. k \in SUBSET Nat /\ IsFiniteSet(0 .. k)
    BY FS_Interval
  <2> QED BY <2>1 DEF FiniteSubsetsOf
<1>2. \E x \in T : \A y \in T : <<y, x>> \notin StrictSubsetOrdering(Nat)
  <2> HIDE DEF T
  <2> QED BY <1>1, FS_StrictSubsetOrderingWellFounded, WFMin
<1>3. PICK m \in S : \A k \in S : <<0 .. k, 0 .. m>> \notin StrictSubsetOrdering(Nat)
  BY <1>2
<1>4. ASSUME NEW k \in S, k < m PROVE FALSE
  <2> DEFINE A == 0 .. k
             B == 0 .. m
  <2>1. A \subseteq B /\ A # B /\ A \in SUBSET Nat /\ B \in SUBSET Nat
    BY <1>4
  <2>2. <<A, B>> \notin StrictSubsetOrdering(Nat)
    BY <1>3
  <2> HIDE DEF A, B
  <2> QED BY <2>1, <2>2 DEF StrictSubsetOrdering
<1> QED BY <1>3, <1>4

LEMMA GreatestBelow ==
    ASSUME NEW n \in Nat, NEW S \in SUBSET (0 .. n), S # {}
    PROVE  \E m \in S : \A k \in S : k <= m
<1> DEFINE T == {n - k : k \in S}
<1>1. T \in SUBSET Nat /\ T # {}
  <2>1. ASSUME NEW k \in S PROVE n - k \in Nat
    OBVIOUS
  <2> QED BY <2>1
<1>2. PICK x \in T : \A y \in T : x <= y
  <2> HIDE DEF T
  <2> QED BY <1>1, LeastNat
<1>3. PICK m \in S : x = n - m
  OBVIOUS
<1>4. ASSUME NEW k \in S PROVE k <= m
  <2>1. x <= n - k
    BY <1>2
  <2> QED BY <1>3, <2>1
<1> QED BY <1>4

\* Of the blocks that fit there is a smallest, and a last one of that size.
LEMMA BestFits ==
    ASSUME NEW bs \in Seq(BlockType), NEW size \in Nat, BestFit(bs, size) # 0
    PROVE  BestFit(bs, size) \in 1 .. Len(bs) /\ Fits(bs[BestFit(bs, size)], size)
<1> DEFINE n == Len(bs)
           ok == {k \in 1 .. n - 1 : Fits(bs[k], size)}
           last == {k \in {n} : Fits(bs[k], size)}
           Better(m, k) == \/ bs[m].size < bs[k].size
                           \/ bs[m].size = bs[k].size /\ k <= m
           best == {m \in ok : \A k \in ok : Better(m, k)}
<1>1. n \in Nat /\ \A k \in 1 .. n : bs[k].size \in Nat
  <2>1. \A k \in 1 .. n : bs[k] \in BlockType
    OBVIOUS
  <2> QED BY <2>1, Spans
<1>2. BestFit(bs, size) =
        IF ok # {} THEN CHOOSE k \in best : TRUE ELSE IF last # {} THEN n ELSE 0
  BY DEF BestFit
<1>3. CASE ok # {}
  <2> DEFINE Sizes == {bs[k].size : k \in ok}
  <2>1. Sizes \in SUBSET Nat /\ Sizes # {}
    BY <1>1, <1>3
  <2>2. PICK z \in Sizes : \A y \in Sizes : z <= y
    <3> HIDE DEF Sizes
    <3> QED BY <2>1, LeastNat
  <2> DEFINE Least == {k \in ok : bs[k].size = z}
  <2>3. Least \in SUBSET (0 .. n) /\ Least # {}
    BY <1>1
  <2>4. PICK m \in Least : \A k \in Least : k <= m
    <3> HIDE DEF Least
    <3> QED BY <1>1, <2>3, GreatestBelow
  <2>5. ASSUME NEW k \in ok PROVE Better(m, k)
    <3>1. z <= bs[k].size /\ bs[m].size = z /\ bs[k].size \in Nat /\ z \in Nat
      BY <1>1, <2>1, <2>2
    <3>2. bs[k].size = z => k <= m
      BY <2>4
    <3> QED BY <3>1, <3>2
  <2>6. m \in best
    BY <2>5
  <2>7. BestFit(bs, size) \in best
    <3> HIDE DEF best
    <3> QED BY <1>2, <1>3, <2>6
  <2> QED BY <1>1, <2>7
<1>4. CASE ok = {}
  <2>1. last # {} /\ BestFit(bs, size) = n
    BY <1>2, <1>4
  <2>2. n # 0
    BY <2>1
  <2> QED BY <1>1, <2>1, <2>2
<1> QED BY <1>3, <1>4

\* A cut takes its bytes from the free ones.
LEMMA CutTiles ==
    ASSUME NEW bs \in Seq(BlockType), NEW F, Tiles(bs, F),
           NEW m \in 1 .. Len(bs), NEW size \in Nat, Fits(bs[m], size)
    PROVE  /\ Block(bs[m].offset, size) \in BlockType
           /\ Span(Block(bs[m].offset, size)) \subseteq F
           /\ Cut(bs, m, size) \in Seq(BlockType)
           /\ Tiles(Cut(bs, m, size), F \ Span(Block(bs[m].offset, size)))
<1> DEFINE b == bs[m]
           front == Block(b.offset, size)
           rest == Block(b.offset + size, b.size - size)
<1>1. b \in BlockType /\ b.offset \in Nat /\ b.size \in Nat /\ b.size >= size
  BY Spans DEF Fits
<1>2. front \in BlockType /\ front.offset = b.offset /\ front.size = size
  BY <1>1 DEF BlockType, Block
<1>3. Span(b) \subseteq F
  BY DEF Tiles
<1>4. rest \in BlockType /\ rest.offset = b.offset + size /\ rest.size = b.size - size
  BY <1>1 DEF BlockType, Block
<1> HIDE DEF b, front, rest
<1>5. /\ rest.offset = front.offset + front.size
      /\ b.offset = front.offset /\ b.size = front.size + rest.size
  BY <1>1, <1>2, <1>4
<1>6. Span(b) = Span(front) \cup Span(rest) /\ Span(front) \cap Span(rest) = {}
  BY <1>1, <1>2, <1>4, <1>5, SpanJoin
<1>7. CASE b.size = size
  <2>1. Span(front) = Span(b)
    <3>1. Span(rest) = {}
      BY <1>1, <1>4, <1>7 DEF Span, BlockEnd
    <3> QED BY <1>6, <3>1
  <2>2. Cut(bs, m, size) = RemoveAt(bs, m)
    BY <1>7 DEF Cut, b
  <2> QED BY <1>2, <1>3, <1>6, <2>1, <2>2, RemoveTiles, RemoveAtIs, ZenonT(60) DEF b, front
<1>8. CASE b.size # size
  <2>1. Cut(bs, m, size) = [bs EXCEPT ![m] = rest]
    BY <1>8 DEF Cut, b, rest
  <2>3. Span(rest) \cap (F \ Span(b)) = {}
    BY <1>6
  <2>4. /\ [bs EXCEPT ![m] = rest] \in Seq(BlockType)
        /\ Tiles([bs EXCEPT ![m] = rest], (F \ Span(b)) \cup Span(rest))
    BY <1>4, <2>3, ReplaceTiles DEF b
  <2>5. (F \ Span(b)) \cup Span(rest) = F \ Span(front)
    BY <1>3, <1>6
  <2> QED BY <1>2, <1>3, <1>6, <2>1, <2>4, <2>5 DEF b, front
<1> QED BY <1>7, <1>8

----------------------------------------------------------------------------
(* Freeing: the range becomes part of a block that it touches, which may   *)
(* then touch its neighbour, or a block of its own.                        *)

LEMMA JoinTiles ==
    ASSUME NEW bs \in Seq(BlockType), NEW F, Tiles(bs, F), NEW m \in Int
    PROVE  JoinedIf(bs, m) \in Seq(BlockType) /\ Tiles(JoinedIf(bs, m), F)
<1>1. CASE ~Adjacent(bs, m)
  BY <1>1 DEF JoinedIf
<1>2. CASE Adjacent(bs, m)
  <2> DEFINE a == bs[m]
             b == bs[m + 1]
             c == Block(a.offset, a.size + b.size)
             r == RemoveAt(bs, m + 1)
             s == [bs EXCEPT ![m].size = @ + bs[m + 1].size]
  <2>1. Len(bs) \in Nat /\ m \in 1 .. Len(bs) - 1 /\ BlockEnd(a) = b.offset
    BY <1>2 DEF Adjacent
  <2>2. /\ a \in BlockType /\ a.offset \in Nat /\ a.size \in Nat
        /\ b \in BlockType /\ b.offset \in Nat /\ b.size \in Nat
        /\ b.offset = a.offset + a.size
    BY <2>1, Spans
  <2>3. c \in BlockType /\ c.offset = a.offset /\ c.size = a.size + b.size
    BY <2>2, SMTT(60) DEF BlockType, Block
  <2>4. s = [bs EXCEPT ![m] = c]
    <3>1. [a EXCEPT !.size = @ + b.size] = c
      BY <2>2, Grow
    <3> QED BY <2>1, <3>1
  <2>5. s \in Seq(BlockType) /\ Len(s) = Len(bs) /\ s[m] = c
        /\ \A k \in 1 .. Len(bs) : k # m => s[k] = bs[k]
    BY <2>1, <2>3, <2>4
  <2> HIDE DEF a, b, c, s
  <2>6. r \in Seq(BlockType) /\ Len(r) = Len(bs) - 1
        /\ \A k \in 1 .. Len(bs) - 1 : r[k] = IF k < m + 1 THEN bs[k] ELSE bs[k + 1]
    <3> DEFINE l == m + 1
               R == BlockType
    <3>1. bs \in Seq(R) /\ l \in 1 .. Len(bs)
      BY <2>1
    <3> HIDE DEF l, R
    <3>2. RemoveAt(bs, l) \in Seq(R) /\ Len(RemoveAt(bs, l)) = Len(bs) - 1
      BY <3>1, RemoveAtIs
    <3>3. \A k \in 1 .. Len(bs) - 1 : RemoveAt(bs, l)[k] = IF k < l THEN bs[k] ELSE bs[k + 1]
      BY <3>1, RemoveAtIs
    <3> QED BY <3>2, <3>3 DEF l, R
  <2>7. RemoveAt(s, m + 1) \in Seq(BlockType) /\ Len(RemoveAt(s, m + 1)) = Len(bs) - 1
        /\ \A k \in 1 .. Len(bs) - 1 :
              RemoveAt(s, m + 1)[k] = IF k < m + 1 THEN s[k] ELSE s[k + 1]
    <3> DEFINE l == m + 1
               R == BlockType
    <3>1. s \in Seq(R) /\ l \in 1 .. Len(s) /\ Len(s) = Len(bs)
      BY <2>1, <2>5
    <3> HIDE DEF l, R
    <3>2. RemoveAt(s, l) \in Seq(R) /\ Len(RemoveAt(s, l)) = Len(s) - 1
      BY <3>1, RemoveAtIs
    <3>3. \A k \in 1 .. Len(s) - 1 : RemoveAt(s, l)[k] = IF k < l THEN s[k] ELSE s[k + 1]
      BY <3>1, RemoveAtIs
    <3> QED BY <3>1, <3>2, <3>3 DEF l, R
  <2> HIDE DEF r
  <2>8. RemoveAt(s, m + 1) = [r EXCEPT ![m] = c]
    <3>1. ASSUME NEW k \in 1 .. Len(bs) - 1 PROVE RemoveAt(s, m + 1)[k] = [r EXCEPT ![m] = c][k]
      BY <2>1, <2>5, <2>6, <2>7
    <3>2. [r EXCEPT ![m] = c] \in Seq(BlockType) /\ Len([r EXCEPT ![m] = c]) = Len(bs) - 1
      BY <2>1, <2>3, <2>6
    <3> HIDE DEF JoinedIf
    <3> QED BY <2>7, <3>1, <3>2, SeqEqual
  <2>9. Tiles(r, F \ Span(b)) /\ m \in 1 .. Len(r) /\ r[m] = a
    BY <2>1, <2>6, RemoveTiles DEF r, a, b
  <2>10. Span(a) \subseteq F /\ Span(b) \subseteq F
    BY <2>1 DEF Tiles, a, b
  <2>11. Span(a) \cap Span(b) = {} /\ Span(c) = Span(a) \cup Span(b)
    BY <2>2, <2>3, SpanJoin
  <2>12. Span(c) \cap ((F \ Span(b)) \ Span(a)) = {}
    BY <2>11
  <2>13. /\ [r EXCEPT ![m] = c] \in Seq(BlockType)
         /\ Tiles([r EXCEPT ![m] = c], ((F \ Span(b)) \ Span(a)) \cup Span(c))
    BY <2>3, <2>6, <2>9, <2>12, ReplaceTiles
  <2>14. ((F \ Span(b)) \ Span(a)) \cup Span(c) = F
    BY <2>10, <2>11
  <2> QED BY <1>2, <2>8, <2>13, <2>14 DEF JoinedIf, Joined, s
<1> QED BY <1>1, <1>2

LEMMA FreedTiles ==
    ASSUME NEW bs \in Seq(BlockType), NEW F, Tiles(bs, F),
           NEW o \in Nat, NEW z \in Nat, Span(Block(o, z)) \cap F = {}
    PROVE  Freed(bs, o, z) \in Seq(BlockType) /\ Tiles(Freed(bs, o, z), F \cup Span(Block(o, z)))
<1> DEFINE d == Block(o, z)
<1>1. d \in BlockType /\ d.offset = o /\ d.size = z
  BY DEF Block, BlockType
<1>2. Span(d) \cap F = {}
  OBVIOUS
<1> HIDE DEF d
<1>3. CASE \E k \in DOMAIN bs : Touches(bs[k], o, z)
  <2> DEFINE m == FirstTouched(bs, o, z)
             a == bs[m]
             end == Block(a.offset, a.size + z)
             front == Block(o, a.size + z)
  <2>1. m \in DOMAIN bs /\ Touches(a, o, z)
    <3> DEFINE S == {k \in DOMAIN bs : Touches(bs[k], o, z)}
    <3>1. S \in SUBSET Nat /\ S # {}
      BY <1>3
    <3>2. PICK k \in S : \A l \in S : k <= l
      <4> HIDE DEF S
      <4> QED BY <3>1, LeastNat
    <3>3. \A l \in 1 .. k - 1 : ~Touches(bs[l], o, z)
      <4>1. ASSUME NEW l \in 1 .. k - 1, Touches(bs[l], o, z) PROVE FALSE
        <5>1. l \in S
          BY <3>1, <4>1
        <5> QED BY <3>1, <3>2, <5>1
      <4> QED BY <4>1
    <3> QED BY <3>2, <3>3 DEF FirstTouched
  <2> HIDE DEF m
  <2>2. m \in 1 .. Len(bs) /\ a \in BlockType /\ a.offset \in Nat /\ a.size \in Nat
    BY <2>1, Spans
  <2>3. Span(a) \subseteq F
    BY <2>1 DEF Tiles
  <2>4. /\ end \in BlockType /\ end.offset = a.offset /\ end.size = a.size + z
        /\ front \in BlockType /\ front.offset = o /\ front.size = a.size + z
    BY <2>2 DEF Block, BlockType
  <2>5. CASE BlockEnd(a) = o
    <3>1. [bs EXCEPT ![m].size = @ + z] = [bs EXCEPT ![m] = end]
      <4>1. [a EXCEPT !.size = @ + z] = end
        BY <2>2, Grow
      <4> QED BY <2>2, <4>1
    <3>2. Freed(bs, o, z) = JoinedIf([bs EXCEPT ![m] = end], m)
      BY <1>3, <2>5, <3>1 DEF Freed, m
    <3> HIDE DEF a, end, front
    <3>3. Span(end) = Span(a) \cup Span(d)
      <4>1. d.offset = a.offset + a.size
        BY <1>1, <2>2, <2>5, Spans
      <4> QED BY <1>1, <2>2, <2>4, <4>1, SpanJoin
    <3>4. /\ [bs EXCEPT ![m] = end] \in Seq(BlockType)
          /\ Tiles([bs EXCEPT ![m] = end], (F \ Span(a)) \cup Span(end))
      <4>1. Span(end) \cap (F \ Span(a)) = {}
        BY <1>2, <3>3
      <4> QED BY <2>2, <2>4, <4>1, ReplaceTiles DEF a
    <3>5. (F \ Span(a)) \cup Span(end) = F \cup Span(d)
      BY <2>3, <3>3
    <3>6. m \in Int /\ m - 1 \in Int
      BY <2>2
    <3> QED BY <3>2, <3>4, <3>5, <3>6, JoinTiles DEF d
  <2>6. CASE BlockEnd(a) # o
    <3>1. o + z = a.offset
      BY <2>1, <2>6 DEF Touches
    <3>2. Freed(bs, o, z) = JoinedIf([bs EXCEPT ![m] = front], m - 1)
      BY <1>3, <2>1, <2>6 DEF Freed, m
    <3> HIDE DEF a, end, front
    <3>3. Span(front) = Span(a) \cup Span(d)
      <4>1. front.size = d.size + a.size
        BY <1>1, <2>2, <2>4
      <4> QED BY <1>1, <2>2, <2>4, <3>1, <4>1, SpanJoin, SMTT(60)
    <3>4. /\ [bs EXCEPT ![m] = front] \in Seq(BlockType)
          /\ Tiles([bs EXCEPT ![m] = front], (F \ Span(a)) \cup Span(front))
      <4>1. Span(front) \cap (F \ Span(a)) = {}
        BY <1>2, <3>3
      <4> QED BY <2>2, <2>4, <4>1, ReplaceTiles DEF a
    <3>5. (F \ Span(a)) \cup Span(front) = F \cup Span(d)
      BY <2>3, <3>3
    <3>6. m \in Int /\ m - 1 \in Int
      BY <2>2
    <3> QED BY <3>2, <3>4, <3>5, <3>6, JoinTiles DEF d
  <2> QED BY <2>5, <2>6
<1>4. CASE ~ \E k \in DOMAIN bs : Touches(bs[k], o, z)
  <2> DEFINE m == Below(bs, o)
  <2>1. m \in 0 .. Len(bs)
    <3> DEFINE n == Len(bs)
               S == {k \in 0 .. n : k < n => bs[k + 1].offset >= o}
    <3>1. S \in SUBSET Nat /\ n \in S /\ n \in Nat
      OBVIOUS
    <3>2. PICK k \in S : \A l \in S : k <= l
      <4> HIDE DEF S
      <4> QED BY <3>1, LeastNat
    <3>3. \A l \in 1 .. k : bs[l].offset < o
      <4>1. ASSUME NEW l \in 1 .. k PROVE bs[l].offset < o
        <5>1. k \in 0 .. n /\ l - 1 \in 0 .. n /\ l \in 1 .. n /\ (l - 1) + 1 = l /\ l - 1 < k
          BY <3>1, <4>1
        <5>3. l - 1 \notin S
          <6> HIDE DEF S
          <6> QED BY <3>1, <3>2, <5>1
        <5>2. bs[l].offset \in Nat
          BY <5>1, Spans
        <5> QED BY <5>1, <5>2, <5>3
      <4> QED BY <4>1
    <3> QED BY <3>2, <3>3 DEF Below
  <2>2. Freed(bs, o, z) = InsertAt(bs, m + 1, d)
    BY <1>4 DEF Freed, d
  <2> HIDE DEF m
  <2>3. m + 1 \in 1 .. Len(bs) + 1
    BY <2>1
  <2> QED BY <1>1, <1>2, <2>2, <2>3, InsertTiles DEF d
<1> QED BY <1>3, <1>4
----------------------------------------------------------------------------
(* An allocator and the tensors it has placed.                             *)

Used(L) == UNION {Span(L[t]) : t \in DOMAIN L}

Tiling(bs, L) ==
    /\ bs \in Seq(BlockType) /\ \A t \in DOMAIN L : L[t] \in BlockType
    /\ \A t, u \in DOMAIN L : t # u => Span(L[t]) \cap Span(L[u]) = {}
    /\ Used(L) \subseteq 0 .. MaxSize - 1
    /\ Tiles(bs, (0 .. MaxSize - 1) \ Used(L))

LEMMA TilingIsTiled == ASSUME NEW bs, NEW L, Tiling(bs, L) PROVE TiledBy(bs, L)
<1>1. UNION {Span(bs[k]) : k \in DOMAIN bs} = (0 .. MaxSize - 1) \ Used(L)
  BY DEF Tiling, Tiles
<1>2. \A m, k \in DOMAIN bs : m # k => Span(bs[m]) \cap Span(bs[k]) = {}
  BY DEF Tiling, Tiles
<1>3. ASSUME NEW t \in DOMAIN L, NEW k \in DOMAIN bs PROVE Span(L[t]) \cap Span(bs[k]) = {}
  <2>1. Span(bs[k]) \subseteq (0 .. MaxSize - 1) \ Used(L)
    BY <1>1
  <2>2. Span(L[t]) \subseteq Used(L)
    BY DEF Used
  <2> QED BY <2>1, <2>2
<1>4. 0 .. MaxSize - 1 = (UNION {Span(bs[k]) : k \in DOMAIN bs}) \cup Used(L)
  BY <1>1 DEF Tiling
<1> QED BY <1>2, <1>3, <1>4 DEF TiledBy, Tiling, Used

LEMMA FreshTiling == ASSUME NEW L, DOMAIN L = {} PROVE Tiling(Fresh, L)
<1>1. Block(0, MaxSize) \in BlockType /\ Fresh \in Seq(BlockType)
      /\ DOMAIN Fresh = {1} /\ Fresh[1] = Block(0, MaxSize)
  BY SizesAssumption DEF Block, BlockType, Fresh
<1>2. Span(Block(0, MaxSize)) = 0 .. MaxSize - 1
  BY SizesAssumption DEF Span, Block, BlockEnd
<1>3. Used(L) = {}
  BY DEF Used
<1> HIDE DEF Fresh, Block, BlockType
<1>4. Tiles(Fresh, 0 .. MaxSize - 1)
  BY <1>1, <1>2 DEF Tiles
<1> QED BY <1>1, <1>3, <1>4 DEF Tiling

\* M is L and tensor t, which has the bytes b.
Adds(M, L, t, b) ==
    DOMAIN M = DOMAIN L \cup {t} /\ (\A u \in DOMAIN L : M[u] = L[u]) /\ M[t] = b

LEMMA AllocTiling ==
    ASSUME NEW bs, NEW L, Tiling(bs, L), NEW t, t \notin DOMAIN L, NEW size \in Nat,
           NEW m \in 1 .. Len(bs), Fits(bs[m], size), NEW M, Adds(M, L, t, Block(bs[m].offset, size))
    PROVE  Tiling(Cut(bs, m, size), M)
<1> DEFINE b == Block(bs[m].offset, size)
           All == 0 .. MaxSize - 1
<1>1. bs \in Seq(BlockType) /\ Tiles(bs, All \ Used(L))
  BY DEF Tiling
<1>2. /\ b \in BlockType /\ Span(b) \subseteq All \ Used(L)
      /\ Cut(bs, m, size) \in Seq(BlockType)
      /\ Tiles(Cut(bs, m, size), (All \ Used(L)) \ Span(b))
  <2> HIDE DEF All
  <2> QED BY <1>1, CutTiles
<1> HIDE DEF b, All
<1>3. M[t] = b /\ DOMAIN M = DOMAIN L \cup {t} /\ \A u \in DOMAIN L : M[u] = L[u]
  BY DEF b, Adds
<1>4. Used(M) = Used(L) \cup Span(b)
  BY <1>3 DEF Used
<1>5. (All \ Used(L)) \ Span(b) = All \ Used(M)
  BY <1>4
<1>6. \A u \in DOMAIN L : Span(L[u]) \subseteq Used(L)
  BY DEF Used
<1>7. \A u, v \in DOMAIN M : u # v => Span(M[u]) \cap Span(M[v]) = {}
  BY <1>2, <1>3, <1>6 DEF Tiling
<1>8. Used(M) \subseteq All
  BY <1>2, <1>4 DEF Tiling, All
<1>9. \A u \in DOMAIN M : M[u] \in BlockType
  BY <1>2, <1>3 DEF Tiling
<1> QED BY <1>2, <1>5, <1>7, <1>8, <1>9 DEF Tiling, All

\* M is L without tensor t.
Drops(M, L, t) == DOMAIN M = DOMAIN L \ {t} /\ \A u \in DOMAIN M : M[u] = L[u]

LEMMA FreeTiling ==
    ASSUME NEW bs, NEW L, Tiling(bs, L), NEW t \in DOMAIN L,
           NEW M, Drops(M, L, t)
    PROVE  Tiling(Freed(bs, L[t].offset, L[t].size), M)
<1>0. DOMAIN M = DOMAIN L \ {t} /\ \A u \in DOMAIN M : M[u] = L[u]
  BY DEF Drops
<1> DEFINE b == L[t]
           All == 0 .. MaxSize - 1
           r == Freed(bs, b.offset, b.size)
<1>1. bs \in Seq(BlockType) /\ Tiles(bs, All \ Used(L)) /\ b \in BlockType
  BY DEF Tiling
<1>2. b.offset \in Nat /\ b.size \in Nat /\ b = Block(b.offset, b.size)
  BY <1>1 DEF BlockType, Block
<1>3. Span(b) \subseteq Used(L) /\ Used(L) \subseteq All
  BY DEF Used, Tiling
<1>4. r \in Seq(BlockType) /\ Tiles(r, (All \ Used(L)) \cup Span(b))
  <2>1. Span(Block(b.offset, b.size)) \cap (All \ Used(L)) = {}
    BY <1>2, <1>3
  <2> HIDE DEF All, b
  <2>2. r \in Seq(BlockType) /\ Tiles(r, (All \ Used(L)) \cup Span(Block(b.offset, b.size)))
    BY <1>1, <1>2, <2>1, FreedTiles
  <2> QED BY <1>2, <2>2
<1> HIDE DEF r
<1>5. \A u \in DOMAIN M : Span(M[u]) \cap Span(b) = {}
  BY <1>0 DEF Tiling
<1>6. Used(M) = Used(L) \ Span(b)
  <2>1. ASSUME NEW x \in Used(L) \ Span(b) PROVE x \in Used(M)
    BY <1>0, <2>1 DEF Used
  <2>2. ASSUME NEW u \in DOMAIN M, NEW x \in Span(M[u]) PROVE x \in Used(L) \ Span(b)
    BY <1>0, <1>5 DEF Used
  <2> QED BY <2>1, <2>2 DEF Used
<1> HIDE DEF b, All
<1>7. (All \ Used(L)) \cup Span(b) = All \ Used(M) /\ Used(M) \subseteq All
  BY <1>3, <1>6
<1>8. \A u, v \in DOMAIN M : u # v => Span(M[u]) \cap Span(M[v]) = {}
  BY <1>0 DEF Tiling
<1>9. \A u \in DOMAIN M : M[u] \in BlockType
  BY <1>0 DEF Tiling
<1> QED BY <1>4, <1>7, <1>8, <1>9 DEF Tiling, All, r, b

LEMMA HandOverTiling ==
    ASSUME NEW bs, NEW L, Tiling(bs, L), NEW t \in DOMAIN L, NEW u, u \notin DOMAIN L, NEW M,
           DOMAIN M = (DOMAIN L \ {t}) \cup {u},
           M[u] = L[t], \A v \in DOMAIN L \ {t} : M[v] = L[v]
    PROVE  Tiling(bs, M)
<1>1. Used(M) = Used(L)
  <2>1. ASSUME NEW v \in DOMAIN L PROVE \E w \in DOMAIN M : M[w] = L[v]
    BY DEF Tiling
  <2>2. ASSUME NEW w \in DOMAIN M PROVE \E v \in DOMAIN L : M[w] = L[v]
    BY DEF Tiling
  <2> QED BY <2>1, <2>2 DEF Used
<1>2. \A v, w \in DOMAIN M : v # w => Span(M[v]) \cap Span(M[w]) = {}
  BY DEF Tiling
<1>3. \A v \in DOMAIN M : M[v] \in BlockType
  BY DEF Tiling
<1> QED BY <1>1, <1>2, <1>3 DEF Tiling
----------------------------------------------------------------------------
(* Sequences put together.                                                 *)

\* FlattenSeq is a recursive function: it exists, and its values are
\* sequences, by the principle of the least counterexample.
LEMMA FlattenType ==
    ASSUME NEW S, NEW ss, Len(ss) \in Nat, ss = [k \in 1 .. Len(ss) |-> ss[k]],
           \A k \in 1 .. Len(ss) : ss[k] \in Seq(S)
    PROVE  FlattenSeq(ss) \in Seq(S)
<1> DEFINE n == Len(ss)
           Step(g, k) == IF k = 1 THEN ss[k] ELSE g[k - 1] \o ss[k]
           flat == CHOOSE g : g = [k \in 1 .. n |-> Step(g, k)]
           Is(g, m) == g \in [1 .. m -> Seq(S)] /\ \A k \in 1 .. m : g[k] = Step(g, k)
<1>1. CASE n = 0
  <2>1. FlattenSeq(ss) = ss
    BY <1>1 DEF FlattenSeq
  <2>2. ss = <<>>
    BY <1>1
  <2> QED BY <2>1, <2>2
<1>2. CASE n # 0
  <2>1. FlattenSeq(ss) = flat[n]
    BY <1>2 DEF FlattenSeq
  <2>2. ASSUME NEW m \in 1 .. n PROVE \E g : Is(g, m)
    <3> DEFINE Bad == {k \in 1 .. n : ~ \E g : Is(g, k)}
    <3> SUFFICES ASSUME Bad # {} PROVE FALSE
      OBVIOUS
    <3>1. PICK b \in Bad : \A k \in Bad : b <= k
      <4>1. Bad \in SUBSET Nat
        OBVIOUS
      <4> HIDE DEF Bad
      <4> QED BY <4>1, LeastNat
    <3>2. b \in 1 .. n /\ ~ \E g : Is(g, b)
      OBVIOUS
    <3>3. CASE b = 1
      <4>1. Is([k \in 1 .. 1 |-> ss[1]], 1)
        BY <1>2
      <4> QED BY <3>2, <3>3, <4>1
    <3>4. CASE b # 1
      <4>1. b - 1 \in 1 .. n /\ b - 1 \notin Bad
        <5>1. b - 1 \in 1 .. n /\ ~(b <= b - 1)
          BY <3>2, <3>4
        <5> HIDE DEF Bad
        <5> QED BY <3>1, <5>1
      <4>2. PICK g : Is(g, b - 1)
        BY <4>1
      <4> DEFINE h == [k \in 1 .. b |-> IF k = b THEN g[b - 1] \o ss[b] ELSE g[k]]
      <4>3. g[b - 1] \o ss[b] \in Seq(S)
        BY <3>2, <4>1, <4>2, ConcatProperties
      <4>4. h \in [1 .. b -> Seq(S)]
        BY <3>2, <4>2, <4>3
      <4>5. ASSUME NEW k \in 1 .. b PROVE h[k] = Step(h, k)
        <5>1. CASE k = b
          <6>1. b - 1 \in 1 .. b /\ b - 1 # b
            BY <3>2, <3>4
          <6>2. h[b - 1] = g[b - 1] /\ h[b] = g[b - 1] \o ss[b]
            BY <6>1
          <6> QED BY <3>4, <5>1, <6>2
        <5>2. CASE k # b
          <6>1. k \in 1 .. b - 1 /\ (k # 1 => k - 1 \in 1 .. b /\ k - 1 # b)
            BY <3>2, <5>2
          <6>2. h[k] = g[k] /\ (k # 1 => h[k - 1] = g[k - 1])
            BY <5>2, <6>1
          <6> QED BY <4>2, <6>1, <6>2
        <5> QED BY <5>1, <5>2
      <4>6. Is(h, b)
        BY <4>4, <4>5
      <4> QED BY <3>2, <4>6
    <3> QED BY <3>3, <3>4
  <2>3. PICK g : Is(g, n)
    <3>1. n \in 1 .. n
      BY <1>2
    <3> HIDE DEF Is, n
    <3> QED BY <2>2, <3>1
  <2>4. g = [k \in 1 .. n |-> Step(g, k)]
    BY <2>3
  <2>5. flat = [k \in 1 .. n |-> Step(flat, k)]
    <3> HIDE DEF Step, n
    <3> QED BY <2>4
  <2>6. \A k \in 1 .. n : flat[k] = Step(flat, k)
    <3> HIDE DEF Step, n, flat
    <3> QED BY <2>5
  <2> HIDE DEF flat
  <2>7. ASSUME NEW m \in 1 .. n PROVE flat[m] \in Seq(S)
    <3> DEFINE Bad == {k \in 1 .. n : flat[k] \notin Seq(S)}
    <3> SUFFICES ASSUME Bad # {} PROVE FALSE
      OBVIOUS
    <3>1. PICK b \in Bad : \A k \in Bad : b <= k
      <4>1. Bad \in SUBSET Nat
        OBVIOUS
      <4> HIDE DEF Bad
      <4> QED BY <4>1, LeastNat
    <3>2. b \in 1 .. n /\ flat[b] \notin Seq(S) /\ ss[b] \in Seq(S)
      OBVIOUS
    <3>3. CASE b = 1
      BY <2>6, <3>2, <3>3
    <3>4. CASE b # 1
      <4>1. b - 1 \in 1 .. n /\ b - 1 \notin Bad
        <5>1. b - 1 \in 1 .. n /\ ~(b <= b - 1)
          BY <3>2, <3>4
        <5> HIDE DEF Bad
        <5> QED BY <3>1, <5>1
      <4>2. flat[b - 1] \in Seq(S)
        BY <4>1
      <4>3. flat[b] = flat[b - 1] \o ss[b]
        BY <2>6, <3>2, <3>4
      <4> QED BY <3>2, <4>2, <4>3, ConcatProperties
    <3> QED BY <3>3, <3>4
  <2> QED BY <1>2, <2>1, <2>7
<1> QED BY <1>1, <1>2
----------------------------------------------------------------------------
(* The plan.                                                               *)

\* One graph is allocated after the other.
GraphNext == Walk \/ \E g, moved : IsGraph(g) /\ AllocSplits(g, moved)

GraphSpec == Init /\ [][GraphNext]_vars

Place == [buffer : Buffers \cup {0}, offset : Nat, size : Nat, allocated : BOOLEAN, children : Int, views : Int]

PlanType ==
    /\ hn \in [DOMAIN hn -> Place]
    /\ \A t \in DOMAIN hn : hn[t].allocated => hn[t].buffer \in Buffers
    /\ blocks \in [Buffers -> Seq(BlockType)] /\ maxs \in [Buffers -> Nat]
    /\ pc = "plan" =>
         /\ IsGraph(graph) /\ DOMAIN hn = Ids(graph)
         /\ \A t \in Ids(graph) : hn[t].size = Aligned(graph.t[t].size)
         /\ todo \in Seq(Ids(graph) \X Buffers)
         /\ i \in graph.nl .. Len(graph.t) /\ j \in Nat \ {0}

Within(b) == \A t \in DOMAIN LiveIn(b) : BlockEnd(LiveIn(b)[t]) <= maxs[b]

GInv == PlanType /\ \A b \in Buffers : Tiling(blocks[b], LiveIn(b)) /\ Within(b)

LEMMA AlignedNat == ASSUME NEW z \in Nat PROVE Aligned(z) \in Nat
<1>1. alignment \in Nat \ {0}
  BY SizesAssumption
<1> DEFINE a == alignment
           q == (z + a - 1) \div a
<1>2. q \in Nat
  BY <1>1
<1> HIDE DEF q
<1>3. q * a \in Nat
  BY <1>1, <1>2
<1> QED BY <1>3 DEF Aligned, q

LEMMA GraphNumbers ==
    ASSUME NEW g, IsGraph(g)
    PROVE  g.nl \in Nat /\ Len(g.t) \in Nat /\ g.nl <= Len(g.t) /\ Ids(g) = 1 .. Len(g.t)
  BY DEF IsGraph, Ids

LEMMA GraphTensor ==
    ASSUME NEW g, IsGraph(g), NEW t \in Ids(g)
    PROVE  /\ g.t[t].size \in Nat /\ g.t[t].buffer \in Buffers
           /\ g.t[t].view \in Ids(g) \cup {0}
           /\ g.t[t].src \in Seq(Ids(g))
  BY DEF IsGraph

LEMMA FreshSeq == Fresh \in Seq(BlockType)
<1>1. Block(0, MaxSize) \in BlockType
  BY SizesAssumption DEF Block, BlockType
<1> HIDE DEF BlockType
<1> QED BY <1>1 DEF Fresh

LEMMA Counts ==
    ASSUME NEW g, IsGraph(g), NEW t
    PROVE  Children(g, t) \in Int /\ Views(g, t) \in Int
<1>1. IsFiniteSet(Nodes(g)) /\ IsFiniteSet(1 .. 3)
  <2>1. PICK a \in Int, b \in Int : Nodes(g) = a .. b
    <3>1. g.nl + 1 \in Int /\ Len(g.t) \in Int
      BY GraphNumbers
    <3> QED BY <3>1 DEF Nodes
  <2>2. IsFiniteSet(a .. b)
    BY FS_Interval
  <2>3. PICK c \in Int, d \in Int : c = 1 /\ d = 3
    OBVIOUS
  <2>4. IsFiniteSet(c .. d)
    BY FS_Interval
  <2> QED BY <2>1, <2>2, <2>3, <2>4
<1>2. IsFiniteSet(Nodes(g) \X (1 .. 3))
  BY <1>1, FS_Product
<1> DEFINE A == {r \in Nodes(g) \X (1 .. 3) :
                    r[2] \in DOMAIN g.t[r[1]].src /\ g.t[r[1]].src[r[2]] = t}
           B == {n \in Nodes(g) : g.t[n].view = t /\ g.t[n].kind # "dep"}
<1>3. A \subseteq Nodes(g) \X (1 .. 3) /\ B \subseteq Nodes(g)
  OBVIOUS
<1>4. Children(g, t) = Cardinality(A) /\ Views(g, t) = Cardinality(B)
  BY DEF Children, Views
<1> HIDE DEF A, B
<1>5. IsFiniteSet(A) /\ IsFiniteSet(B)
  BY <1>1, <1>2, <1>3, FS_Subset
<1>6. Cardinality(A) \in Nat /\ Cardinality(B) \in Nat
  BY <1>5, FS_CardinalityType
<1> QED BY <1>4, <1>6

LEMMA FirstOnesType ==
    ASSUME NEW g, IsGraph(g)
    PROVE  FirstOnes(g) \in Seq(Ids(g) \X Buffers)
<1> DEFINE S == Ids(g) \X Buffers
           used(n) == <<n>> \o g.t[n].src
           inputOf(n, s) == IF g.t[s].kind = "input" THEN << <<s, g.t[n].buffer>> >> ELSE <<>>
           ins(n) == [m \in DOMAIN used(n) |-> inputOf(n, used(n)[m])]
           leafs == [k \in Leafs(g) |-> <<k, g.t[k].buffer>>]
           nodes == [k \in 1 .. NNodes(g) |-> FlattenSeq(ins(g.nl + k))]
<1>1. FirstOnes(g) = leafs \o FlattenSeq(nodes)
  BY DEF FirstOnes
<1>2. leafs \in Seq(S)
  <2>1. g.nl \in Nat /\ Leafs(g) = 1 .. g.nl /\ \A k \in 1 .. g.nl : k \in Ids(g)
    BY GraphNumbers DEF Leafs
  <2>2. \A k \in 1 .. g.nl : <<k, g.t[k].buffer>> \in S
    BY <2>1, GraphTensor
  <2> HIDE DEF S
  <2> QED BY <2>1, <2>2
<1>3. ASSUME NEW n \in Ids(g) PROVE FlattenSeq(ins(n)) \in Seq(S)
  <2>1. g.t[n].src \in Seq(Ids(g)) /\ g.t[n].buffer \in Buffers
    BY GraphTensor
  <2> DEFINE u == used(n)
             l == Len(u)
  <2>2. u \in Seq(Ids(g)) /\ l \in Nat /\ DOMAIN u = 1 .. l
    BY <2>1
  <2> HIDE DEF u, l
  <2>3. ASSUME NEW k \in 1 .. l PROVE inputOf(n, u[k]) \in Seq(S)
    <3>1. <<u[k], g.t[n].buffer>> \in S
      BY <2>1, <2>2
    <3> HIDE DEF S
    <3>2. << <<u[k], g.t[n].buffer>> >> \in Seq(S) /\ <<>> \in Seq(S)
      BY <3>1
    <3> QED BY <3>2
  <2> DEFINE w == [m \in 1 .. l |-> inputOf(n, u[m])]
  <2> HIDE DEF inputOf, S
  <2>4. Len(w) = l /\ w = [k \in 1 .. Len(w) |-> w[k]]
    BY <2>2
  <2>5. \A k \in 1 .. Len(w) : w[k] \in Seq(S)
    BY <2>3, <2>4
  <2>6. ins(n) = w
    BY <2>2 DEF u
  <2> HIDE DEF w
  <2>7. FlattenSeq(w) \in Seq(S)
    BY <2>2, <2>4, <2>5, FlattenType
  <2> QED BY <2>6, <2>7
<1>4. FlattenSeq(nodes) \in Seq(S)
  <2>1. NNodes(g) \in Nat /\ \A k \in 1 .. NNodes(g) : g.nl + k \in Ids(g)
    BY GraphNumbers DEF NNodes
  <2> HIDE DEF ins, S
  <2>2. Len(nodes) = NNodes(g) /\ nodes = [k \in 1 .. Len(nodes) |-> nodes[k]]
    BY <2>1
  <2>3. \A k \in 1 .. Len(nodes) : nodes[k] \in Seq(S)
    BY <1>3, <2>1, <2>2
  <2> HIDE DEF nodes
  <2> QED BY <2>1, <2>2, <2>3, FlattenType
<1> HIDE DEF leafs, nodes, S
<1>5. leafs \o FlattenSeq(nodes) \in Seq(S)
  BY <1>2, <1>4, ConcatProperties
<1> QED BY <1>1, <1>5 DEF S

LEMMA UnsetPlace == Unset \in Place /\ Unset.allocated = FALSE
  BY DEF Unset, Place

LEMMA BeginKeeps ==
    ASSUME NEW g, IsGraph(g), Begin(g)
    PROVE  GInv'
<1> DEFINE h(t) == [Unset EXCEPT !.size = Aligned(g.t[t].size),
                                !.children = Children(g, t), !.views = Views(g, t)]
<1>0. /\ graph' = g /\ hn' = [t \in Ids(g) |-> h(t)] /\ todo' = FirstOnes(g)
      /\ i' = g.nl /\ j' = 1 /\ pc' = "plan"
      /\ blocks' = [b \in Buffers |-> Fresh] /\ maxs' = [b \in Buffers |-> 0]
  BY DEF Begin
<1>1. ASSUME NEW t \in Ids(g)
      PROVE  h(t) \in Place /\ h(t).size = Aligned(g.t[t].size) /\ h(t).allocated = FALSE
  <2>1. g.t[t].size \in Nat
    BY GraphTensor
  <2>2. Aligned(g.t[t].size) \in Nat
    BY <2>1, AlignedNat
  <2>3. Children(g, t) \in Int /\ Views(g, t) \in Int
    BY Counts
  <2> DEFINE a == Aligned(g.t[t].size)
             c == Children(g, t)
             v == Views(g, t)
  <2> HIDE DEF a, c, v
  <2>4. a \in Nat /\ c \in Int /\ v \in Int
    BY <2>2, <2>3 DEF a, c, v
  <2>5. h(t) = [Unset EXCEPT !.size = a, !.children = c, !.views = v]
    BY DEF a, c, v
  <2> HIDE DEF h
  <2>6. h(t) \in Place /\ h(t).size = a /\ h(t).allocated = FALSE
    <3>1. PICK x \in Place : x = Unset /\ x.allocated = FALSE
      BY UnsetPlace
    <3>2. PICK y : y = h(t)
      OBVIOUS
    <3>3. y = [x EXCEPT !.size = a, !.children = c, !.views = v]
      BY <2>5, <3>1, <3>2
    <3>4. y \in Place /\ y.size = a /\ y.allocated = x.allocated
      BY <2>4, <3>3 DEF Place
    <3> QED BY <3>1, <3>2, <3>4
  <2> QED BY <2>6 DEF a
<1> HIDE DEF h
<1>2. /\ hn' \in [DOMAIN hn' -> Place] /\ DOMAIN hn' = Ids(g)
      /\ \A t \in Ids(g) : hn'[t].size = Aligned(g.t[t].size) /\ hn'[t].allocated = FALSE
  BY <1>0, <1>1
<1>3. Fresh \in Seq(BlockType)
  BY FreshSeq
<1>4. PlanType'
  <2>1. \A t \in DOMAIN hn' : hn'[t].allocated => hn'[t].buffer \in Buffers
    BY <1>2
  <2>2. blocks' \in [Buffers -> Seq(BlockType)] /\ maxs' \in [Buffers -> Nat]
    BY <1>0, <1>3
  <2>3. todo' \in Seq(Ids(g) \X Buffers)
    BY <1>0, FirstOnesType
  <2>4. i' \in g.nl .. Len(g.t) /\ j' \in Nat \ {0}
    BY <1>0, GraphNumbers
  <2> QED BY <1>0, <1>2, <2>1, <2>2, <2>3, <2>4, Zenon DEF PlanType
<1>5. ASSUME NEW b \in Buffers PROVE Tiling(blocks[b], LiveIn(b))' /\ Within(b)'
  <2>1. DOMAIN LiveIn(b)' = {}
    BY <1>2 DEF LiveIn
  <2>2. blocks'[b] = Fresh
    BY <1>0
  <2>3. Tiling(Fresh, LiveIn(b)')
    BY <2>1, FreshTiling
  <2> QED BY <2>1, <2>2, <2>3 DEF Within
<1> QED BY <1>4, <1>5 DEF GInv

LEMMA GraphStart == Init => GInv
<1> SUFFICES ASSUME Init PROVE GInv
  OBVIOUS
<1>1. hn = <<>> /\ blocks = [b \in Buffers |-> Fresh] /\ maxs = [b \in Buffers |-> 0] /\ pc = "idle"
  BY DEF Init
<1>2. DOMAIN hn = {} /\ hn \in [DOMAIN hn -> Place]
  BY <1>1
<1>3. \A b \in Buffers : DOMAIN LiveIn(b) = {}
  BY <1>2 DEF LiveIn
<1>4. Fresh \in Seq(BlockType)
  BY FreshSeq
<1>5. PlanType
  BY <1>1, <1>2, <1>4 DEF PlanType
<1>6. ASSUME NEW b \in Buffers PROVE Tiling(blocks[b], LiveIn(b)) /\ Within(b)
  <2>1. blocks[b] = Fresh
    BY <1>1
  <2> QED BY <1>3, <2>1, FreshTiling DEF Within
<1> QED BY <1>5, <1>6 DEF GInv

----------------------------------------------------------------------------
(* The tensors that have memory.                                           *)

Live(h, b) ==
    [t \in {t \in DOMAIN h : h[t].allocated /\ h[t].buffer = b} |-> Block(h[t].offset, h[t].size)]

\* everything of a place but its counters
SamePlace(x, y) ==
    x.buffer = y.buffer /\ x.offset = y.offset /\ x.size = y.size /\ x.allocated = y.allocated

\* From places h to places k: tensor t has got memory, has got it from p, and
\* has lost it; nothing else has changed but counters.
Gets(k, h, t, b, o) ==
    /\ DOMAIN k = DOMAIN h /\ \A u \in DOMAIN h \ {t} : SamePlace(k[u], h[u])
    /\ k[t].allocated /\ k[t].buffer = b /\ k[t].offset = o /\ k[t].size = h[t].size

GetsFrom(k, h, t, p) ==
    /\ DOMAIN k = DOMAIN h /\ \A u \in DOMAIN h \ {p, t} : SamePlace(k[u], h[u])
    /\ ~k[p].allocated /\ k[t].allocated
    /\ k[t].buffer = h[p].buffer /\ k[t].offset = h[p].offset /\ k[t].size = h[t].size

Loses(k, h, t) ==
    /\ DOMAIN k = DOMAIN h /\ \A u \in DOMAIN h \ {t} : SamePlace(k[u], h[u])
    /\ ~k[t].allocated

Roomy(L, z) == \A t \in DOMAIN L : BlockEnd(L[t]) <= z

LEMMA LiveAt ==
    ASSUME NEW h, NEW b
    PROVE  /\ \A t : t \in DOMAIN Live(h, b) <=> t \in DOMAIN h /\ h[t].allocated /\ h[t].buffer = b
           /\ \A t \in DOMAIN Live(h, b) : Live(h, b)[t] = Block(h[t].offset, h[t].size)
  BY DEF Live

LEMMA LiveSame ==
    ASSUME NEW h, NEW k, NEW b, DOMAIN k = DOMAIN h,
           \A t \in DOMAIN h :
               \/ SamePlace(k[t], h[t])
               \/ ~(h[t].allocated /\ h[t].buffer = b) /\ ~(k[t].allocated /\ k[t].buffer = b)
    PROVE  Live(k, b) = Live(h, b)
<1> DEFINE A == {t \in DOMAIN h : h[t].allocated /\ h[t].buffer = b}
           B == {t \in DOMAIN k : k[t].allocated /\ k[t].buffer = b}
<1>1. A = B
  BY DEF SamePlace
<1>2. \A t \in A : k[t].offset = h[t].offset /\ k[t].size = h[t].size
  BY DEF SamePlace
<1> HIDE DEF A, B
<1>3. [t \in A |-> Block(h[t].offset, h[t].size)] = [t \in B |-> Block(k[t].offset, k[t].size)]
  BY <1>1, <1>2
<1> QED BY <1>3 DEF Live, A, B

LEMMA InvIs ==
    GInv <=> PlanType /\ \A b \in Buffers : Tiling(blocks[b], Live(hn, b)) /\ Roomy(Live(hn, b), maxs[b])
  BY DEF GInv, Within, LiveIn, Live, Roomy

\* What an allocation, a hand-over and a release do to the tensors of the buffer.
LEMMA AddsLive ==
    ASSUME NEW h, NEW b, NEW t \in DOMAIN h, ~h[t].allocated, NEW o, NEW k, Gets(k, h, t, b, o)
    PROVE  /\ t \notin DOMAIN Live(h, b)
           /\ Adds(Live(k, b), Live(h, b), t, Block(o, h[t].size))
<1> USE DEF Gets
<1>a. /\ \A u : u \in DOMAIN Live(h, b) <=> u \in DOMAIN h /\ h[u].allocated /\ h[u].buffer = b
      /\ \A u \in DOMAIN Live(h, b) : Live(h, b)[u] = Block(h[u].offset, h[u].size)
  BY LiveAt
<1>b. /\ \A u : u \in DOMAIN Live(k, b) <=> u \in DOMAIN h /\ k[u].allocated /\ k[u].buffer = b
      /\ \A u \in DOMAIN Live(k, b) : Live(k, b)[u] = Block(k[u].offset, k[u].size)
  BY LiveAt
<1>1. t \notin DOMAIN Live(h, b) /\ t \in DOMAIN Live(k, b)
  BY <1>a, <1>b
<1>2. \A u : u # t => (u \in DOMAIN Live(k, b) <=> u \in DOMAIN Live(h, b))
  BY <1>a, <1>b DEF SamePlace
<1>3. \A u \in DOMAIN Live(h, b) : Live(k, b)[u] = Live(h, b)[u]
  BY <1>a, <1>b, <1>1, <1>2 DEF SamePlace
<1>4. DOMAIN Live(k, b) = DOMAIN Live(h, b) \cup {t} /\ Live(k, b)[t] = Block(o, h[t].size)
  BY <1>b, <1>1, <1>2
<1> QED BY <1>1, <1>3, <1>4 DEF Adds

Replaces(M, L, p, t) ==
    /\ DOMAIN M = (DOMAIN L \ {p}) \cup {t}
    /\ \A u \in DOMAIN L \ {p} : M[u] = L[u]
    /\ M[t] = L[p]

LEMMA ReplacesLive ==
    ASSUME NEW h, NEW b, NEW p \in DOMAIN h, h[p].allocated, h[p].buffer = b,
           NEW t \in DOMAIN h, ~h[t].allocated, h[t].size = h[p].size,
           NEW k, GetsFrom(k, h, t, p)
    PROVE  /\ p \in DOMAIN Live(h, b) /\ t \notin DOMAIN Live(h, b)
           /\ Replaces(Live(k, b), Live(h, b), p, t)
<1> USE DEF GetsFrom
<1>a. /\ \A u : u \in DOMAIN Live(h, b) <=> u \in DOMAIN h /\ h[u].allocated /\ h[u].buffer = b
      /\ \A u \in DOMAIN Live(h, b) : Live(h, b)[u] = Block(h[u].offset, h[u].size)
  BY LiveAt
<1>b. /\ \A u : u \in DOMAIN Live(k, b) <=> u \in DOMAIN h /\ k[u].allocated /\ k[u].buffer = b
      /\ \A u \in DOMAIN Live(k, b) : Live(k, b)[u] = Block(k[u].offset, k[u].size)
  BY LiveAt
<1>1. /\ p \in DOMAIN Live(h, b) /\ t \notin DOMAIN Live(h, b)
      /\ p \notin DOMAIN Live(k, b) /\ t \in DOMAIN Live(k, b)
  BY <1>a, <1>b
<1>2. \A u : u \notin {p, t} => (u \in DOMAIN Live(k, b) <=> u \in DOMAIN Live(h, b))
  BY <1>a, <1>b DEF SamePlace
<1>3. \A u \in DOMAIN Live(h, b) \ {p} : Live(k, b)[u] = Live(h, b)[u]
  BY <1>a, <1>b, <1>1, <1>2 DEF SamePlace
<1>4. Live(k, b)[t] = Live(h, b)[p]
  BY <1>a, <1>b, <1>1
<1>5. DOMAIN Live(k, b) = (DOMAIN Live(h, b) \ {p}) \cup {t}
  BY <1>1, <1>2
<1> QED BY <1>1, <1>3, <1>4, <1>5 DEF Replaces

LEMMA DropsLive ==
    ASSUME NEW h, NEW b, NEW t \in DOMAIN h, h[t].allocated, h[t].buffer = b,
           NEW k, Loses(k, h, t)
    PROVE  /\ t \in DOMAIN Live(h, b) /\ Drops(Live(k, b), Live(h, b), t)
           /\ Live(h, b)[t].offset = h[t].offset /\ Live(h, b)[t].size = h[t].size
<1> USE DEF Loses
<1>a. /\ \A u : u \in DOMAIN Live(h, b) <=> u \in DOMAIN h /\ h[u].allocated /\ h[u].buffer = b
      /\ \A u \in DOMAIN Live(h, b) : Live(h, b)[u] = Block(h[u].offset, h[u].size)
  BY LiveAt
<1>b. /\ \A u : u \in DOMAIN Live(k, b) <=> u \in DOMAIN h /\ k[u].allocated /\ k[u].buffer = b
      /\ \A u \in DOMAIN Live(k, b) : Live(k, b)[u] = Block(k[u].offset, k[u].size)
  BY LiveAt
<1>1. t \in DOMAIN Live(h, b) /\ t \notin DOMAIN Live(k, b)
  BY <1>a, <1>b
<1>2. \A u : u # t => (u \in DOMAIN Live(k, b) <=> u \in DOMAIN Live(h, b))
  BY <1>a, <1>b DEF SamePlace
<1>3. \A u \in DOMAIN Live(k, b) : Live(k, b)[u] = Live(h, b)[u]
  BY <1>a, <1>b, <1>1, <1>2 DEF SamePlace
<1>4. Live(h, b)[t] = Block(h[t].offset, h[t].size)
  BY <1>a, <1>1
<1> QED BY <1>1, <1>2, <1>3, <1>4 DEF Drops, Block

\* They keep the memory tiled.
LEMMA AllocLive ==
    ASSUME NEW bs, NEW z \in Nat, NEW h, NEW b, Tiling(bs, Live(h, b)), Roomy(Live(h, b), z),
           NEW t \in DOMAIN h, ~h[t].allocated, h[t].size \in Nat,
           NEW m, m = BestFit(bs, h[t].size), m # 0, NEW o, o = bs[m].offset,
           NEW k, Gets(k, h, t, b, o)
    PROVE  /\ o \in Nat
           /\ Tiling(Cut(bs, m, h[t].size), Live(k, b))
           /\ Roomy(Live(k, b), IF o + h[t].size > z THEN o + h[t].size ELSE z)
<1>1. bs \in Seq(BlockType)
  BY DEF Tiling
<1>2. m \in 1 .. Len(bs) /\ Fits(bs[m], h[t].size)
  BY <1>1, BestFits
<1>3. o \in Nat
  BY <1>1, <1>2, Spans
<1>4. /\ t \notin DOMAIN Live(h, b)
      /\ DOMAIN Live(k, b) = DOMAIN Live(h, b) \cup {t}
      /\ \A u \in DOMAIN Live(h, b) : Live(k, b)[u] = Live(h, b)[u]
      /\ Live(k, b)[t] = Block(o, h[t].size)
  <2>1. t \notin DOMAIN Live(h, b) /\ Adds(Live(k, b), Live(h, b), t, Block(o, h[t].size))
    BY AddsLive
  <2> QED BY ONLY <2>1 DEF Adds
<1>5. Tiling(Cut(bs, m, h[t].size), Live(k, b))
  <2>1. PICK L, M, z1 : L = Live(h, b) /\ M = Live(k, b) /\ z1 = h[t].size
    OBVIOUS
  <2>2. /\ z1 \in Nat /\ Tiling(bs, L) /\ t \notin DOMAIN L /\ DOMAIN M = DOMAIN L \cup {t}
        /\ \A u \in DOMAIN L : M[u] = L[u]
        /\ M[t] = Block(bs[m].offset, z1) /\ Fits(bs[m], z1)
    BY <1>2, <1>4, <2>1
  <2>3. Tiling(Cut(bs, m, z1), M)
    <3>1. Adds(M, L, t, Block(bs[m].offset, z1))
      BY <2>2 DEF Adds
    <3> QED BY <1>2, <2>2, <3>1, AllocTiling
  <2> QED BY <2>1, <2>3
<1>6. ASSUME NEW u \in DOMAIN Live(k, b)
      PROVE  BlockEnd(Live(k, b)[u]) <= IF o + h[t].size > z THEN o + h[t].size ELSE z
  <2>1. CASE u = t
    <3>1. BlockEnd(Live(k, b)[u]) = o + h[t].size
      BY <1>4, <2>1 DEF Block, BlockEnd
    <3> QED BY <1>3, <3>1
  <2>2. CASE u # t
    <3>1. u \in DOMAIN Live(h, b) /\ Live(k, b)[u] = Live(h, b)[u]
      BY <1>4, <2>2
    <3>2. Live(h, b)[u] \in BlockType
      BY <3>1 DEF Tiling
    <3>3. BlockEnd(Live(h, b)[u]) \in Nat /\ BlockEnd(Live(h, b)[u]) <= z
      BY <3>1, <3>2 DEF Roomy, BlockEnd, BlockType
    <3> QED BY <1>3, <3>1, <3>3
  <2> QED BY <2>1, <2>2
<1> QED BY <1>3, <1>5, <1>6 DEF Roomy

LEMMA HandOverLive ==
    ASSUME NEW bs, NEW z, NEW h, NEW b, Tiling(bs, Live(h, b)), Roomy(Live(h, b), z),
           NEW p \in DOMAIN h, h[p].allocated, h[p].buffer = b,
           NEW t \in DOMAIN h, ~h[t].allocated, h[t].size = h[p].size,
           NEW k, GetsFrom(k, h, t, p)
    PROVE  Tiling(bs, Live(k, b)) /\ Roomy(Live(k, b), z)
<1>1. /\ p \in DOMAIN Live(h, b) /\ t \notin DOMAIN Live(h, b)
      /\ DOMAIN Live(k, b) = (DOMAIN Live(h, b) \ {p}) \cup {t}
      /\ \A u \in DOMAIN Live(h, b) \ {p} : Live(k, b)[u] = Live(h, b)[u]
      /\ Live(k, b)[t] = Live(h, b)[p]
  <2>1. /\ p \in DOMAIN Live(h, b) /\ t \notin DOMAIN Live(h, b)
        /\ Replaces(Live(k, b), Live(h, b), p, t)
    BY ReplacesLive
  <2> QED BY ONLY <2>1 DEF Replaces
<1>2. Tiling(bs, Live(k, b))
  BY <1>1, HandOverTiling
<1>3. Roomy(Live(k, b), z)
  BY <1>1 DEF Roomy
<1> QED BY <1>2, <1>3

LEMMA FreeLive ==
    ASSUME NEW bs, NEW z, NEW h, NEW b, Tiling(bs, Live(h, b)), Roomy(Live(h, b), z),
           NEW t \in DOMAIN h, h[t].allocated, h[t].buffer = b,
           NEW k, Loses(k, h, t)
    PROVE  Tiling(Freed(bs, h[t].offset, h[t].size), Live(k, b)) /\ Roomy(Live(k, b), z)
<1>1. /\ t \in DOMAIN Live(h, b) /\ Drops(Live(k, b), Live(h, b), t)
      /\ Live(h, b)[t].offset = h[t].offset /\ Live(h, b)[t].size = h[t].size
  BY DropsLive
<1>2. Tiling(Freed(bs, h[t].offset, h[t].size), Live(k, b))
  <2>1. PICK L, M : L = Live(h, b) /\ M = Live(k, b)
    OBVIOUS
  <2>2. Tiling(bs, L) /\ t \in DOMAIN L /\ Drops(M, L, t)
    BY <1>1, <2>1
  <2>3. Tiling(Freed(bs, L[t].offset, L[t].size), M)
    BY <2>2, FreeTiling
  <2>4. L[t].offset = h[t].offset /\ L[t].size = h[t].size
    BY <1>1, <2>1
  <2> QED BY <2>1, <2>3, <2>4
<1>3. Roomy(Live(k, b), z)
  BY <1>1 DEF Roomy, Drops
<1> QED BY <1>2, <1>3

----------------------------------------------------------------------------
(* One lemma per step of a plan.                                           *)

LEMMA PlanFacts ==
    ASSUME PlanType, pc = "plan"
    PROVE  /\ IsGraph(graph) /\ DOMAIN hn = Ids(graph) /\ hn \in [Ids(graph) -> Place]
           /\ \A t \in Ids(graph) : hn[t].size = Aligned(graph.t[t].size)
           /\ \A t \in Ids(graph) : hn[t].allocated => hn[t].buffer \in Buffers
           /\ todo \in Seq(Ids(graph) \X Buffers)
           /\ i \in graph.nl .. Len(graph.t) /\ j \in Nat \ {0}
           /\ blocks \in [Buffers -> Seq(BlockType)] /\ maxs \in [Buffers -> Nat]
  BY DEF PlanType

LEMMA PlaceFacts ==
    ASSUME NEW x \in Place
    PROVE  /\ x.buffer \in Buffers \cup {0} /\ x.offset \in Nat /\ x.size \in Nat
           /\ x.allocated \in BOOLEAN /\ x.children \in Int /\ x.views \in Int
  BY DEF Place

\* Places of a tensor that is allocated, that gives its memory away, that is
\* freed, and that is read once more.
WithPlace(h, t, b, o) == [h EXCEPT ![t].allocated = TRUE, ![t].buffer = b, ![t].offset = o]

WithoutPlace(h, t) == [h EXCEPT ![t].allocated = FALSE]

PlaceAt(x, b, o) == [x EXCEPT !.allocated = TRUE, !.buffer = b, !.offset = o]

LEMMA PlacedAt ==
    ASSUME NEW x \in Place, NEW b \in Buffers, NEW o, o \in Nat
    PROVE  /\ PlaceAt(x, b, o) \in Place /\ PlaceAt(x, b, o).allocated
           /\ PlaceAt(x, b, o).buffer = b /\ PlaceAt(x, b, o).offset = o
           /\ PlaceAt(x, b, o).size = x.size
<1> DEFINE y == [x EXCEPT !.allocated = TRUE, !.buffer = b, !.offset = o]
<1>1. y \in Place /\ y.allocated /\ y.buffer = b /\ y.offset = o /\ y.size = x.size
  BY DEF Place
<1>2. PlaceAt(x, b, o) = y
  BY DEF PlaceAt
<1> QED BY <1>1, <1>2

LEMMA Placed ==
    ASSUME NEW D, NEW h \in [D -> Place], NEW t \in D, NEW b \in Buffers, NEW o, o \in Nat
    PROVE  /\ WithPlace(h, t, b, o) \in [D -> Place]
           /\ WithPlace(h, t, b, o) = [h EXCEPT ![t] = PlaceAt(h[t], b, o)]
<1> DEFINE x == PlaceAt(h[t], b, o)
<1>1. WithPlace(h, t, b, o) = [h EXCEPT ![t] = x]
  BY DEF WithPlace, PlaceAt
<1>2. x \in Place
  BY PlacedAt
<1> QED BY <1>1, <1>2

LEMMA Released ==
    ASSUME NEW D, NEW h \in [D -> Place], NEW t \in D, NEW k, k = WithoutPlace(h, t)
    PROVE  /\ k \in [D -> Place] /\ \A u \in D \ {t} : k[u] = h[u]
           /\ ~k[t].allocated /\ k[t].size = h[t].size
<1> DEFINE x == [h[t] EXCEPT !.allocated = FALSE]
<1>1. k[t] = x /\ k = [h EXCEPT ![t] = x]
  BY DEF WithoutPlace
<1>2. h[t] \in Place
  OBVIOUS
<1>3. x \in Place /\ ~x.allocated /\ x.size = h[t].size
  BY <1>2 DEF Place
<1> HIDE DEF x
<1> QED BY <1>1, <1>3

LessChildren(h, t) == [h EXCEPT ![t].children = @ - 1]

LessViews(h, t) == [h EXCEPT ![t].views = @ - 1]

LEMMA ReadOnce ==
    ASSUME NEW D, NEW h \in [D -> Place], NEW t \in D, NEW k,
           k = LessChildren(h, t) \/ k = LessViews(h, t)
    PROVE  k \in [D -> Place] /\ \A u \in D : SamePlace(k[u], h[u])
<1> DEFINE x == [h[t] EXCEPT !.children = h[t].children - 1]
           y == [h[t] EXCEPT !.views = h[t].views - 1]
<1>1. k = [h EXCEPT ![t] = x] \/ k = [h EXCEPT ![t] = y]
  BY DEF LessChildren, LessViews
<1>2. h[t] \in Place /\ h[t].children - 1 \in Int /\ h[t].views - 1 \in Int
  <2>1. h[t] \in Place
    OBVIOUS
  <2> QED BY <2>1, PlaceFacts
<1>3. x \in Place /\ SamePlace(x, h[t]) /\ y \in Place /\ SamePlace(y, h[t])
  BY <1>2 DEF Place, SamePlace
<1> HIDE DEF x, y
<1> QED BY <1>1, <1>3 DEF SamePlace

LEMMA ReusableIs ==
    ASSUME PlanType, pc = "plan", NEW t \in Ids(graph), Reusable(t) # {},
           NEW p, p = graph.t[t].src[FirstReusable(t)]
    PROVE  p \in Ids(graph) /\ hn[p].allocated /\ hn[p].size = hn[t].size
<1>1. graph.t[t].src \in Seq(Ids(graph)) /\ \A u \in Ids(graph) : hn[u].size = Aligned(graph.t[u].size)
  BY PlanFacts, GraphTensor
<1>2. Reusable(t) \subseteq DOMAIN graph.t[t].src
  BY DEF Reusable
<1>3. Reusable(t) \in SUBSET Nat
  BY <1>1, <1>2
<1>4. PICK m \in Reusable(t) : \A k \in Reusable(t) : m <= k
  BY <1>3, LeastNat
<1>5. FirstReusable(t) \in Reusable(t)
  BY <1>4 DEF FirstReusable
<1>6. p \in Ids(graph) /\ hn[p].allocated /\ graph.t[t].size = graph.t[p].size
  <2>1. PICK k \in DOMAIN graph.t[t].src : k = FirstReusable(t) /\ k \in Reusable(t)
    BY <1>2, <1>5
  <2>2. Own(graph.t[t].src[k]) /\ SameLayout(t, graph.t[t].src[k])
    BY <2>1 DEF Reusable
  <2>3. p = graph.t[t].src[k] /\ graph.t[t].src[k] \in Ids(graph)
    BY <1>1, <2>1
  <2> QED BY <2>2, <2>3 DEF Own, SameLayout
<1> QED BY <1>1, <1>6

\* What a step does to the memory: nothing, a hand-over from p to t, an
\* allocation, a release.
MemoryStays ==
    /\ DOMAIN hn' = DOMAIN hn /\ \A u \in DOMAIN hn : SamePlace(hn'[u], hn[u])
    /\ blocks' = blocks /\ maxs' = maxs

HandsOver(p, t) ==
    /\ p \in DOMAIN hn /\ hn[p].allocated /\ t \in DOMAIN hn /\ ~hn[t].allocated
    /\ hn[t].size = hn[p].size
    /\ GetsFrom(hn', hn, t, p)
    /\ blocks' = blocks /\ maxs' = maxs

Allocates(t, b) ==
    LET s == hn[t].size
        k == BestFit(blocks[b], s)
        o == blocks[b][k].offset
    IN  /\ t \in DOMAIN hn /\ ~hn[t].allocated /\ b \in Buffers /\ k # 0
        /\ Gets(hn', hn, t, b, o)
        /\ blocks' = [blocks EXCEPT ![b] = Cut(@, k, s)]
        /\ maxs' = [maxs EXCEPT ![b] = IF o + s > @ THEN o + s ELSE @]

Releases(t) ==
    /\ t \in DOMAIN hn /\ hn[t].allocated
    /\ Loses(hn', hn, t)
    /\ blocks' = [blocks EXCEPT ![hn[t].buffer] = Freed(@, hn[t].offset, hn[t].size)]
    /\ maxs' = maxs

\* What a step of a plan leaves of the types of places.
PlacesStay ==
    /\ hn' \in [Ids(graph) -> Place] /\ \A u \in Ids(graph) : hn'[u].size = hn[u].size
    /\ \A u \in Ids(graph) : hn'[u].allocated => hn'[u].buffer \in Buffers

MemoryIs(c) == Tiling(blocks[c], Live(hn, c)) /\ Roomy(Live(hn, c), maxs[c])

LEMMA StaysKeeps ==
    ASSUME MemoryStays, NEW c, MemoryIs(c)
    PROVE  MemoryIs(c)' /\ Live(hn', c) = Live(hn, c)
<1>1. Live(hn', c) = Live(hn, c)
  BY LiveSame DEF MemoryStays
<1> QED BY <1>1 DEF MemoryIs, MemoryStays

LEMMA HandsOverKeeps ==
    ASSUME NEW p, NEW t, HandsOver(p, t), NEW c, MemoryIs(c)
    PROVE  /\ MemoryIs(c)'
           /\ IF c = hn[p].buffer THEN Replaces(Live(hn', c), Live(hn, c), p, t)
                                       /\ p \in DOMAIN Live(hn, c) /\ t \notin DOMAIN Live(hn, c)
              ELSE Live(hn', c) = Live(hn, c)
<1>1. CASE c = hn[p].buffer
  <2>1. /\ p \in DOMAIN hn /\ hn[p].allocated /\ t \in DOMAIN hn /\ ~hn[t].allocated
        /\ hn[t].size = hn[p].size /\ GetsFrom(hn', hn, t, p)
        /\ blocks' = blocks /\ maxs' = maxs
    BY DEF HandsOver
  <2>2. Tiling(blocks[c], Live(hn, c)) /\ Roomy(Live(hn, c), maxs[c])
    BY DEF MemoryIs
  <2>3. Tiling(blocks[c], Live(hn', c)) /\ Roomy(Live(hn', c), maxs[c])
    BY <1>1, <2>1, <2>2, HandOverLive
  <2>4. Replaces(Live(hn', c), Live(hn, c), p, t) /\ p \in DOMAIN Live(hn, c) /\ t \notin DOMAIN Live(hn, c)
    BY <1>1, <2>1, ReplacesLive
  <2> QED BY <1>1, <2>1, <2>3, <2>4 DEF MemoryIs
<1>2. CASE c # hn[p].buffer
  <2>1. \A u \in DOMAIN hn :
          \/ SamePlace(hn'[u], hn[u])
          \/ ~(hn[u].allocated /\ hn[u].buffer = c) /\ ~(hn'[u].allocated /\ hn'[u].buffer = c)
    BY <1>2 DEF HandsOver, GetsFrom
  <2>2. DOMAIN hn' = DOMAIN hn
    BY DEF HandsOver, GetsFrom
  <2>3. Live(hn', c) = Live(hn, c)
    BY <2>1, <2>2, LiveSame
  <2> QED BY <1>2, <2>3 DEF MemoryIs, HandsOver
<1> QED BY <1>1, <1>2

LEMMA AllocatesKeeps ==
    ASSUME blocks \in [Buffers -> Seq(BlockType)], maxs \in [Buffers -> Nat],
           NEW t, hn[t].size \in Nat, NEW b, Allocates(t, b), \A c \in Buffers : MemoryIs(c)
    PROVE  /\ blocks' \in [Buffers -> Seq(BlockType)] /\ maxs' \in [Buffers -> Nat]
           /\ \A c \in Buffers : MemoryIs(c)'
           /\ \A c \in Buffers \ {b} : /\ blocks'[c] = blocks[c] /\ maxs'[c] = maxs[c]
                                       /\ Live(hn', c) = Live(hn, c)
<1>1. PICK s : s = hn[t].size
  OBVIOUS
<1>2. PICK k : k = BestFit(blocks[b], s)
  OBVIOUS
<1>3. PICK o : o = blocks[b][k].offset
  OBVIOUS
<1>4. /\ t \in DOMAIN hn /\ ~hn[t].allocated /\ b \in Buffers /\ k # 0
      /\ Gets(hn', hn, t, b, o)
      /\ blocks' = [blocks EXCEPT ![b] = Cut(blocks[b], k, s)]
      /\ maxs' = [maxs EXCEPT ![b] = IF o + s > maxs[b] THEN o + s ELSE maxs[b]]
  BY <1>1, <1>2, <1>3 DEF Allocates
<1>5. maxs[b] \in Nat /\ Tiling(blocks[b], Live(hn, b)) /\ Roomy(Live(hn, b), maxs[b])
  BY <1>4 DEF MemoryIs
<1>6. /\ o \in Nat /\ Tiling(Cut(blocks[b], k, s), Live(hn', b))
      /\ Roomy(Live(hn', b), IF o + s > maxs[b] THEN o + s ELSE maxs[b])
  BY <1>1, <1>2, <1>3, <1>4, <1>5, AllocLive
<1>7. /\ blocks'[b] = Cut(blocks[b], k, s)
      /\ maxs'[b] = IF o + s > maxs[b] THEN o + s ELSE maxs[b]
      /\ \A c \in Buffers \ {b} : blocks'[c] = blocks[c] /\ maxs'[c] = maxs[c]
  BY <1>4
<1>8. ASSUME NEW c \in Buffers \ {b} PROVE Live(hn', c) = Live(hn, c)
  <2>1. \A u \in DOMAIN hn :
          \/ SamePlace(hn'[u], hn[u])
          \/ ~(hn[u].allocated /\ hn[u].buffer = c) /\ ~(hn'[u].allocated /\ hn'[u].buffer = c)
    BY <1>4 DEF Gets
  <2>2. DOMAIN hn' = DOMAIN hn
    BY <1>4 DEF Gets
  <2> QED BY <2>1, <2>2, LiveSame
<1>9. \A c \in Buffers : MemoryIs(c)'
  BY <1>6, <1>7, <1>8 DEF MemoryIs
<1>10. Cut(blocks[b], k, s) \in Seq(BlockType)
  BY <1>6 DEF Tiling
<1>11. (IF o + s > maxs[b] THEN o + s ELSE maxs[b]) \in Nat
  BY <1>1, <1>5, <1>6
<1> QED BY <1>4, <1>7, <1>8, <1>9, <1>10, <1>11

LEMMA ReleasesKeeps ==
    ASSUME blocks \in [Buffers -> Seq(BlockType)],
           NEW t, Releases(t), hn[t].buffer \in Buffers, \A c \in Buffers : MemoryIs(c)
    PROVE  /\ blocks' \in [Buffers -> Seq(BlockType)]
           /\ \A c \in Buffers : MemoryIs(c)'
           /\ \A c \in Buffers \ {hn[t].buffer} : /\ blocks'[c] = blocks[c]
                                                  /\ Live(hn', c) = Live(hn, c)
<1>1. PICK b \in Buffers : b = hn[t].buffer
  OBVIOUS
<1>2. /\ t \in DOMAIN hn /\ hn[t].allocated /\ Loses(hn', hn, t) /\ maxs' = maxs
      /\ blocks' = [blocks EXCEPT ![b] = Freed(blocks[b], hn[t].offset, hn[t].size)]
  BY <1>1 DEF Releases
<1>3. Tiling(blocks[b], Live(hn, b)) /\ Roomy(Live(hn, b), maxs[b])
  BY DEF MemoryIs
<1>4. Tiling(Freed(blocks[b], hn[t].offset, hn[t].size), Live(hn', b)) /\ Roomy(Live(hn', b), maxs[b])
  BY <1>1, <1>2, <1>3, FreeLive
<1>5. /\ blocks'[b] = Freed(blocks[b], hn[t].offset, hn[t].size)
      /\ \A c \in Buffers \ {b} : blocks'[c] = blocks[c]
  BY <1>2
<1>6. ASSUME NEW c \in Buffers \ {b} PROVE Live(hn', c) = Live(hn, c)
  <2>1. \A u \in DOMAIN hn :
          \/ SamePlace(hn'[u], hn[u])
          \/ ~(hn[u].allocated /\ hn[u].buffer = c) /\ ~(hn'[u].allocated /\ hn'[u].buffer = c)
    BY <1>1, <1>2 DEF Loses
  <2>2. DOMAIN hn' = DOMAIN hn
    BY <1>2 DEF Loses
  <2> QED BY <2>1, <2>2, LiveSame
<1>7. \A c \in Buffers : MemoryIs(c)'
  BY <1>2, <1>4, <1>5, <1>6 DEF MemoryIs
<1>8. Freed(blocks[b], hn[t].offset, hn[t].size) \in Seq(BlockType)
  BY <1>4 DEF Tiling
<1> QED BY <1>1, <1>2, <1>5, <1>6, <1>7, <1>8

LEMMA AllocateDoes ==
    ASSUME GInv, Allocate
    PROVE  /\ PlacesStay
           /\ \/ MemoryStays
              \/ \E p, t \in Ids(graph) : HandsOver(p, t)
              \/ \E t \in Ids(graph), b \in Buffers : Allocates(t, b)
<1> DEFINE t == Head(todo)[1]
           b == Head(todo)[2]
           s == hn[t].size
<1>1. /\ PlanType /\ pc = "plan" /\ todo # <<>>
      /\ \A c \in Buffers : Tiling(blocks[c], Live(hn, c)) /\ Roomy(Live(hn, c), maxs[c])
  BY InvIs DEF Allocate
<1>2. /\ IsGraph(graph) /\ DOMAIN hn = Ids(graph) /\ hn \in [Ids(graph) -> Place]
      /\ \A u \in Ids(graph) : hn[u].size = Aligned(graph.t[u].size)
      /\ \A u \in Ids(graph) : hn[u].allocated => hn[u].buffer \in Buffers
      /\ i \in graph.nl .. Len(graph.t) /\ j \in Nat \ {0}
      /\ blocks \in [Buffers -> Seq(BlockType)] /\ maxs \in [Buffers -> Nat]
  BY <1>1, PlanFacts
<1>3. /\ t \in Ids(graph) /\ b \in Buffers
      /\ todo' = Tail(todo) /\ Tail(todo) \in Seq(Ids(graph) \X Buffers)
  <2>1. todo \in Seq(Ids(graph) \X Buffers)
    BY <1>1, PlanFacts
  <2> DEFINE S == Ids(graph) \X Buffers
  <2>2. Head(todo) \in S /\ Tail(todo) \in Seq(S)
    <3> HIDE DEF S
    <3> QED BY <1>1, <2>1, HeadTailProperties DEF S
  <2> QED BY <2>2 DEF Allocate
<1>4. graph' = graph /\ i' = i /\ j' = j /\ pc' = pc
  BY DEF Allocate
<1> HIDE DEF t, b
<1>6. CASE ~Needed(t)
  <2>1. hn' = hn /\ blocks' = blocks /\ maxs' = maxs
    BY <1>6 DEF Allocate, t
  <2> QED BY <1>2, <2>1 DEF PlacesStay, MemoryStays, SamePlace
<1>7. CASE Needed(t) /\ Reusable(t) # {}
  <2>1. PICK p : p = graph.t[t].src[FirstReusable(t)]
    OBVIOUS
  <2>2. p \in Ids(graph) /\ hn[p].allocated /\ hn[p].size = hn[t].size
    BY <1>1, <1>3, <1>7, <2>1, ReusableIs
  <2>3. ~hn[t].allocated /\ p # t
    BY <1>7, <2>2 DEF Needed, Own
  <2>4. PICK h : h = WithPlace(hn, t, hn[p].buffer, hn[p].offset)
    OBVIOUS
  <2>5. /\ hn' = WithoutPlace(h, p)
        /\ blocks' = blocks /\ maxs' = maxs
    <3>1. /\ hn' = [hn EXCEPT ![t].allocated = TRUE, ![t].buffer = hn[p].buffer,
                             ![t].offset = hn[p].offset, ![p].allocated = FALSE]
          /\ blocks' = blocks /\ maxs' = maxs
      BY <1>7, <2>1 DEF Allocate, t
    <3> QED BY <2>4, <3>1 DEF WithPlace, WithoutPlace
  <2>6. hn[p].offset \in Nat /\ hn[p].buffer \in Buffers
    <3>1. hn[p] \in Place
      BY <1>2, <2>2
    <3> QED BY <1>2, <2>2, <3>1, PlaceFacts
  <2>7. /\ h \in [Ids(graph) -> Place] /\ \A u \in Ids(graph) \ {t} : h[u] = hn[u]
        /\ h[t].allocated /\ h[t].buffer = hn[p].buffer /\ h[t].offset = hn[p].offset
        /\ h[t].size = hn[t].size
    <3>1. PICK c \in Buffers, o \in Nat : c = hn[p].buffer /\ o = hn[p].offset
      BY <2>6
    <3>2. h = WithPlace(hn, t, c, o)
      BY <2>4, <3>1
    <3>3. h \in [Ids(graph) -> Place] /\ h = [hn EXCEPT ![t] = PlaceAt(hn[t], c, o)]
      <4>1. hn \in [Ids(graph) -> Place] /\ t \in Ids(graph) /\ c \in Buffers /\ o \in Nat
        BY <1>2, <1>3, <3>1
      <4> QED BY <3>2, <4>1, Placed
    <3>4. hn[t] \in Place
      BY <1>2, <1>3
    <3>5. /\ PlaceAt(hn[t], c, o).allocated /\ PlaceAt(hn[t], c, o).buffer = c
          /\ PlaceAt(hn[t], c, o).offset = o /\ PlaceAt(hn[t], c, o).size = hn[t].size
      BY <3>1, <3>4, PlacedAt
    <3> QED BY <1>2, <1>3, <3>1, <3>3, <3>5
  <2>8. /\ hn' \in [Ids(graph) -> Place] /\ \A u \in Ids(graph) \ {p} : hn'[u] = h[u]
        /\ ~hn'[p].allocated /\ hn'[p].size = h[p].size
    BY <2>2, <2>5, <2>7, Released
  <2>9. /\ \A u \in Ids(graph) \ {p, t} : hn'[u] = hn[u]
        /\ ~hn'[p].allocated /\ hn'[p].size = hn[p].size
        /\ hn'[t].allocated /\ hn'[t].buffer = hn[p].buffer /\ hn'[t].offset = hn[p].offset
        /\ hn'[t].size = hn[t].size
    BY <1>3, <2>2, <2>3, <2>7, <2>8
  <2>10. GetsFrom(hn', hn, t, p)
    BY <1>2, <2>8, <2>9 DEF GetsFrom, SamePlace
  <2>11. HandsOver(p, t)
    BY <1>2, <1>3, <2>2, <2>3, <2>5, <2>10 DEF HandsOver
  <2>12. PlacesStay
    BY <1>2, <1>3, <2>2, <2>6, <2>8, <2>9 DEF PlacesStay
  <2> QED BY <1>3, <2>2, <2>11, <2>12
<1>8. CASE Needed(t) /\ Reusable(t) = {}
  <2>1. PICK k, o : k = BestFit(blocks[b], s) /\ o = blocks[b][k].offset
    OBVIOUS
  <2>2. /\ k # 0
        /\ hn' = [hn EXCEPT ![t].allocated = TRUE, ![t].buffer = b, ![t].offset = o]
        /\ blocks' = [blocks EXCEPT ![b] = Cut(@, k, s)]
        /\ maxs' = [maxs EXCEPT ![b] = IF o + s > @ THEN o + s ELSE @]
    BY <1>8, <2>1 DEF Allocate, t, b
  <2>3. ~hn[t].allocated /\ s \in Nat /\ maxs[b] \in Nat
    <3>1. hn[t] \in Place
      BY <1>2, <1>3
    <3> QED BY <1>2, <1>3, <1>8, <3>1, PlaceFacts DEF Needed, Own
  <2>4. o \in Nat
    <3>1. k \in 1 .. Len(blocks[b])
      BY <1>2, <1>3, <2>1, <2>2, <2>3, BestFits
    <3>2. blocks[b][k] \in BlockType
      BY <1>2, <1>3, <3>1
    <3> QED BY <2>1, <3>2, Spans
  <2>5. /\ hn' \in [Ids(graph) -> Place] /\ \A u \in Ids(graph) \ {t} : hn'[u] = hn[u]
        /\ hn'[t].allocated /\ hn'[t].buffer = b /\ hn'[t].offset = o
        /\ hn'[t].size = hn[t].size
    <3>1. hn' = WithPlace(hn, t, b, o)
      BY <2>2 DEF WithPlace
    <3>2. hn' \in [Ids(graph) -> Place] /\ hn' = [hn EXCEPT ![t] = PlaceAt(hn[t], b, o)]
      <4>1. hn \in [Ids(graph) -> Place] /\ t \in Ids(graph) /\ b \in Buffers
        BY <1>2, <1>3
      <4> QED BY <2>4, <3>1, <4>1, Placed
    <3>3. hn[t] \in Place
      BY <1>2, <1>3
    <3>4. /\ PlaceAt(hn[t], b, o).allocated /\ PlaceAt(hn[t], b, o).buffer = b
          /\ PlaceAt(hn[t], b, o).offset = o /\ PlaceAt(hn[t], b, o).size = hn[t].size
      <4>1. b \in Buffers
        BY <1>3
      <4> QED BY <2>4, <3>3, <4>1, PlacedAt
    <3> QED BY <1>2, <1>3, <3>2, <3>4
  <2>6. Gets(hn', hn, t, b, o)
    BY <1>2, <2>5 DEF Gets, SamePlace
  <2>7. Allocates(t, b)
    BY <1>2, <1>3, <2>1, <2>2, <2>3, <2>6 DEF Allocates
  <2>8. PlacesStay
    BY <1>2, <1>3, <2>5 DEF PlacesStay
  <2> QED BY <1>3, <2>7, <2>8
<1> QED BY <1>6, <1>7, <1>8

LEMMA UpdateDoes ==
    ASSUME GInv, Update
    PROVE  PlacesStay /\ (MemoryStays \/ \E t \in Ids(graph) : Releases(t))
<1> DEFINE p == graph.t[i].src[j]
           v == graph.t[p].view
           h1 == [hn EXCEPT ![p].children = @ - 1]
           h2 == IF IsView(graph, p) /\ h1[p].children = 0 /\ h1[p].views = 0
                 THEN [h1 EXCEPT ![v].views = @ - 1] ELSE h1
<1>1. /\ PlanType /\ pc = "plan"
      /\ i \in Nodes(graph) /\ j <= Len(graph.t[i].src)
      /\ \A c \in Buffers : Tiling(blocks[c], Live(hn, c)) /\ Roomy(Live(hn, c), maxs[c])
  BY InvIs DEF Update
<1>2. /\ IsGraph(graph) /\ DOMAIN hn = Ids(graph) /\ hn \in [Ids(graph) -> Place]
      /\ \A u \in Ids(graph) : hn[u].size = Aligned(graph.t[u].size)
      /\ \A u \in Ids(graph) : hn[u].allocated => hn[u].buffer \in Buffers
      /\ todo \in Seq(Ids(graph) \X Buffers)
      /\ i \in graph.nl .. Len(graph.t) /\ j \in Nat \ {0}
      /\ blocks \in [Buffers -> Seq(BlockType)] /\ maxs \in [Buffers -> Nat]
  BY <1>1, PlanFacts
<1>3. graph' = graph /\ todo' = todo /\ i' = i /\ pc' = pc /\ maxs' = maxs /\ j' = j + 1
  BY DEF Update
<1>4. i \in Ids(graph) /\ p \in Ids(graph) /\ (IsView(graph, p) => v \in Ids(graph))
  <2>1. i \in Ids(graph)
    BY <1>1, <1>2, GraphNumbers DEF Nodes
  <2>2. graph.t[i].src \in Seq(Ids(graph))
    BY <1>2, <2>1, GraphTensor
  <2>3. p \in Ids(graph)
    BY <1>1, <1>2, <2>2
  <2>4. IsView(graph, p) => v \in Ids(graph)
    BY <1>2, <2>3, GraphTensor DEF IsView
  <2> QED BY <2>1, <2>3, <2>4
<1>5. h1 \in [Ids(graph) -> Place] /\ \A u \in Ids(graph) : SamePlace(h1[u], hn[u])
  <2>1. hn \in [Ids(graph) -> Place] /\ p \in Ids(graph) /\ h1 = LessChildren(hn, p)
    BY <1>2, <1>4 DEF LessChildren
  <2> HIDE DEF p, h1
  <2> QED BY <2>1, ReadOnce
<1>6. h2 \in [Ids(graph) -> Place] /\ \A u \in Ids(graph) : SamePlace(h2[u], hn[u])
  <2> HIDE DEF h1
  <2>1. CASE IsView(graph, p) /\ h1[p].children = 0 /\ h1[p].views = 0
    <3>1. h2 = LessViews(h1, v)
      BY <2>1 DEF LessViews
    <3> HIDE DEF h2, v
    <3>2. v \in Ids(graph) /\ h1 \in [Ids(graph) -> Place]
      BY <1>4, <1>5, <2>1
    <3>3. h2 \in [Ids(graph) -> Place] /\ \A u \in Ids(graph) : SamePlace(h2[u], h1[u])
      BY <3>1, <3>2, ReadOnce
    <3> QED BY <1>5, <3>3 DEF SamePlace
  <2>2. CASE ~(IsView(graph, p) /\ h1[p].children = 0 /\ h1[p].views = 0)
    BY <1>5, <2>2
  <2> QED BY <2>1, <2>2
<1>7. IF FreedWith(p, h2) = {} THEN hn' = h2 /\ UNCHANGED blocks
      ELSE LET u == CHOOSE u \in FreedWith(p, h2) : TRUE
           IN  /\ hn' = [h2 EXCEPT ![u].allocated = FALSE]
               /\ blocks' = [blocks EXCEPT ![hn[u].buffer] = Freed(@, hn[u].offset, hn[u].size)]
  BY DEF Update
<1>8. ASSUME NEW u \in FreedWith(p, h2) PROVE u \in Ids(graph) /\ hn[u].allocated
  <2>1. u \in Ids(graph) /\ h2[u].allocated
    <3> HIDE DEF p, h2
    <3> QED BY <1>4 DEF FreedWith, v
  <2> QED BY <1>6, <2>1 DEF SamePlace
<1> HIDE DEF p, v, h1, h2
<1>10. CASE FreedWith(p, h2) = {}
  <2>1. hn' = h2 /\ blocks' = blocks
    BY <1>7, <1>10
  <2>3. \A u \in Ids(graph) : hn'[u].size = hn[u].size /\ hn'[u].buffer = hn[u].buffer
                              /\ hn'[u].allocated = hn[u].allocated
    BY <1>6, <2>1 DEF SamePlace
  <2> QED BY <1>2, <1>3, <1>6, <2>1, <2>3 DEF PlacesStay, MemoryStays
<1>11. CASE FreedWith(p, h2) # {}
  <2>1. PICK u : u = CHOOSE x \in FreedWith(p, h2) : TRUE
    OBVIOUS
  <2>2. u \in Ids(graph) /\ hn[u].allocated
    BY <1>8, <1>11, <2>1
  <2>3. /\ hn' = WithoutPlace(h2, u)
        /\ blocks' = [blocks EXCEPT ![hn[u].buffer] = Freed(@, hn[u].offset, hn[u].size)]
    BY <1>7, <1>11, <2>1 DEF WithoutPlace
  <2>4. PICK b \in Buffers : b = hn[u].buffer
    BY <1>2, <2>2
  <2>5. /\ hn' \in [Ids(graph) -> Place] /\ \A x \in Ids(graph) \ {u} : hn'[x] = h2[x]
        /\ ~hn'[u].allocated /\ hn'[u].size = h2[u].size
    BY <1>6, <2>2, <2>3, Released
  <2>6. Loses(hn', hn, u) /\ \A x \in Ids(graph) : hn'[x].size = hn[x].size
    BY <1>2, <1>6, <2>5 DEF Loses, SamePlace
  <2>7. Releases(u)
    BY <1>2, <1>3, <2>2, <2>3, <2>6 DEF Releases
  <2>8. \A x \in Ids(graph) : hn'[x].allocated => hn'[x].buffer \in Buffers
    BY <1>2, <1>6, <2>5 DEF SamePlace
  <2> QED BY <2>2, <2>5, <2>6, <2>7, <2>8 DEF PlacesStay
<1> QED BY <1>10, <1>11

\* The memory of the plan after such a step.
LEMMA MemoryStepKeeps ==
    ASSUME GInv, pc = "plan", PlacesStay,
           \/ MemoryStays
           \/ \E p, t \in Ids(graph) : HandsOver(p, t)
           \/ \E t \in Ids(graph), b \in Buffers : Allocates(t, b)
           \/ \E t \in Ids(graph) : Releases(t)
    PROVE  /\ blocks' \in [Buffers -> Seq(BlockType)] /\ maxs' \in [Buffers -> Nat]
           /\ \A c \in Buffers : MemoryIs(c)'
<1>1. /\ \A c \in Buffers : MemoryIs(c)
      /\ blocks \in [Buffers -> Seq(BlockType)] /\ maxs \in [Buffers -> Nat]
  BY InvIs, PlanFacts DEF MemoryIs
<1>2. ASSUME NEW t \in Ids(graph)
      PROVE  hn[t].size \in Nat /\ (hn[t].allocated => hn[t].buffer \in Buffers)
  <2>1. hn[t] \in Place /\ (hn[t].allocated => hn[t].buffer \in Buffers)
    BY InvIs, PlanFacts
  <2> QED BY <2>1, PlaceFacts
<1>3. CASE MemoryStays
  BY <1>1, <1>3, StaysKeeps DEF MemoryStays
<1>4. ASSUME NEW p \in Ids(graph), NEW t \in Ids(graph), HandsOver(p, t)
      PROVE  blocks' = blocks /\ maxs' = maxs /\ \A c \in Buffers : MemoryIs(c)'
  BY <1>1, <1>4, HandsOverKeeps DEF HandsOver
<1>5. ASSUME NEW t \in Ids(graph), NEW b \in Buffers, Allocates(t, b)
      PROVE  /\ blocks' \in [Buffers -> Seq(BlockType)] /\ maxs' \in [Buffers -> Nat]
             /\ \A c \in Buffers : MemoryIs(c)'
  BY <1>1, <1>2, <1>5, AllocatesKeeps
<1>6. ASSUME NEW t \in Ids(graph), Releases(t)
      PROVE  /\ blocks' \in [Buffers -> Seq(BlockType)] /\ maxs' = maxs
             /\ \A c \in Buffers : MemoryIs(c)'
  BY <1>1, <1>2, <1>6, ReleasesKeeps DEF Releases
<1> QED BY <1>1, <1>3, <1>4, <1>5, <1>6

LEMMA AllocateKeeps ==
    ASSUME GInv, Allocate
    PROVE  GInv'
<1>1. /\ PlanType /\ pc = "plan"
      /\ graph' = graph /\ i' = i /\ j' = j /\ pc' = pc
      /\ todo # <<>> /\ todo' = Tail(todo)
  BY InvIs DEF Allocate
<1>2. /\ IsGraph(graph) /\ DOMAIN hn = Ids(graph)
      /\ \A u \in Ids(graph) : hn[u].size = Aligned(graph.t[u].size)
      /\ i \in graph.nl .. Len(graph.t) /\ j \in Nat \ {0}
      /\ todo \in Seq(Ids(graph) \X Buffers)
  BY <1>1, PlanFacts
<1>3. Tail(todo) \in Seq(Ids(graph) \X Buffers)
  <2>1. PICK S : S = Ids(graph) \X Buffers
    OBVIOUS
  <2> QED BY <1>1, <1>2, <2>1, HeadTailProperties
<1>4. PlacesStay
  BY AllocateDoes
<1>5. /\ blocks' \in [Buffers -> Seq(BlockType)] /\ maxs' \in [Buffers -> Nat]
      /\ \A c \in Buffers : MemoryIs(c)'
  BY <1>1, AllocateDoes, MemoryStepKeeps
<1>6. PlanType'
  BY <1>1, <1>2, <1>3, <1>4, <1>5 DEF PlanType, PlacesStay
<1>7. GInv' <=> PlanType' /\ \A c \in Buffers : MemoryIs(c)'
  BY DEF GInv, Within, LiveIn, Live, Roomy, MemoryIs
<1> QED BY <1>5, <1>6, <1>7

LEMMA UpdateKeeps ==
    ASSUME GInv, Update
    PROVE  GInv'
<1>1. /\ PlanType /\ pc = "plan"
      /\ graph' = graph /\ todo' = todo /\ i' = i /\ pc' = pc /\ j' = j + 1
  BY InvIs DEF Update
<1>2. /\ IsGraph(graph) /\ DOMAIN hn = Ids(graph)
      /\ \A u \in Ids(graph) : hn[u].size = Aligned(graph.t[u].size)
      /\ i \in graph.nl .. Len(graph.t) /\ j \in Nat \ {0}
      /\ todo \in Seq(Ids(graph) \X Buffers)
  BY <1>1, PlanFacts
<1>3. j' \in Nat \ {0}
  BY <1>1, <1>2
<1>4. PlacesStay
  BY UpdateDoes
<1>5. /\ blocks' \in [Buffers -> Seq(BlockType)] /\ maxs' \in [Buffers -> Nat]
      /\ \A c \in Buffers : MemoryIs(c)'
  BY <1>1, UpdateDoes, MemoryStepKeeps
<1>6. PlanType'
  BY <1>1, <1>2, <1>3, <1>4, <1>5 DEF PlanType, PlacesStay
<1>7. GInv' <=> PlanType' /\ \A c \in Buffers : MemoryIs(c)'
  BY DEF GInv, Within, LiveIn, Live, Roomy, MemoryIs
<1> QED BY <1>5, <1>6, <1>7

LEMMA NextNodeKeeps ==
    ASSUME GInv, NextNode
    PROVE  GInv'
<1>1. /\ PlanType /\ pc = "plan" /\ i < Len(graph.t)
      /\ \A c \in Buffers : Tiling(blocks[c], Live(hn, c)) /\ Roomy(Live(hn, c), maxs[c])
  BY InvIs DEF NextNode
<1>2. /\ IsGraph(graph) /\ DOMAIN hn = Ids(graph) /\ hn \in [Ids(graph) -> Place]
      /\ \A u \in Ids(graph) : hn[u].size = Aligned(graph.t[u].size)
      /\ \A u \in Ids(graph) : hn[u].allocated => hn[u].buffer \in Buffers
      /\ i \in graph.nl .. Len(graph.t)
      /\ blocks \in [Buffers -> Seq(BlockType)] /\ maxs \in [Buffers -> Nat]
  BY <1>1, PlanFacts
<1>3. /\ graph' = graph /\ hn' = hn /\ blocks' = blocks /\ maxs' = maxs /\ pc' = pc
      /\ i' = i + 1 /\ j' = 1
      /\ todo' = [k \in DOMAIN graph.t[i + 1].src |-> <<graph.t[i + 1].src[k], graph.t[i + 1].buffer>>]
                   \o << <<i + 1, graph.t[i + 1].buffer>> >>
  BY DEF NextNode
<1>4. i + 1 \in graph.nl .. Len(graph.t) /\ i + 1 \in Ids(graph)
  BY <1>1, <1>2, GraphNumbers
<1>5. todo' \in Seq(Ids(graph) \X Buffers)
  <2>1. PICK n : n = i + 1
    OBVIOUS
  <2>2. n \in Ids(graph) /\ graph.t[n].src \in Seq(Ids(graph)) /\ graph.t[n].buffer \in Buffers
    BY <1>2, <1>4, <2>1, GraphTensor
  <2> DEFINE S == Ids(graph) \X Buffers
             u == graph.t[n].src
             w == [k \in DOMAIN u |-> <<u[k], graph.t[n].buffer>>]
             x == << <<n, graph.t[n].buffer>> >>
  <2>3. x \in Seq(S)
    BY <2>2
  <2>4. w \in Seq(S)
    <3>1. \A k \in 1 .. Len(u) : <<u[k], graph.t[n].buffer>> \in S
      BY <2>2
    <3>2. DOMAIN u = 1 .. Len(u) /\ Len(u) \in Nat
      BY <2>2
    <3> HIDE DEF u, S
    <3> QED BY <3>1, <3>2
  <2>5. todo' = w \o x
    BY <1>3, <2>1
  <2> HIDE DEF w, x, S
  <2>6. w \o x \in Seq(S)
    BY <2>3, <2>4, ConcatProperties
  <2> QED BY <2>5, <2>6 DEF S
<1>6. PlanType'
  <2>1. j' \in Nat \ {0}
    BY <1>3
  <2>2. hn \in [DOMAIN hn -> Place] /\ \A t \in DOMAIN hn : hn[t].allocated => hn[t].buffer \in Buffers
    BY <1>1 DEF PlanType
  <2> QED BY ONLY <1>2, <1>3, <1>4, <1>5, <2>1, <2>2 DEF PlanType
<1>7. GInv' <=> PlanType' /\ \A c \in Buffers : Tiling(blocks'[c], Live(hn', c)) /\ Roomy(Live(hn', c), maxs'[c])
  BY DEF GInv, Within, LiveIn, Live, Roomy
<1> QED BY <1>1, <1>3, <1>6, <1>7

\* The walk is over, or the plan of an earlier graph is used again.
LEMMA StandingKeeps ==
    ASSUME GInv, UNCHANGED plan, pc' # "plan"
    PROVE  GInv'
<1>1. hn' = hn /\ blocks' = blocks /\ maxs' = maxs
  BY DEF plan
<1>2. PlanType'
  BY <1>1 DEF GInv, PlanType
<1>3. GInv' <=> PlanType' /\ \A c \in Buffers : Tiling(blocks'[c], Live(hn', c)) /\ Roomy(Live(hn', c), maxs'[c])
  BY DEF GInv, Within, LiveIn, Live, Roomy
<1> QED BY <1>1, <1>2, <1>3, InvIs

LEMMA GraphKeeps == GInv /\ [GraphNext]_vars => GInv'
<1> SUFFICES ASSUME GInv, [GraphNext]_vars PROVE GInv'
  OBVIOUS
<1>1. CASE Allocate
  BY <1>1, AllocateKeeps
<1>2. CASE NextNode
  BY <1>2, NextNodeKeeps
<1>3. CASE Update
  BY <1>3, UpdateKeeps
<1>4. CASE Planned
  <2>1. UNCHANGED plan /\ pc' # "plan"
    BY <1>4 DEF Planned
  <2> QED BY <2>1, StandingKeeps
<1>5. ASSUME NEW g, NEW moved, IsGraph(g), AllocSplits(g, moved) PROVE GInv'
  <2>1. Begin(g) \/ (UNCHANGED plan /\ pc' # "plan")
    BY <1>5 DEF AllocSplits
  <2> QED BY <1>5, <2>1, BeginKeeps, StandingKeeps
<1>6. CASE UNCHANGED vars
  <2>1. UNCHANGED plan /\ graph' = graph /\ pc' = pc
    BY <1>6 DEF vars
  <2>2. hn' = hn /\ blocks' = blocks /\ maxs' = maxs /\ todo' = todo /\ i' = i /\ j' = j
    BY <2>1 DEF plan
  <2>3. PlanType'
    BY <2>1, <2>2 DEF GInv, PlanType
  <2>4. GInv' <=> PlanType' /\ \A c \in Buffers : Tiling(blocks'[c], Live(hn', c)) /\ Roomy(Live(hn', c), maxs'[c])
    BY DEF GInv, Within, LiveIn, Live, Roomy
  <2> QED BY <2>2, <2>3, <2>4, InvIs
<1> QED BY <1>1, <1>2, <1>3, <1>4, <1>5, <1>6 DEF GraphNext, Walk

LEMMA Planning == GraphSpec => []GInv
  BY GraphStart, GraphKeeps, PTL DEF GraphSpec

LEMMA InvTiles == GInv => MemoryTiled
<1> SUFFICES ASSUME GInv, NEW b \in Buffers
             PROVE  /\ TiledBy(blocks[b], LiveIn(b))
                    /\ \A t \in DOMAIN LiveIn(b) : BlockEnd(LiveIn(b)[t]) <= maxs[b]
  BY DEF MemoryTiled
<1> QED BY TilingIsTiled DEF GInv, Within

\* Whatever graphs are planned one after the other, every byte of every buffer
\* is either free or of one tensor, and the buffer is reserved as large as its
\* last tensor ends: best fit, splitting, joining of neighbours, hand-over in
\* place and the release of parents and views lose nothing.
THEOREM PlansTile == GraphSpec => []MemoryTiled
  BY Planning, InvTiles, PTL

----------------------------------------------------------------------------
(* A buffer of the planner is a ggml_dyn_tallocr whose users only          *)
(* allocate, hand over and free.                                           *)

\* A buffer, and a bound on the sizes of the tensors.
CONSTANTS AnyBuffer, LargestTensor

Dyn == INSTANCE DynAlloc WITH
           free_blocks <- blocks[AnyBuffer], max_size <- maxs[AnyBuffer],
           live <- LiveIn(AnyBuffer), Tensors <- Nat, MaxTensor <- LargestTensor

Small(g) == \A t \in Ids(g) : g.t[t].size <= LargestTensor

SmallNext == Walk \/ \E g, moved : IsGraph(g) /\ Small(g) /\ AllocSplits(g, moved)

SmallSpec == Init /\ [][SmallNext]_vars

SmallInv == GInv /\ (pc = "plan" => Small(graph))

\* The operators of the instance are those of the planner.
LEMMA DynOps ==
    /\ \A z : Dyn!Aligned(z) = Aligned(z)
    /\ \A f, z : Dyn!BestFit(f, z) = BestFit(f, z)
    /\ \A f, k, z : Dyn!Cut(f, k, z) = Cut(f, k, z)
    /\ \A f, o, z : Dyn!Freed(f, o, z) = Freed(f, o, z)
    /\ \A o, z : Dyn!Block(o, z) = Block(o, z)
    /\ Dyn!Fresh = Fresh
<1>1. \A z : Dyn!Aligned(z) = Aligned(z)
  BY DEF Dyn!Aligned, Aligned
<1>2. /\ \A o, z : Dyn!Block(o, z) = Block(o, z)
      /\ Dyn!Fresh = Fresh
  BY DEF Dyn!Block, Block, Dyn!Fresh, Fresh
<1>3. \A f, z : Dyn!BestFit(f, z) = BestFit(f, z)
  BY DEF Dyn!BestFit, BestFit, Dyn!Fits, Fits
<1>4. \A f, k, z : Dyn!Cut(f, k, z) = Cut(f, k, z)
  BY DEF Dyn!Cut, Cut, Dyn!Block, Block, Dyn!RemoveAt, RemoveAt
<1>5. \A f, o, z : Dyn!Freed(f, o, z) = Freed(f, o, z)
  <2>1. \A f, k : Dyn!JoinedIf(f, k) = JoinedIf(f, k)
    <3>1. \A f, k : Dyn!Adjacent(f, k) = Adjacent(f, k)
      BY DEF Dyn!Adjacent, Adjacent, Dyn!BlockEnd, BlockEnd
    <3>2. \A f, k : Dyn!Joined(f, k) = Joined(f, k)
      BY DEF Dyn!Joined, Joined, Dyn!RemoveAt, RemoveAt
    <3> QED BY <3>1, <3>2 DEF Dyn!JoinedIf, JoinedIf
  <2>2. \A x, o, z : Dyn!Touches(x, o, z) = Touches(x, o, z)
    BY DEF Dyn!Touches, Touches, Dyn!BlockEnd, BlockEnd
  <2>3. \A f, o, z : Dyn!FirstTouched(f, o, z) = FirstTouched(f, o, z)
    BY DEF Dyn!FirstTouched, FirstTouched, Dyn!Touches, Touches, Dyn!BlockEnd, BlockEnd
  <2>4. \A f, o : Dyn!Below(f, o) = Below(f, o)
    BY DEF Dyn!Below, Below
  <2>5. \A f, k, x : Dyn!InsertAt(f, k, x) = InsertAt(f, k, x)
    BY DEF Dyn!InsertAt, InsertAt
  <2>6. \A x : Dyn!BlockEnd(x) = BlockEnd(x)
    BY DEF Dyn!BlockEnd, BlockEnd
  <2> SUFFICES ASSUME NEW f, NEW o, NEW z PROVE Dyn!Freed(f, o, z) = Freed(f, o, z)
    OBVIOUS
  <2>7. PICK k : k = FirstTouched(f, o, z)
    OBVIOUS
  <2>8. /\ Dyn!FirstTouched(f, o, z) = k /\ Dyn!BlockEnd(f[k]) = BlockEnd(f[k])
        /\ Dyn!Block(o, f[k].size + z) = Block(o, f[k].size + z) /\ Dyn!Block(o, z) = Block(o, z)
    BY <1>2, <2>3, <2>6, <2>7
  <2>9. (\E x \in DOMAIN f : Dyn!Touches(f[x], o, z)) <=> \E x \in DOMAIN f : Touches(f[x], o, z)
    BY <2>2
  <2>10. PICK g, e : /\ g = [f EXCEPT ![k].size = @ + z]
                     /\ e = [f EXCEPT ![k] = Block(o, @.size + z)]
    OBVIOUS
  <2>11. /\ Dyn!JoinedIf(g, k) = JoinedIf(g, k) /\ Dyn!JoinedIf(e, k - 1) = JoinedIf(e, k - 1)
         /\ Dyn!InsertAt(f, Dyn!Below(f, o) + 1, Dyn!Block(o, z))
              = InsertAt(f, Below(f, o) + 1, Block(o, z))
    BY <2>1, <2>4, <2>5, <2>8
  <2>12. Freed(f, o, z) = IF \E x \in DOMAIN f : Touches(f[x], o, z)
                          THEN IF BlockEnd(f[k]) = o THEN JoinedIf(g, k) ELSE JoinedIf(e, k - 1)
                          ELSE InsertAt(f, Below(f, o) + 1, Block(o, z))
    BY <2>7, <2>10 DEF Freed
  <2>13. Dyn!Freed(f, o, z)
           = IF \E x \in DOMAIN f : Dyn!Touches(f[x], o, z)
             THEN IF Dyn!BlockEnd(f[k]) = o THEN Dyn!JoinedIf(g, k) ELSE Dyn!JoinedIf(e, k - 1)
             ELSE Dyn!InsertAt(f, Dyn!Below(f, o) + 1, Dyn!Block(o, z))
    BY <2>8, <2>10 DEF Dyn!Freed
  <2> QED BY ONLY <2>8, <2>9, <2>11, <2>12, <2>13
<1> QED BY <1>1, <1>2, <1>3, <1>4, <1>5

LEMMA LiveIsFunction ==
    ASSUME NEW h, NEW b
    PROVE  Live(h, b) = [u \in DOMAIN Live(h, b) |-> Live(h, b)[u]]
  BY DEF Live

LEMMA LiveInIs ==
    LiveIn(AnyBuffer) = Live(hn, AnyBuffer) /\ LiveIn(AnyBuffer)' = Live(hn', AnyBuffer)
  BY DEF LiveIn, Live

\* What an allocation, a release, a hand-over and a step elsewhere are in the
\* buffer.
LEMMA DynAllocs ==
    ASSUME NEW t \in Nat, NEW size \in 0 .. LargestTensor, NEW k, NEW o,
           k = BestFit(blocks[AnyBuffer], Aligned(size)), k # 0,
           o = blocks[AnyBuffer][k].offset, t \notin DOMAIN Live(hn, AnyBuffer),
           Adds(Live(hn', AnyBuffer), Live(hn, AnyBuffer), t, Block(o, Aligned(size))),
           blocks'[AnyBuffer] = Cut(blocks[AnyBuffer], k, Aligned(size)),
           maxs'[AnyBuffer] = IF o + Aligned(size) > maxs[AnyBuffer]
                              THEN o + Aligned(size) ELSE maxs[AnyBuffer]
    PROVE  Dyn!Next
<1>1. PICK L, M : L = Live(hn, AnyBuffer) /\ M = Live(hn', AnyBuffer)
  OBVIOUS
<1>2. M = [u \in DOMAIN M |-> M[u]]
  BY <1>1, LiveIsFunction
<1>3. M = [u \in DOMAIN L \cup {t} |-> IF u = t THEN Block(o, Aligned(size)) ELSE L[u]]
  BY <1>1, <1>2 DEF Adds
<1>4. LiveIn(AnyBuffer) = L /\ LiveIn(AnyBuffer)' = M
  BY <1>1, LiveInIs
<1>5. Dyn!Alloc(t, size)
  BY <1>1, <1>3, <1>4, DynOps DEF Dyn!Alloc
<1> QED BY <1>5 DEF Dyn!Next

LEMMA DynFrees ==
    ASSUME NEW t \in Nat, t \in DOMAIN Live(hn, AnyBuffer),
           Drops(Live(hn', AnyBuffer), Live(hn, AnyBuffer), t),
           blocks'[AnyBuffer] = Freed(blocks[AnyBuffer], Live(hn, AnyBuffer)[t].offset,
                                      Live(hn, AnyBuffer)[t].size),
           maxs'[AnyBuffer] = maxs[AnyBuffer]
    PROVE  Dyn!Next
<1>1. PICK L, M : L = Live(hn, AnyBuffer) /\ M = Live(hn', AnyBuffer)
  OBVIOUS
<1>2. M = [u \in DOMAIN M |-> M[u]]
  BY <1>1, LiveIsFunction
<1>3. M = [u \in DOMAIN L \ {t} |-> L[u]]
  BY <1>1, <1>2 DEF Drops
<1>4. LiveIn(AnyBuffer) = L /\ LiveIn(AnyBuffer)' = M
  BY <1>1, LiveInIs
<1>5. Dyn!Free(t)
  BY <1>1, <1>3, <1>4, DynOps DEF Dyn!Free
<1> QED BY <1>5 DEF Dyn!Next

LEMMA DynHandsOver ==
    ASSUME NEW p \in Nat, NEW t \in Nat, p \in DOMAIN Live(hn, AnyBuffer),
           t \notin DOMAIN Live(hn, AnyBuffer),
           Replaces(Live(hn', AnyBuffer), Live(hn, AnyBuffer), p, t),
           blocks'[AnyBuffer] = blocks[AnyBuffer], maxs'[AnyBuffer] = maxs[AnyBuffer]
    PROVE  Dyn!Next
<1>1. PICK L, M : L = Live(hn, AnyBuffer) /\ M = Live(hn', AnyBuffer)
  OBVIOUS
<1>2. M = [u \in DOMAIN M |-> M[u]]
  BY <1>1, LiveIsFunction
<1>3. M = [u \in (DOMAIN L \ {p}) \cup {t} |-> IF u = t THEN L[p] ELSE L[u]]
  BY <1>1, <1>2 DEF Replaces
<1>4. LiveIn(AnyBuffer) = L /\ LiveIn(AnyBuffer)' = M
  BY <1>1, LiveInIs
<1>5. Dyn!HandOver(p, t)
  BY <1>1, <1>3, <1>4 DEF Dyn!HandOver
<1> QED BY <1>5 DEF Dyn!Next

LEMMA DynStays ==
    ASSUME Live(hn', AnyBuffer) = Live(hn, AnyBuffer),
           blocks'[AnyBuffer] = blocks[AnyBuffer], maxs'[AnyBuffer] = maxs[AnyBuffer]
    PROVE  UNCHANGED Dyn!vars
  BY LiveInIs DEF Dyn!vars

LEMMA DynStarts ==
    ASSUME AnyBuffer \in Buffers, Init
    PROVE  Dyn!Init
<1>1. blocks[AnyBuffer] = Fresh /\ maxs[AnyBuffer] = 0 /\ hn = <<>>
  BY DEF Init
<1>2. LiveIn(AnyBuffer) = <<>>
  BY <1>1 DEF LiveIn
<1> QED BY <1>1, <1>2, DynOps DEF Dyn!Init

\* A new plan empties the buffer.
LEMMA DynResets ==
    ASSUME AnyBuffer \in Buffers, NEW g, Begin(g)
    PROVE  Dyn!Next
<1>1. blocks'[AnyBuffer] = Fresh /\ maxs'[AnyBuffer] = 0
  BY DEF Begin
<1>2. \A t \in DOMAIN hn' : hn'[t].allocated = FALSE
  BY DEF Begin, Unset
<1>3. LiveIn(AnyBuffer)' = <<>>
  <2>1. {t \in DOMAIN hn' : hn'[t].allocated /\ hn'[t].buffer = AnyBuffer} = {}
    BY <1>2
  <2> QED BY <2>1 DEF LiveIn
<1>4. Dyn!Reset
  BY <1>1, <1>3, DynOps DEF Dyn!Reset
<1> QED BY <1>4 DEF Dyn!Next

\* A step of the walk that allocates or frees.
LEMMA MemoryStepIsDyn ==
    ASSUME AnyBuffer \in Buffers, SmallInv, pc = "plan",
           \/ MemoryStays
           \/ \E p, t \in Ids(graph) : HandsOver(p, t)
           \/ \E t \in Ids(graph), b \in Buffers : Allocates(t, b)
           \/ \E t \in Ids(graph) : Releases(t)
    PROVE  [Dyn!Next]_Dyn!vars
<1>1. /\ GInv /\ Small(graph) /\ \A c \in Buffers : MemoryIs(c)
      /\ blocks \in [Buffers -> Seq(BlockType)] /\ maxs \in [Buffers -> Nat]
      /\ IsGraph(graph) /\ DOMAIN hn = Ids(graph)
  BY InvIs, PlanFacts DEF MemoryIs, SmallInv
<1>2. ASSUME NEW t \in Ids(graph)
      PROVE  /\ hn[t].size \in Nat /\ (hn[t].allocated => hn[t].buffer \in Buffers)
             /\ t \in Nat /\ graph.t[t].size \in 0 .. LargestTensor
             /\ hn[t].size = Aligned(graph.t[t].size)
  <2>1. hn[t] \in Place /\ (hn[t].allocated => hn[t].buffer \in Buffers)
        /\ hn[t].size = Aligned(graph.t[t].size)
    BY <1>1, InvIs, PlanFacts
  <2>2. t \in Nat /\ graph.t[t].size \in Nat
    BY <1>1, GraphTensor DEF IsGraph, Ids
  <2>3. graph.t[t].size <= LargestTensor
    BY <1>1 DEF Small
  <2> QED BY <2>1, <2>2, <2>3, PlaceFacts
<1>3. CASE MemoryStays
  <2>1. Live(hn', AnyBuffer) = Live(hn, AnyBuffer)
    BY <1>1, <1>3, StaysKeeps
  <2>2. blocks' = blocks /\ maxs' = maxs
    BY <1>3 DEF MemoryStays
  <2> QED BY <2>1, <2>2, DynStays
<1>4. ASSUME NEW p \in Ids(graph), NEW t \in Ids(graph), HandsOver(p, t)
      PROVE  Dyn!Next \/ UNCHANGED Dyn!vars
  <2>1. blocks' = blocks /\ maxs' = maxs
    BY <1>4 DEF HandsOver
  <2>2. CASE AnyBuffer = hn[p].buffer
    <3>1. /\ Replaces(Live(hn', AnyBuffer), Live(hn, AnyBuffer), p, t)
          /\ p \in DOMAIN Live(hn, AnyBuffer) /\ t \notin DOMAIN Live(hn, AnyBuffer)
      BY <1>1, <1>4, <2>2, HandsOverKeeps
    <3>2. p \in Nat /\ t \in Nat
      BY <1>2
    <3> QED BY <2>1, <3>1, <3>2, DynHandsOver
  <2>3. CASE AnyBuffer # hn[p].buffer
    <3>1. Live(hn', AnyBuffer) = Live(hn, AnyBuffer)
      BY <1>1, <1>4, <2>3, HandsOverKeeps
    <3> QED BY <2>1, <3>1, DynStays
  <2> QED BY <2>2, <2>3
<1>5. ASSUME NEW t \in Ids(graph), NEW b \in Buffers, Allocates(t, b)
      PROVE  Dyn!Next \/ UNCHANGED Dyn!vars
  <2>1. CASE AnyBuffer # b
    <3>1. /\ blocks'[AnyBuffer] = blocks[AnyBuffer] /\ maxs'[AnyBuffer] = maxs[AnyBuffer]
          /\ Live(hn', AnyBuffer) = Live(hn, AnyBuffer)
      <4>1. hn[t].size \in Nat
        BY <1>2
      <4>2. \A c \in Buffers \ {b} : /\ blocks'[c] = blocks[c] /\ maxs'[c] = maxs[c]
                                      /\ Live(hn', c) = Live(hn, c)
        BY <1>1, <1>5, <4>1, AllocatesKeeps
      <4> QED BY <2>1, <4>2
    <3> QED BY <3>1, DynStays
  <2>2. CASE AnyBuffer = b
    <3>1. PICK size : size = graph.t[t].size
      OBVIOUS
    <3>2. size \in 0 .. LargestTensor /\ t \in Nat /\ hn[t].size = Aligned(size)
      BY <1>2, <3>1
    <3>3. PICK z : z = Aligned(size)
      OBVIOUS
    <3>4. PICK k : k = BestFit(blocks[b], z)
      OBVIOUS
    <3>5. PICK o : o = blocks[b][k].offset
      OBVIOUS
    <3>6. /\ t \in DOMAIN hn /\ ~hn[t].allocated /\ k # 0 /\ Gets(hn', hn, t, b, o)
          /\ blocks' = [blocks EXCEPT ![b] = Cut(blocks[b], k, z)]
          /\ maxs' = [maxs EXCEPT ![b] = IF o + z > maxs[b] THEN o + z ELSE maxs[b]]
      BY <1>5, <3>2, <3>3, <3>4, <3>5 DEF Allocates
    <3>7. /\ blocks'[b] = Cut(blocks[b], k, z)
          /\ maxs'[b] = IF o + z > maxs[b] THEN o + z ELSE maxs[b]
      BY <1>1, <3>6
    <3>8. t \notin DOMAIN Live(hn, b) /\ Adds(Live(hn', b), Live(hn, b), t, Block(o, z))
      BY <3>2, <3>3, <3>6, AddsLive
    <3> QED BY <2>2, <3>2, <3>3, <3>4, <3>5, <3>6, <3>7, <3>8, DynAllocs
  <2> QED BY <2>1, <2>2
<1>6. ASSUME NEW t \in Ids(graph), Releases(t)
      PROVE  Dyn!Next \/ UNCHANGED Dyn!vars
  <2>1. PICK b \in Buffers : b = hn[t].buffer
    BY <1>2, <1>6 DEF Releases
  <2>2. /\ t \in DOMAIN hn /\ hn[t].allocated /\ Loses(hn', hn, t) /\ maxs' = maxs
        /\ blocks' = [blocks EXCEPT ![b] = Freed(blocks[b], hn[t].offset, hn[t].size)]
    BY <1>6, <2>1 DEF Releases
  <2>3. CASE AnyBuffer # b
    <3>1. /\ blocks'[AnyBuffer] = blocks[AnyBuffer]
          /\ Live(hn', AnyBuffer) = Live(hn, AnyBuffer)
      BY <1>1, <1>2, <1>6, <2>1, <2>3, ReleasesKeeps
    <3> QED BY <2>2, <3>1, DynStays
  <2>4. CASE AnyBuffer = b
    <3>1. /\ t \in DOMAIN Live(hn, b) /\ Drops(Live(hn', b), Live(hn, b), t)
          /\ Live(hn, b)[t].offset = hn[t].offset /\ Live(hn, b)[t].size = hn[t].size
      BY <2>1, <2>2, DropsLive
    <3>2. blocks'[b] = Freed(blocks[b], hn[t].offset, hn[t].size)
      BY <1>1, <2>2
    <3>3. t \in Nat
      BY <1>2
    <3> QED BY <2>2, <2>4, <3>1, <3>2, <3>3, DynFrees
  <2> QED BY <2>3, <2>4
<1> QED BY <1>3, <1>4, <1>5, <1>6

LEMMA SmallKeeps == SmallInv /\ [SmallNext]_vars => SmallInv'
<1> SUFFICES ASSUME SmallInv, [SmallNext]_vars PROVE SmallInv'
  OBVIOUS
<1>1. GInv'
  <2>1. [GraphNext]_vars
    BY DEF SmallNext, GraphNext
  <2> QED BY <2>1, GraphKeeps DEF SmallInv
<1>2. CASE Walk \/ UNCHANGED vars
  <2>1. graph' = graph /\ (pc' = "plan" => pc = "plan")
    BY <1>2 DEF Walk, Allocate, NextNode, Update, Planned, vars
  <2> QED BY <1>1, <2>1 DEF SmallInv, Small, Ids
<1>3. ASSUME NEW g, NEW moved, IsGraph(g), Small(g), AllocSplits(g, moved) PROVE SmallInv'
  <2>1. graph' = g
    BY <1>3 DEF AllocSplits, Begin
  <2> QED BY <1>1, <1>3, <2>1 DEF SmallInv, Small, Ids
<1> QED BY <1>2, <1>3 DEF SmallNext

LEMMA StepIsDyn ==
    AnyBuffer \in Buffers /\ SmallInv /\ [SmallNext]_vars => [Dyn!Next]_Dyn!vars
<1> SUFFICES ASSUME AnyBuffer \in Buffers, SmallInv, [SmallNext]_vars PROVE [Dyn!Next]_Dyn!vars
  OBVIOUS
<1>1. ASSUME hn' = hn, blocks' = blocks, maxs' = maxs PROVE UNCHANGED Dyn!vars
  BY <1>1, DynStays
<1>2. CASE Allocate
  <2>1. pc = "plan"
    BY <1>2 DEF Allocate
  <2> QED BY <1>2, <2>1, AllocateDoes, MemoryStepIsDyn DEF SmallInv
<1>3. CASE Update
  <2>1. pc = "plan"
    BY <1>3 DEF Update
  <2> QED BY <1>3, <2>1, UpdateDoes, MemoryStepIsDyn DEF SmallInv
<1>4. CASE NextNode \/ Planned \/ UNCHANGED vars
  <2>1. hn' = hn /\ blocks' = blocks /\ maxs' = maxs
    BY <1>4 DEF NextNode, Planned, vars, plan
  <2> QED BY <1>1, <2>1
<1>5. ASSUME NEW g, NEW moved, IsGraph(g), Small(g), AllocSplits(g, moved)
      PROVE  [Dyn!Next]_Dyn!vars
  <2>1. CASE Begin(g)
    BY <2>1, DynResets
  <2>2. CASE UNCHANGED plan
    BY <1>1, <2>2 DEF plan
  <2> QED BY <1>5, <2>1, <2>2 DEF AllocSplits
<1> QED BY <1>2, <1>3, <1>4, <1>5 DEF SmallNext, Walk

\* The planner uses each of its buffers as ggml_dyn_tallocr is meant to be
\* used: every step of a plan is, in any one buffer, an allocation of a tensor
\* that has no memory, a hand-over to one that has none, a release of what is
\* allocated, with the range it was given, a reset, or nothing.
THEOREM PlansUseDynAlloc == AnyBuffer \in Buffers => (SmallSpec => Dyn!Spec)
<1> SUFFICES ASSUME AnyBuffer \in Buffers PROVE SmallSpec => Dyn!Spec
  OBVIOUS
<1>1. Init => SmallInv
  BY GraphStart DEF SmallInv, Init
<1>2. SmallInv /\ [SmallNext]_vars => [Dyn!Next]_Dyn!vars
  BY StepIsDyn
<1>3. Init => Dyn!Init
  BY DynStarts
<1> QED BY <1>1, <1>2, <1>3, SmallKeeps, PTL DEF SmallSpec, Dyn!Spec

=============================================================================
