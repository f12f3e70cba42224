--------------------------- MODULE SlotCache_proofs ---------------------------
(***************************************************************************)
(* Proofs about SlotCache, for every number of slots, size of their        *)
(* share, batch and ubatch, and sequence of requests. That prompts fit     *)
(* holds whatever the server is used for. The rest holds as long as        *)
(* nobody sends a system prompt, no request comes before the loop has      *)
(* been idle (Plain), and a view that fails for want of room fails at its  *)
(* first ubatch (NeverHalfway), which is proved where a batch is decoded   *)
(* in one ubatch. SlotCache's runs show what changes with a system         *)
(* prompt, and that a view that fails halfway breaks SeesItsText.          *)
(*                                                                         *)
(* First the operations on the cache, by what they do to the tokens a slot *)
(* has in it; then the steps of the server, which only use that.           *)
(***************************************************************************)
EXTENDS SlotCache, SequenceTheorems, FiniteSetTheorems, TLAPS

-----------------------------------------------------------------------------
(* The cache.                                                              *)

CacheFields == {"pos", "delta", "seqs", "row", "head", "used", "n", "hasShift", "doDefrag"}

IsCache(c) == c = [f \in CacheFields |-> c[f]]

Shaped(c) ==
    /\ IsCache(c)
    /\ c.pos \in [KV!Cells -> Int] /\ c.delta \in [KV!Cells -> Int]
    /\ c.seqs \in [KV!Cells -> SUBSET Int]
    /\ c.row \in [KV!Cells -> [tok : Toks \cup {NoTok}, rot : Int]]
    /\ c.hasShift \in BOOLEAN /\ c.doDefrag = FALSE

\* Without a system prompt no two slots share a cell, ...
Owned(c) ==
    \A i \in KV!Cells :
       /\ c.pos[i] >= 0 <=> c.seqs[i] # {}
       /\ c.seqs[i] = {} \/ \E s \in Slots : c.seqs[i] = {Seq1(s)}

\* ... a row is rotated to its position up to the delta, ...
Rotated(c) ==
    /\ \A i \in KV!Cells : c.seqs[i] # {} => c.row[i].rot + c.delta[i] = c.pos[i]
    /\ ~c.hasShift => \A i \in KV!Cells : c.delta[i] = 0

\* ... and a slot holds each of its positions in one cell.
Single(c) ==
    \A i, k \in KV!Cells :
       c.seqs[i] # {} /\ c.seqs[i] = c.seqs[k] /\ c.pos[i] = c.pos[k] => i = k

Good(c) == Shaped(c) /\ Owned(c) /\ Rotated(c) /\ Single(c)

\* The cache holds token t for slot s at position p.
Has(c, s, p, t) ==
    \E i \in KV!Cells : Seq1(s) \in c.seqs[i] /\ c.pos[i] = p /\ c.row[i].tok = t

\* The cells of a slot are its own, and each of its positions is in one.
LEMMA OwnCell ==
    ASSUME NEW c, Good(c), NEW s \in Slots, NEW i \in KV!Cells, Seq1(s) \in c.seqs[i]
    PROVE  /\ c.seqs[i] = {Seq1(s)} /\ c.pos[i] \in Nat
           /\ \A r \in Slots : Seq1(r) \in c.seqs[i] => r = s
           /\ \A k \in KV!Cells :
                 Seq1(s) \in c.seqs[k] /\ c.pos[k] = c.pos[i] => k = i
<1>1. \A k \in KV!Cells : Seq1(s) \in c.seqs[k] => c.seqs[k] = {Seq1(s)}
  BY DEF Good, Owned
<1>2. c.seqs[i] = {Seq1(s)}
  BY <1>1
<1>3. c.pos[i] \in Int /\ c.pos[i] >= 0
  BY <1>2 DEF Good, Owned, Shaped
<1>4. \A r \in Slots : Seq1(r) \in c.seqs[i] => r = s
  BY <1>2, SlotAssumption DEF Seq1, Slots
<1>5. ASSUME NEW k \in KV!Cells, Seq1(s) \in c.seqs[k], c.pos[k] = c.pos[i]
      PROVE  k = i
  BY <1>1, <1>2, <1>5 DEF Good, Single
<1> QED BY <1>2, <1>3, <1>4, <1>5

\* So a slot has at most one token at a position.
LEMMA OneToken ==
    ASSUME NEW c, Good(c), NEW s \in Slots, NEW p, NEW t, NEW u,
           Has(c, s, p, t), Has(c, s, p, u)
    PROVE  t = u /\ p \in Nat
<1>1. PICK i \in KV!Cells : Seq1(s) \in c.seqs[i] /\ c.pos[i] = p /\ c.row[i].tok = t
  BY DEF Has
<1>2. PICK k \in KV!Cells : Seq1(s) \in c.seqs[k] /\ c.pos[k] = p /\ c.row[k].tok = u
  BY DEF Has
<1>3. k = i /\ c.pos[i] \in Nat
  BY <1>1, <1>2, OwnCell
<1> QED BY <1>1, <1>2, <1>3

LEMMA ClearHas ==
    ASSUME NEW c, Good(c)
    PROVE  /\ Good(KV!Clear(c))
           /\ \A s \in Slots : \A p, t : ~Has(KV!Clear(c), s, p, t)
<1> DEFINE d == KV!Clear(c)
<1>1. /\ IsCache(d)
      /\ d.pos = [i \in KV!Cells |-> -1] /\ d.seqs = [i \in KV!Cells |-> {}]
      /\ d.row = [i \in KV!Cells |-> [tok |-> NoTok, rot |-> 0]]
      /\ d.delta = c.delta /\ d.hasShift = c.hasShift /\ d.doDefrag = c.doDefrag
  BY DEF Good, Shaped, IsCache, CacheFields, KV!Clear
<1> HIDE DEF d
<1>2. Good(d)
  <2>1. Shaped(d)
    <3>1. d.row \in [KV!Cells -> [tok : Toks \cup {NoTok}, rot : Int]]
      BY <1>1
    <3> QED BY <1>1, <3>1 DEF Good, Shaped
  <2>2. Owned(d) /\ Single(d)
    BY <1>1 DEF Owned, Single
  <2>3. Rotated(d)
    BY <1>1 DEF Good, Rotated
  <2> QED BY <2>1, <2>2, <2>3 DEF Good
<1>3. \A s \in Slots : \A p, t : ~Has(d, s, p, t)
  BY <1>1 DEF Has
<1> QED BY <1>2, <1>3 DEF d

\* The tokens of slot s in the range go, the others stay.
LEMMA RmHas ==
    ASSUME NEW c, Good(c), NEW s \in Slots, NEW p0 \in Int, NEW p1 \in Int,
           NEW d, d = KV!SeqRm(c, Seq1(s), p0, p1)
    PROVE  /\ Good(d)
           /\ \A r \in Slots : \A p, t :
                 Has(d, r, p, t) <=> Has(c, r, p, t) /\ ~(r = s /\ KV!Within(p, p0, p1))
<1> DEFINE hit(i) == KV!Within(c.pos[i], p0, p1) /\ Seq1(s) \in c.seqs[i]
<1>0. Seq1(s) # AnySeq
  BY SlotAssumption DEF Slots, Seq1
<1>1. /\ IsCache(d)
      /\ d.delta = c.delta /\ d.hasShift = c.hasShift /\ d.doDefrag = c.doDefrag
      /\ d.row = c.row
      /\ d.seqs = [i \in KV!Cells |-> IF hit(i) THEN c.seqs[i] \ {Seq1(s)} ELSE c.seqs[i]]
      /\ d.pos = [i \in KV!Cells |-> IF hit(i) /\ c.seqs[i] \ {Seq1(s)} = {}
                                     THEN -1 ELSE c.pos[i]]
  BY <1>0 DEF Good, Shaped, IsCache, CacheFields, KV!SeqRm
<1>2. \A i \in KV!Cells : hit(i) => c.seqs[i] = {Seq1(s)}
  BY OwnCell
<1>3. /\ d.seqs = [i \in KV!Cells |-> IF hit(i) THEN {} ELSE c.seqs[i]]
      /\ d.pos = [i \in KV!Cells |-> IF hit(i) THEN -1 ELSE c.pos[i]]
  <2> HIDE DEF hit
  <2>1. \A i \in KV!Cells : hit(i) => c.seqs[i] \ {Seq1(s)} = {}
    BY <1>2
  <2>2. \A i \in KV!Cells :
           /\ (IF hit(i) THEN c.seqs[i] \ {Seq1(s)} ELSE c.seqs[i])
              = (IF hit(i) THEN {} ELSE c.seqs[i])
           /\ (IF hit(i) /\ c.seqs[i] \ {Seq1(s)} = {} THEN -1 ELSE c.pos[i])
              = (IF hit(i) THEN -1 ELSE c.pos[i])
    BY ONLY <2>1
  <2>3. d.seqs = [i \in KV!Cells |-> IF hit(i) THEN {} ELSE c.seqs[i]]
    BY ONLY <1>1, <2>2
  <2>4. d.pos = [i \in KV!Cells |-> IF hit(i) THEN -1 ELSE c.pos[i]]
    BY ONLY <1>1, <2>2
  <2> QED BY <2>3, <2>4
<1>4. Good(d)
  <2> HIDE DEF hit
  <2>1. Shaped(d)
    BY <1>1, <1>3 DEF Good, Shaped
  <2>2. Owned(d)
    BY <1>3 DEF Good, Owned
  <2>3. Rotated(d)
    BY <1>1, <1>3 DEF Good, Rotated
  <2>4. Single(d)
    BY <1>3 DEF Good, Single
  <2> QED BY <2>1, <2>2, <2>3, <2>4 DEF Good
<1>5. ASSUME NEW r \in Slots, NEW p, NEW t
      PROVE  Has(d, r, p, t) <=> Has(c, r, p, t) /\ ~(r = s /\ KV!Within(p, p0, p1))
  <2>1. ASSUME NEW i \in KV!Cells
        PROVE  Seq1(r) \in d.seqs[i] <=>
                  Seq1(r) \in c.seqs[i] /\ ~(r = s /\ KV!Within(c.pos[i], p0, p1))
    <3>1. Seq1(r) \in c.seqs[i] /\ hit(i) => r = s
      BY OwnCell
    <3> QED BY <1>3, <3>1
  <2>2. \A i \in KV!Cells : Seq1(r) \in d.seqs[i] => d.pos[i] = c.pos[i]
    BY <1>3
  <2> HIDE DEF hit
  <2> QED BY <2>1, <2>2, <1>1 DEF Has
<1> QED BY <1>4, <1>5

\* A window of one cell at least that a search returns is free.
P == INSTANCE KVLayout_proofs WITH MaxMoves <- 1

LEMMA SizeType == Size \in Nat \ {0} /\ Size = NSlots * NCtx
<1>1. \A a, b \in Nat \ {0} : a * b \in Nat \ {0}
  OBVIOUS
<1> QED BY <1>1, SlotAssumption DEF Size

LEMMA WindowFree ==
    ASSUME NEW c, NEW k \in Nat, KV!CanPlace(c, k),
           NEW h, h = KV!SlotAt(KV!Taken(c), c.head, k)
    PROVE  /\ h \in KV!Cells /\ h + k <= Size
           /\ \A i \in h .. h + k - 1 : i \notin KV!Taken(c)
<1>1. P!LayoutAssumption
  BY SizeType DEF P!LayoutAssumption
<1>2. \A occ : KV!Windows(occ, k) = P!Windows(occ, k)
  BY DEF KV!Windows, P!Windows, KV!Cells, P!Cells, KV!Fits, P!Fits
<1>3. P!Windows(KV!Taken(c), k) # {}
  BY <1>2 DEF KV!CanPlace
<1>4. P!SlotAt(KV!Taken(c), c.head, k) \in P!Windows(KV!Taken(c), k)
  BY <1>1, <1>3, P!SlotIsWindow
<1>5. h = P!SlotAt(KV!Taken(c), c.head, k)
  BY <1>2 DEF KV!SlotAt, P!SlotAt, KV!Least, P!Least
<1>6. h \in KV!Windows(KV!Taken(c), k)
  BY <1>2, <1>4, <1>5
<1> QED BY <1>6 DEF KV!Windows, KV!Fits

MovedUp(c, s, k, n, e) == KV!SeqAdd(c, Seq1(s), k + n, e, -n)

\* The tokens behind the n discarded ones move up.
LEMMA AddHas ==
    ASSUME NEW c, Good(c), NEW s \in Slots, NEW k \in Nat, NEW n \in Nat \ {0}, NEW e \in Nat,
           \A p, t : Has(c, s, p, t) => p < k \/ (p >= k + n /\ p < e),
           NEW d, d = MovedUp(c, s, k, n, e)
    PROVE  /\ Good(d)
           /\ \A r \in Slots : \A p \in Nat : \A t :
                 Has(d, r, p, t) <=>
                    IF r = s /\ p >= k THEN Has(c, r, p + n, t) ELSE Has(c, r, p, t)
<1> DEFINE hit(i) == Seq1(s) \in c.seqs[i] /\ c.pos[i] >= k + n
<1>0. \A i \in KV!Cells : Seq1(s) \in c.seqs[i] =>
         /\ c.pos[i] \in Nat
         /\ c.pos[i] < k \/ (c.pos[i] >= k + n /\ c.pos[i] < e)
  <2>1. ASSUME NEW i \in KV!Cells, Seq1(s) \in c.seqs[i]
        PROVE  /\ c.pos[i] \in Nat
               /\ c.pos[i] < k \/ (c.pos[i] >= k + n /\ c.pos[i] < e)
    <3>1. Has(c, s, c.pos[i], c.row[i].tok)
      BY <2>1 DEF Has
    <3>2. c.pos[i] \in Nat
      BY <2>1, OwnCell
    <3> QED BY <3>1, <3>2
  <2> QED BY <2>1
<1>1. CASE k + n = e
  <2>1. d = c
    BY <1>1 DEF MovedUp, KV!SeqAdd, KV!Greater
  <2>2. \A p \in Nat : \A t : Has(c, s, p, t) => p < k
    BY <1>1
  <2> QED BY <2>1, <2>2
<1>2. CASE k + n # e
  <2>1. KV!Greater(k + n, 0) # e
    BY <1>2 DEF KV!Greater
  <2>2. \A i \in KV!Cells :
           Seq1(s) \in c.seqs[i] /\ KV!Within(c.pos[i], k + n, e) <=> hit(i)
    BY <1>0 DEF KV!Within
  <2>3. \A i \in KV!Cells : hit(i) => ~(c.pos[i] + -n < 0)
    BY <1>0
  <2>4. /\ IsCache(d) /\ d.doDefrag = c.doDefrag
        /\ d.row = c.row /\ d.seqs = c.seqs
        /\ d.pos = [i \in KV!Cells |-> IF hit(i) THEN c.pos[i] + -n ELSE c.pos[i]]
        /\ d.delta = [i \in KV!Cells |-> IF hit(i) THEN c.delta[i] + -n ELSE c.delta[i]]
        /\ d.hasShift = (c.hasShift \/ \E i \in KV!Cells : hit(i))
    <3> DEFINE H == {i \in KV!Cells : Seq1(s) \in c.seqs[i] /\ KV!Within(c.pos[i], k + n, e)}
               F == {i \in H : c.pos[i] + -n < 0}
    <3>1. F = {} /\ H = {i \in KV!Cells : hit(i)}
      BY <2>2, <2>3
    <3> HIDE DEF hit, H, F
    <3>3. c.seqs = [i \in KV!Cells |-> c.seqs[i]]
      BY DEF Good, Shaped
    <3>4. /\ IsCache(d) /\ d.doDefrag = c.doDefrag
          /\ d.row = c.row /\ d.seqs = [i \in KV!Cells |-> IF i \in F THEN {} ELSE c.seqs[i]]
          /\ d.pos = [i \in KV!Cells |-> IF i \in F THEN -1
                                           ELSE IF i \in H THEN c.pos[i] + -n
                                           ELSE c.pos[i]]
          /\ d.delta = [i \in KV!Cells |-> IF i \in H THEN c.delta[i] + -n ELSE c.delta[i]]
          /\ d.hasShift = (c.hasShift \/ H # {})
      BY <2>1 DEF Good, Shaped, IsCache, CacheFields, MovedUp, KV!SeqAdd, H, F
    <3> QED BY <3>1, <3>3, <3>4
  <2>5. Shaped(d)
    <3> HIDE DEF hit
    <3>1. c.pos \in [KV!Cells -> Int] /\ c.delta \in [KV!Cells -> Int] /\ c.hasShift \in BOOLEAN
      BY DEF Good, Shaped
    <3>2. d.pos \in [KV!Cells -> Int]
      BY <2>4, <3>1
    <3>3. d.delta \in [KV!Cells -> Int]
      BY <2>4, <3>1
    <3>4. d.hasShift \in BOOLEAN
      BY <2>4, <3>1
    <3> QED BY <2>4, <3>2, <3>3, <3>4 DEF Good, Shaped
  <2>6. Owned(d)
    <3>1. \A i \in KV!Cells : d.pos[i] >= 0 <=> c.pos[i] >= 0
      BY <2>4, <1>0
    <3> QED BY <2>4, <3>1 DEF Good, Owned
  <2>7. Rotated(d)
    <3> HIDE DEF hit
    <3>1. \A i \in KV!Cells : c.pos[i] \in Int /\ c.delta[i] \in Int /\ c.row[i].rot \in Int
      BY DEF Good, Shaped
    <3>2. \A i \in KV!Cells : d.delta[i] - d.pos[i] = c.delta[i] - c.pos[i]
      BY <2>4, <3>1
    <3>3. \A i \in KV!Cells : d.delta[i] \in Int /\ d.pos[i] \in Int
      BY <2>4, <3>1
    <3>4. ASSUME NEW i \in KV!Cells, d.seqs[i] # {} PROVE d.row[i].rot + d.delta[i] = d.pos[i]
      <4>1. d.row[i].rot = c.row[i].rot /\ c.row[i].rot + c.delta[i] = c.pos[i]
        BY <2>4, <3>4 DEF Good, Rotated
      <4>2. d.delta[i] - d.pos[i] = c.delta[i] - c.pos[i]
        BY <3>2
      <4> QED BY ONLY <3>1, <3>3, <4>1, <4>2, i \in KV!Cells
    <3>5. ~d.hasShift => \A i \in KV!Cells : d.delta[i] = 0
      BY <2>4 DEF Good, Rotated
    <3> QED BY <3>4, <3>5 DEF Rotated
  <2>8. Single(d)
    <3>1. SUFFICES ASSUME NEW i \in KV!Cells, NEW j \in KV!Cells,
                          c.seqs[i] # {}, c.seqs[i] = c.seqs[j], d.pos[i] = d.pos[j]
                   PROVE  i = j
      BY <2>4 DEF Single
    <3>2. PICK r \in Slots : c.seqs[i] = {Seq1(r)}
      BY <3>1 DEF Good, Owned
    <3>3. c.pos[i] = c.pos[j]
      <4>1. CASE r = s
        <5>1. Seq1(s) \in c.seqs[i] /\ Seq1(s) \in c.seqs[j]
          BY <4>1, <3>1, <3>2
        <5>2. /\ d.pos[i] = IF hit(i) THEN c.pos[i] + -n ELSE c.pos[i]
              /\ d.pos[j] = IF hit(j) THEN c.pos[j] + -n ELSE c.pos[j]
          BY <2>4
        <5>3. /\ c.pos[i] \in Nat /\ (c.pos[i] < k \/ c.pos[i] >= k + n)
              /\ c.pos[j] \in Nat /\ (c.pos[j] < k \/ c.pos[j] >= k + n)
          BY <5>1, <1>0
        <5>4. d.pos[i] = d.pos[j]
          BY <3>1
        <5> QED BY ONLY <5>1, <5>2, <5>3, <5>4, k \in Nat, n \in Nat \ {0}
      <4>2. CASE r # s
        <5>1. ~hit(i) /\ ~hit(j)
          BY <4>2, <3>1, <3>2, SlotAssumption DEF Seq1, Slots
        <5> QED BY <5>1, <3>1, <2>4
      <4> QED BY <4>1, <4>2
    <3> QED BY <3>1, <3>3 DEF Good, Single
  <2>9. ASSUME NEW r \in Slots, NEW p \in Nat, NEW t
        PROVE  Has(d, r, p, t) <=>
                  IF r = s /\ p >= k THEN Has(c, r, p + n, t) ELSE Has(c, r, p, t)
    <3>1. CASE r # s
      <4>1. \A i \in KV!Cells : Seq1(r) \in c.seqs[i] => ~hit(i)
        BY <3>1, OwnCell
      <4>2. \A i \in KV!Cells : Seq1(r) \in c.seqs[i] => d.pos[i] = c.pos[i]
        BY <4>1, <2>4
      <4> QED BY <3>1, <4>2, <2>4 DEF Has
    <3>2. CASE r = s
      <4>1. ASSUME NEW i \in KV!Cells, Seq1(s) \in c.seqs[i]
            PROVE  d.pos[i] = p <=> IF p >= k THEN c.pos[i] = p + n ELSE c.pos[i] = p
        BY <4>1, <1>0, <2>4
      <4> HIDE DEF hit
      <4>2. CASE p >= k
        BY <4>1, <4>2, <3>2, <2>4 DEF Has
      <4>3. CASE ~(p >= k)
        BY <4>1, <4>3, <3>2, <2>4 DEF Has
      <4> QED BY <4>2, <4>3
    <3> QED BY <3>1, <3>2
  <2> QED BY <2>5, <2>6, <2>7, <2>8, <2>9 DEF Good
<1> QED BY <1>1, <1>2

\* Nothing but head and the number of attended cells differs.
SameCells(c, d) ==
    /\ IsCache(d) /\ d.pos = c.pos /\ d.seqs = c.seqs /\ d.row = c.row /\ d.delta = c.delta
    /\ d.hasShift = c.hasShift /\ d.doDefrag = c.doDefrag

LEMMA SameHas ==
    ASSUME NEW c, Good(c), NEW d, SameCells(c, d)
    PROVE  /\ Good(d) /\ KV!Taken(d) = KV!Taken(c)
           /\ \A r \in Slots : \A p, t : Has(d, r, p, t) <=> Has(c, r, p, t)
<1>1. Good(d)
  BY DEF SameCells, Good, Shaped, Owned, Rotated, Single
<1> QED BY <1>1 DEF SameCells, Has, KV!Taken

LEMMA RewoundSame ==
    ASSUME NEW c, Good(c), NEW k PROVE SameCells(c, KV!Rewound(c, k))
BY DEF SameCells, KV!Rewound, Good, Shaped, IsCache, CacheFields

LEMMA FullSame ==
    ASSUME NEW c, Good(c), NEW k PROVE SameCells(c, KV!Full(c, k))
BY DEF SameCells, KV!Full, Good, Shaped, IsCache, CacheFields

\* An update shifts the rows, and leaves the tokens where they are.
LEMMA ShiftedHas ==
    ASSUME NEW c, Good(c), NEW d, d \in KV!Updates(c)
    PROVE  /\ Good(d) /\ ~d.hasShift /\ KV!Taken(d) = KV!Taken(c)
           /\ \A r \in Slots : \A p, t : Has(d, r, p, t) <=> Has(c, r, p, t)
<1>1. d = KV!Shifted(c)
  <2>1. KV!Shifted(c).doDefrag = FALSE
    BY DEF KV!Shifted, Good, Shaped, IsCache, CacheFields
  <2> QED BY <2>1 DEF KV!Updates
<1>2. CASE ~c.hasShift
  BY <1>1, <1>2 DEF KV!Shifted
<1>3. CASE c.hasShift
  <2>1. /\ IsCache(d) /\ d.pos = c.pos /\ d.seqs = c.seqs /\ d.doDefrag = c.doDefrag
        /\ d.row = [i \in KV!Cells |-> [c.row[i] EXCEPT !.rot = @ + c.delta[i]]]
        /\ d.delta = [i \in KV!Cells |-> 0] /\ d.hasShift = FALSE
    BY <1>1, <1>3 DEF KV!Shifted, Good, Shaped, IsCache, CacheFields
  <2>2. \A i \in KV!Cells : /\ c.row[i] \in [tok : Toks \cup {NoTok}, rot : Int]
                            /\ c.delta[i] \in Int
    BY DEF Good, Shaped
  <2>3. \A i \in KV!Cells : /\ d.row[i].tok = c.row[i].tok
                            /\ d.row[i].rot = c.row[i].rot + c.delta[i]
                            /\ d.row[i] \in [tok : Toks \cup {NoTok}, rot : Int]
    BY <2>1, <2>2
  <2>4. Shaped(d)
    <3>1. d.row \in [KV!Cells -> [tok : Toks \cup {NoTok}, rot : Int]]
      BY <2>1, <2>3
    <3>2. d.delta \in [KV!Cells -> Int]
      BY <2>1
    <3> QED BY <2>1, <3>1, <3>2 DEF Good, Shaped
  <2>5. Owned(d) /\ Single(d)
    BY <2>1 DEF Good, Owned, Single
  <2>6. Rotated(d)
    <3>1. \A i \in KV!Cells : c.seqs[i] # {} => d.row[i].rot + d.delta[i] = d.pos[i]
      BY <2>1, <2>2, <2>3 DEF Good, Rotated
    <3> QED BY <2>1, <3>1 DEF Rotated
  <2>7. KV!Taken(d) = KV!Taken(c)
    BY <2>1 DEF KV!Taken
  <2> QED BY <2>1, <2>3, <2>4, <2>5, <2>6, <2>7 DEF Good, Has
<1> QED BY <1>2, <1>3

BatchToken == [pos : Nat, seqs : {{Seq1(s)} : s \in Slots}, tok : Toks \cup {NoTok}]

\* What u adds for slot s.
Adds(u, s, p, t) ==
    \E j \in 1 .. Len(u) : u[j].seqs = {Seq1(s)} /\ u[j].pos = p /\ u[j].tok = t

\* No two tokens of u, and none of u and of c, are for the same place.
Fresh(u, c) ==
    /\ \A j, l \in 1 .. Len(u) : u[j].seqs = u[l].seqs /\ u[j].pos = u[l].pos => j = l
    /\ \A j \in 1 .. Len(u), s \in Slots : \A t :
          u[j].seqs = {Seq1(s)} => ~Has(c, s, u[j].pos, t)

\* d is c with ubatch u, which has not been in it, ...
Placing(c, u, d) ==
    /\ u \in Seq(BatchToken) /\ u # <<>> /\ Fresh(u, c)
    /\ KV!CanPlace(c, Len(u)) /\ d = KV!Computed(KV!Placed(c, u), u)

\* ... and has what slot s adds by it.
WithAdded(c, d, u, s) ==
    \A p, t : Has(d, s, p, t) <=> Has(c, s, p, t) \/ Adds(u, s, p, t)

\* A placed ubatch adds its tokens, and overwrites none.
LEMMA PlaceHas ==
    ASSUME NEW c, Good(c), ~c.hasShift, NEW u, NEW d, Placing(c, u, d)
    PROVE  Good(d) /\ \A r \in Slots : WithAdded(c, d, u, r)
<1> USE DEF Placing
<1> DEFINE h == KV!SlotAt(KV!Taken(c), c.head, Len(u))
           In(i) == i \in h .. h + Len(u) - 1
           e == KV!Placed(c, u)
<1>0. Len(u) \in Nat \ {0} /\ \A j \in 1 .. Len(u) : u[j] \in BatchToken
  BY EmptySeq, LenProperties, ElementOfSeq
<1>1. /\ h \in KV!Cells /\ h + Len(u) <= Size
      /\ \A i \in h .. h + Len(u) - 1 : i \notin KV!Taken(c)
  <2> HIDE DEF h
  <2>1. \A g : g = h => g = KV!SlotAt(KV!Taken(c), c.head, Len(u))
    BY DEF h
  <2> QED BY <2>1, <1>0, WindowFree
<1>2. h \in Int /\ \A i \in KV!Cells : i \in Int
  BY <1>1, SizeType DEF KV!Cells
<1>3. \A i \in KV!Cells : In(i) => c.seqs[i] = {} /\ c.delta[i] = 0
  <2>1. \A i \in KV!Cells : In(i) => ~(c.pos[i] >= 0)
    BY <1>1 DEF KV!Taken
  <2> QED BY <2>1 DEF Good, Owned, Rotated
<1>4. /\ IsCache(e) /\ e.head = h /\ e.delta = c.delta /\ e.row = c.row
      /\ e.hasShift = c.hasShift /\ e.doDefrag = c.doDefrag
      /\ e.pos = [i \in KV!Cells |-> IF In(i) THEN u[i - h + 1].pos ELSE c.pos[i]]
      /\ e.seqs = [i \in KV!Cells |-> IF In(i) THEN c.seqs[i] \cup u[i - h + 1].seqs
                                      ELSE c.seqs[i]]
  <2> HIDE DEF h
  <2> QED BY DEF h, KV!Placed, Good, Shaped, IsCache, CacheFields
<1> HIDE DEF e, h
<1>5. /\ IsCache(d) /\ d.delta = e.delta /\ d.pos = e.pos /\ d.seqs = e.seqs
      /\ d.hasShift = e.hasShift /\ d.doDefrag = e.doDefrag
      /\ d.row = [i \in KV!Cells |-> IF In(i)
                    THEN [tok |-> u[i - h + 1].tok, rot |-> u[i - h + 1].pos]
                    ELSE e.row[i]]
  <2>1. d = KV!Computed(e, u)
    BY DEF e
  <2>2. /\ IsCache(d) /\ d.delta = e.delta /\ d.pos = e.pos /\ d.seqs = e.seqs
        /\ d.hasShift = e.hasShift /\ d.doDefrag = e.doDefrag
        /\ d.row = [i \in KV!Cells |-> IF i \in e.head .. e.head + Len(u) - 1
                      THEN [tok |-> u[i - e.head + 1].tok, rot |-> u[i - e.head + 1].pos]
                      ELSE e.row[i]]
    BY <1>4, <2>1 DEF KV!Computed, IsCache, CacheFields
  <2> QED BY <1>4, <2>2
<1>6. \A i \in KV!Cells : In(i) =>
         /\ i - h + 1 \in 1 .. Len(u) /\ u[i - h + 1] \in BatchToken
         /\ d.pos[i] = u[i - h + 1].pos /\ d.seqs[i] = u[i - h + 1].seqs
         /\ d.row[i] = [tok |-> u[i - h + 1].tok, rot |-> u[i - h + 1].pos]
         /\ d.delta[i] = 0
  <2>1. ASSUME NEW i \in KV!Cells, In(i)
        PROVE  i - h + 1 \in 1 .. Len(u)
    BY <2>1, <1>0, <1>2
  <2> QED BY <2>1, <1>0, <1>3, <1>4, <1>5
<1>7. \A i \in KV!Cells : ~In(i) =>
         /\ d.pos[i] = c.pos[i] /\ d.seqs[i] = c.seqs[i] /\ d.row[i] = c.row[i]
         /\ d.delta[i] = c.delta[i]
  BY <1>4, <1>5
<1>8. \A j \in 1 .. Len(u) : \E i \in KV!Cells : In(i) /\ j = i - h + 1
  <2>1. ASSUME NEW j \in 1 .. Len(u) PROVE h + j - 1 \in KV!Cells /\ In(h + j - 1)
    BY <1>0, <1>1, <1>2, SizeType DEF KV!Cells
  <2>2. ASSUME NEW j \in 1 .. Len(u) PROVE j = (h + j - 1) - h + 1
    BY <1>0, <1>2
  <2> QED BY <2>1, <2>2

<1>9. ASSUME NEW i \in KV!Cells, In(i)
      PROVE  /\ \E s \in Slots : d.seqs[i] = {Seq1(s)}
             /\ d.pos[i] \in Nat /\ d.row[i] \in [tok : Toks \cup {NoTok}, rot : Int]
             /\ d.row[i].tok = u[i - h + 1].tok /\ d.row[i].rot = d.pos[i]
  <2>1. PICK b \in BatchToken : b = u[i - h + 1]
    BY <1>6, <1>9
  <2>2. d.pos[i] = b.pos /\ d.seqs[i] = b.seqs /\ d.row[i] = [tok |-> b.tok, rot |-> b.pos]
    BY <1>6, <1>9, <2>1
  <2>3. b.pos \in Nat /\ b.tok \in Toks \cup {NoTok} /\ \E s \in Slots : b.seqs = {Seq1(s)}
    BY <2>1 DEF BatchToken
  <2> QED BY <2>1, <2>2, <2>3
<1> HIDE DEF In
<1>10. Shaped(d)
  <2>1. \A i \in KV!Cells : d.pos[i] \in Int /\ d.row[i] \in [tok : Toks \cup {NoTok}, rot : Int]
    <3>1. ASSUME NEW i \in KV!Cells
          PROVE  d.pos[i] \in Int /\ d.row[i] \in [tok : Toks \cup {NoTok}, rot : Int]
      <4>1. CASE In(i)
        BY <1>9, <4>1
      <4>2. CASE ~In(i)
        BY <1>7, <4>2 DEF Good, Shaped
      <4> QED BY <4>1, <4>2
    <3> QED BY <3>1
  <2>2. \A i \in KV!Cells : d.seqs[i] \in SUBSET Int
    <3>1. \A r \in Slots : {Seq1(r)} \in SUBSET Int
      BY SlotAssumption DEF Slots, Seq1
    <3>2. ASSUME NEW i \in KV!Cells PROVE d.seqs[i] \in SUBSET Int
      <4>1. CASE In(i)
        BY <1>9, <4>1, <3>1
      <4>2. CASE ~In(i)
        BY <1>7, <4>2 DEF Good, Shaped
      <4> QED BY <4>1, <4>2
    <3> QED BY <3>2
  <2>3. d.pos \in [KV!Cells -> Int]
    BY <2>1, <1>4, <1>5
  <2>4. d.seqs \in [KV!Cells -> SUBSET Int]
    BY <2>2, <1>4, <1>5
  <2>5. d.row \in [KV!Cells -> [tok : Toks \cup {NoTok}, rot : Int]]
    BY <2>1, <1>5
  <2> QED BY <2>3, <2>4, <2>5, <1>4, <1>5 DEF Good, Shaped
<1>11. Owned(d)
  <2>1. ASSUME NEW i \in KV!Cells
        PROVE  /\ d.pos[i] >= 0 <=> d.seqs[i] # {}
               /\ d.seqs[i] = {} \/ \E s \in Slots : d.seqs[i] = {Seq1(s)}
    <3>1. CASE In(i)
      <4>1. PICK s \in Slots : d.seqs[i] = {Seq1(s)}
        BY <1>9, <3>1
      <4>2. d.pos[i] \in Nat
        BY <1>9, <3>1
      <4> QED BY <4>1, <4>2
    <3>2. CASE ~In(i)
      BY <1>7, <3>2 DEF Good, Owned
    <3> QED BY <3>1, <3>2
  <2> QED BY <2>1 DEF Owned
<1>12. Rotated(d)
  <2>1. ASSUME NEW i \in KV!Cells, d.seqs[i] # {}
        PROVE  d.row[i].rot + d.delta[i] = d.pos[i]
    <3>1. CASE In(i)
      <4>1. d.delta[i] = 0
        BY <1>6, <3>1
      <4>2. d.row[i].rot = d.pos[i] /\ d.pos[i] \in Nat
        BY <1>9, <3>1
      <4> QED BY <4>1, <4>2
    <3>2. CASE ~In(i)
      BY <1>7, <2>1, <3>2 DEF Good, Rotated
    <3> QED BY <3>1, <3>2
  <2>2. \A i \in KV!Cells : d.delta[i] = 0
    BY <1>4, <1>5 DEF Good, Rotated
  <2> QED BY <2>1, <2>2 DEF Rotated
<1>13. ASSUME NEW i \in KV!Cells, NEW k \in KV!Cells, In(i), ~In(k),
              d.seqs[i] = d.seqs[k], d.pos[i] = d.pos[k]
       PROVE  FALSE
  <2>1. PICK s \in Slots : d.seqs[i] = {Seq1(s)}
    BY <1>9, <1>13
  <2>2. PICK j \in 1 .. Len(u) : u[j].pos = d.pos[i] /\ u[j].seqs = d.seqs[i]
    BY <1>6, <1>13
  <2>3. ~Has(c, s, u[j].pos, c.row[k].tok)
    BY <2>1, <2>2 DEF Fresh
  <2>4. Seq1(s) \in c.seqs[k] /\ c.pos[k] = u[j].pos
    BY <1>7, <1>13, <2>1, <2>2
  <2> QED BY <2>3, <2>4 DEF Has
<1>14. Single(d)
  <2>1. SUFFICES ASSUME NEW i \in KV!Cells, NEW k \in KV!Cells,
                        d.seqs[i] # {}, d.seqs[i] = d.seqs[k], d.pos[i] = d.pos[k]
                 PROVE  i = k
    BY DEF Single
  <2>2. CASE In(i) /\ In(k)
    <3>1. PICK j, l : j = i - h + 1 /\ l = k - h + 1
      OBVIOUS
    <3>2. /\ j \in 1 .. Len(u) /\ u[j].pos = d.pos[i] /\ u[j].seqs = d.seqs[i]
          /\ l \in 1 .. Len(u) /\ u[l].pos = d.pos[k] /\ u[l].seqs = d.seqs[k]
      BY <1>6, <2>2, <3>1
    <3>3. u[j].seqs = u[l].seqs /\ u[j].pos = u[l].pos
      BY <2>1, <3>2
    <3>4. \A a, b \in 1 .. Len(u) : u[a].seqs = u[b].seqs /\ u[a].pos = u[b].pos => b = a
      BY DEF Fresh
    <3>5. j = l
      BY ONLY <3>2, <3>3, <3>4
    <3> QED BY <3>1, <3>5, <1>2
  <2>3. CASE ~In(i) /\ ~In(k)
    BY <1>7, <2>1, <2>3 DEF Good, Single
  <2> QED BY <1>13, <2>1, <2>2, <2>3
<1>15. ASSUME NEW r \in Slots, NEW p, NEW t
       PROVE  Has(d, r, p, t) <=> Has(c, r, p, t) \/ Adds(u, r, p, t)
  <2>1. ASSUME Has(d, r, p, t) PROVE Has(c, r, p, t) \/ Adds(u, r, p, t)
    <3>1. PICK i \in KV!Cells : Seq1(r) \in d.seqs[i] /\ d.pos[i] = p /\ d.row[i].tok = t
      BY <2>1 DEF Has
    <3>2. CASE In(i)
      <4>1. d.seqs[i] = {Seq1(r)}
        BY <1>9, <3>1, <3>2
      <4>2. /\ i - h + 1 \in 1 .. Len(u)
            /\ u[i - h + 1].seqs = {Seq1(r)} /\ u[i - h + 1].pos = p /\ u[i - h + 1].tok = t
        BY <1>6, <1>9, <3>1, <3>2, <4>1
      <4> QED BY <4>2 DEF Adds
    <3>3. CASE ~In(i)
      BY <1>7, <3>1, <3>3 DEF Has
    <3> QED BY <3>2, <3>3
  <2>2. ASSUME Has(c, r, p, t) PROVE Has(d, r, p, t)
    <3>1. PICK i \in KV!Cells : Seq1(r) \in c.seqs[i] /\ c.pos[i] = p /\ c.row[i].tok = t
      BY <2>2 DEF Has
    <3>2. ~In(i)
      BY <1>3, <3>1
    <3> QED BY <1>7, <3>1, <3>2 DEF Has
  <2>3. ASSUME Adds(u, r, p, t) PROVE Has(d, r, p, t)
    <3>1. PICK j \in 1 .. Len(u) : u[j].seqs = {Seq1(r)} /\ u[j].pos = p /\ u[j].tok = t
      BY <2>3 DEF Adds
    <3>2. PICK i \in KV!Cells : In(i) /\ j = i - h + 1
      BY <1>8
    <3>3. d.seqs[i] = {Seq1(r)} /\ d.pos[i] = p /\ d.row[i].tok = t
      BY <1>6, <1>9, <3>1, <3>2
    <3> QED BY <3>3 DEF Has
  <2> QED BY <2>1, <2>2, <2>3
<1> QED BY <1>10, <1>11, <1>12, <1>14, <1>15 DEF Good, WithAdded

\* When each slot has fewer positions than its share there is a free cell.
LEMMA RoomForOne ==
    ASSUME NEW c, Good(c),
           \A s \in Slots : \A p, t : Has(c, s, p, t) => p \in 0 .. NCtx - 2
    PROVE  KV!CanPlace(c, 1)
<1> DEFINE Owner(i) == CHOOSE s \in Slots : c.seqs[i] = {Seq1(s)}
           Places == Slots \X (0 .. NCtx - 2)
           f == [i \in KV!Cells |-> <<Owner(i), c.pos[i]>>]
<1>1. SUFFICES ASSUME KV!Windows(KV!Taken(c), 1) = {} PROVE FALSE
  BY SizeType DEF KV!CanPlace
<1>2. ASSUME NEW i \in KV!Cells PROVE c.seqs[i] # {}
  <2>1. i \in Int /\ i + 1 <= Size
    BY SizeType DEF KV!Cells
  <2>2. ~KV!Fits(KV!Taken(c), i, 1)
    BY <1>1 DEF KV!Windows
  <2>3. i \in KV!Taken(c)
    BY <2>1, <2>2 DEF KV!Fits
  <2> QED BY <2>3 DEF KV!Taken, Good, Owned
<1>3. ASSUME NEW i \in KV!Cells
      PROVE  Owner(i) \in Slots /\ c.seqs[i] = {Seq1(Owner(i))} /\ c.pos[i] \in 0 .. NCtx - 2
  <2>1. Owner(i) \in Slots /\ c.seqs[i] = {Seq1(Owner(i))}
    BY <1>2 DEF Good, Owned
  <2>2. Has(c, Owner(i), c.pos[i], c.row[i].tok)
    BY <2>1 DEF Has
  <2> QED BY <2>1, <2>2
<1>4. f \in [KV!Cells -> Places]
  BY <1>3
<1>5. IsFiniteSet(KV!Cells) /\ Cardinality(KV!Cells) = NSlots * NCtx
  <2>1. 0 \in Int /\ Size - 1 \in Int /\ ~(0 > Size - 1) /\ (Size - 1) - 0 + 1 = Size
    BY SizeType
  <2>2. IsFiniteSet(0 .. Size - 1) /\ Cardinality(0 .. Size - 1) = Size
    BY <2>1, FS_Interval
  <2> QED BY <2>2, SizeType DEF KV!Cells
<1>6. IsFiniteSet(Places) /\ Cardinality(Places) = NSlots * (NCtx - 1)
  <2>1. IsFiniteSet(Slots) /\ Cardinality(Slots) = NSlots
    BY FS_Interval, SlotAssumption DEF Slots
  <2>2. IsFiniteSet(0 .. NCtx - 2) /\ Cardinality(0 .. NCtx - 2) = NCtx - 1
    BY FS_Interval, SlotAssumption
  <2> QED BY <2>1, <2>2, FS_Product
<1>7. NSlots * (NCtx - 1) < NSlots * NCtx
  <2>1. \A a \in Nat \ {0}, b \in Nat : a * (b - 1) = a * b - a
    OBVIOUS
  <2>2. NSlots * NCtx \in Nat
    BY SizeType
  <2> QED BY <2>1, <2>2, SlotAssumption
<1>8. PICK i, k \in KV!Cells : i # k /\ f[i] = f[k]
  <2> HIDE DEF f, Places
  <2> QED BY <1>4, <1>5, <1>6, <1>7, FS_PigeonHole
<1>9. Owner(i) = Owner(k) /\ c.pos[i] = c.pos[k]
  <2> HIDE DEF Owner
  <2>1. f[i] = <<Owner(i), c.pos[i]>> /\ f[k] = <<Owner(k), c.pos[k]>>
    BY <1>8
  <2> HIDE DEF f
  <2>2. <<Owner(i), c.pos[i]>> = <<Owner(k), c.pos[k]>>
    BY <1>8, <2>1
  <2>3. \A a, b, x, y : <<a, b>> = <<x, y>> => a = x /\ b = y
    OBVIOUS
  <2> QED BY ONLY <2>2, <2>3
<1> QED BY <1>2, <1>3, <1>8, <1>9 DEF Good, Single

-----------------------------------------------------------------------------
(* The inductive invariant of the slots, of plain values first: a slot sl, *)
(* its number s, a cache c, and a batch q of which f tokens are decoded.   *)

SlotType ==
    [state : {"idle", "processing"}, command : {"none", "load", "release"},
     ask : Request \cup {NoPrompt}, tokens : Seq(Toks), past : Nat, keep : Int,
     cached : Seq(Toks \cup {NoTok}), sampled : Toks \cup {NoTok}, last : Nat, decoded : Nat,
     seen : Seq(Toks \cup {NoTok})]

Loading(sl) == sl.command = "load" /\ sl.tokens # <<>>
Working(sl) == sl.state = "processing"

\* the slot has a text, part of which may still be in the batch
Active(sl) == Working(sl) \/ Loading(sl)

\* cache_tokens are the text, or nothing
CachesText(sl) ==
    IF sl.ask.reuse THEN sl.cached = sl.seen
    ELSE \A j \in 1 .. Len(sl.cached) : sl.cached[j] = NoTok

\* The text of a slot and its prompt fit its share.
SlotFits(sl) ==
    /\ sl.keep \in 0 .. NCtx - 4
    /\ Len(sl.seen) = sl.past /\ sl.past <= NCtx - 1
    /\ CachesText(sl)

SlotOK(sl) ==
    /\ sl \in SlotType
    /\ sl.state = "idle" => sl.command # "release"
    /\ sl.state = "processing" => sl.command # "load"
    /\ sl.command = "load" \/ Working(sl) => sl.ask \in Request
    /\ sl.command = "load" /\ sl.tokens = <<>> => sl.past = 0
    /\ Len(sl.tokens) < NCtx
    /\ Loading(sl) => sl.past < Len(sl.tokens) /\ sl.seen = SubSeq(sl.tokens, 1, sl.past)
    /\ Active(sl) => SlotFits(sl)

\* the tokens of slot s that are still to be decoded
Dues(q, f, s) == {b \in f + 1 .. Len(q) : q[b].seqs = {Seq1(s)}}

Awaits(q, f, s, p) == \E b \in Dues(q, f, s) : q[b].pos = p

\* They are from the text of their slot, no two for one place.
DuesOK(q, f, s, sl) ==
    /\ \A b \in Dues(q, f, s) :
          /\ Active(sl)
          /\ q[b].pos < sl.past /\ q[b].tok = sl.seen[q[b].pos + 1]
          /\ Working(sl) => b <= sl.last
    /\ \A b, d \in Dues(q, f, s) : q[b].pos = q[d].pos => b = d

InText(sl, p, t) == p \in 0 .. sl.past - 1 /\ t = sl.seen[p + 1]

\* The cache holds the text of a slot, but for what is to be decoded, ...
HoldsText(c, q, f, s, sl) ==
    \A p \in Nat : \A t : Has(c, s, p, t) <=> InText(sl, p, t) /\ ~Awaits(q, f, s, p)

\* ... and what cache_tokens names for a slot that has nothing to do.
HoldsCached(c, s, sl) ==
    /\ \A p, t : Has(c, s, p, t) => p \in 0 .. NCtx - 2
    /\ \A j \in 1 .. Len(sl.cached) :
          sl.cached[j] # NoTok => Has(c, s, j - 1, sl.cached[j])

Holding(c, q, f, s, sl) ==
    IF Active(sl) THEN HoldsText(c, q, f, s, sl) ELSE HoldsCached(c, s, sl)

\* What a slot is about, with its part of the cache and of the batch.
SlotIn(c, q, f, s, sl) == SlotOK(sl) /\ DuesOK(q, f, s, sl) /\ Holding(c, q, f, s, sl)

\* the end of the view
End == KV!Lesser(at + nbatch, Len(batch))

\* the tokens of the batch that have been decoded
Front ==
    CASE pc \in {"going", "loading"} -> 0
      [] pc = "decode"               -> at
      [] pc = "view"                 -> End - Len(call)
      [] pc = "sample"               -> End
      [] pc = "tasks"                -> Len(batch)

TypeInv ==
    /\ use \in [requests : Seq(Request), erase : BOOLEAN, early : {FALSE}]
    /\ \A j \in 1 .. Len(use.requests) : use.requests[j].system = NoPrompt
    /\ slots = [s \in Slots |-> slots[s]]
    /\ system = [prompt |-> <<>>, tokens |-> <<>>, update |-> FALSE]
    /\ clean \in BOOLEAN
    /\ pc \in {"tasks", "going", "loading", "decode", "view", "sample"}
    /\ turn \in Slots /\ batch \in Seq(BatchToken)
    /\ at \in Nat /\ nbatch \in 1 .. NBatch

\* where the loop is in the batch
ViewInv ==
    /\ pc \in {"decode", "view", "sample"} => at < Len(batch)
    /\ pc = "view" => /\ call \in Seq(BatchToken) /\ call # <<>> /\ Len(call) <= End - at
                      /\ call = SubSeq(batch, (End - Len(call)) + 1, End)
                      /\ NBatch <= NUbatch => Len(call) = End - at

\* Before the loop has been idle nothing has been asked.
CleanInv ==
    clean => /\ pc = "tasks"
             /\ \A s \in Slots : Available(slots[s]) /\ slots[s].cached = <<>>

\* While the batch is built it has no tokens of the slots that are still to come.
TurnInv(s) ==
    /\ pc = "going" /\ Dues(batch, 0, s) # {} => s < turn /\ Working(slots[s])
    /\ pc = "loading" /\ Dues(batch, 0, s) # {} => s < turn \/ Working(slots[s])

SlotsInv ==
    /\ TypeInv /\ ViewInv /\ CleanInv /\ Good(cache)
    /\ \A s \in Slots : SlotIn(cache, batch, Front, s, slots[s]) /\ TurnInv(s)

LEMMA Numbers ==
    /\ NSlots \in Nat \ {0} /\ NCtx \in Nat /\ NCtx >= 5
    /\ NBatch \in Nat \ {0} /\ NUbatch \in Nat \ {0} /\ AddBos \in {0, 1}
BY SlotAssumption

-----------------------------------------------------------------------------
(* A slot whose part of the cache and of the batch does not change.        *)

LEMMA Apart ==
    ASSUME NEW c, NEW d, NEW q, NEW f, NEW w, NEW g, NEW s, NEW sl,
           SlotIn(c, q, f, s, sl),
           \A p, t : Has(d, s, p, t) <=> Has(c, s, p, t),
           Dues(w, g, s) = Dues(q, f, s), \A b \in Dues(q, f, s) : w[b] = q[b]
    PROVE  SlotIn(d, w, g, s, sl)
<1>1. DuesOK(w, g, s, sl)
  BY DEF SlotIn, DuesOK
<1>2. \A p : Awaits(w, g, s, p) <=> Awaits(q, f, s, p)
  BY DEF Awaits
<1>3. Holding(d, w, g, s, sl)
  BY <1>2 DEF SlotIn, Holding, HoldsText, HoldsCached
<1> QED BY <1>1, <1>3 DEF SlotIn

SameDues(v, q, f, s) ==
    Dues(v, f, s) = Dues(q, f, s) /\ \A b \in Dues(q, f, s) : v[b] = q[b]

Foreign(w, s) == \A j \in 1 .. Len(w) : w[j].seqs # {Seq1(s)}

\* What another slot adds to the batch is not its own.
LEMMA OthersDues ==
    ASSUME NEW q \in Seq(BatchToken), NEW w \in Seq(BatchToken),
           NEW v, v = q \o w, NEW f \in Nat, NEW s, Foreign(w, s)
    PROVE  SameDues(v, q, f, s)
<1>1. /\ Len(v) = Len(q) + Len(w) /\ Len(q) \in Nat /\ Len(w) \in Nat
      /\ \A b \in 1 .. Len(q) : v[b] = q[b]
      /\ \A b \in Len(q) + 1 .. Len(q) + Len(w) : v[b] = w[b - Len(q)]
  OBVIOUS
<1>2. \A b \in Dues(q, f, s) : b \in 1 .. Len(q)
  BY <1>1 DEF Dues
<1>3. \A b \in Len(q) + 1 .. Len(q) + Len(w) : b - Len(q) \in 1 .. Len(w)
  BY <1>1
<1>4. ASSUME NEW b \in Dues(v, f, s) PROVE b \in Dues(q, f, s)
  <2>1. b \in f + 1 .. Len(q) + Len(w) /\ v[b].seqs = {Seq1(s)}
    BY <1>1 DEF Dues
  <2>2. ~(b \in Len(q) + 1 .. Len(q) + Len(w))
    BY <2>1, <1>1, <1>3 DEF Foreign
  <2>3. b \in 1 .. Len(q) /\ b \in f + 1 .. Len(q)
    BY <2>1, <2>2, <1>1
  <2> QED BY <2>1, <2>3, <1>1 DEF Dues
<1>5. ASSUME NEW b \in Dues(q, f, s) PROVE b \in Dues(v, f, s)
  <2>1. b \in f + 1 .. Len(q) /\ q[b].seqs = {Seq1(s)}
    BY DEF Dues
  <2> QED BY <2>1, <1>1, <1>2 DEF Dues
<1> QED BY <1>1, <1>2, <1>4, <1>5 DEF SameDues

\* A decoded batch has nothing left to decode.
LEMMA NoDues == ASSUME NEW q \in Seq(BatchToken), NEW s PROVE Dues(q, Len(q), s) = {}
<1>1. Len(q) + 1 .. Len(q) = {}
  OBVIOUS
<1> QED BY <1>1 DEF Dues

\* A text that is decoded is in the cache, and nothing else of the slot.
LEMMA TextIsIn ==
    ASSUME NEW c, NEW q, NEW f, NEW s, NEW sl,
           SlotIn(c, q, f, s, sl), Active(sl), Dues(q, f, s) = {}
    PROVE  \A p \in Nat : \A t : Has(c, s, p, t) <=> InText(sl, p, t)
BY DEF SlotIn, Holding, HoldsText, Awaits

\* The places of a slot are within its share, and its cached tokens stored.
LEMMA WithinShare ==
    ASSUME NEW c, Good(c), NEW q, NEW f, NEW s \in Slots, NEW sl, SlotIn(c, q, f, s, sl)
    PROVE  \A p, t : Has(c, s, p, t) => p \in 0 .. NCtx - 2
<1>1. CASE ~Active(sl)
  BY <1>1 DEF SlotIn, Holding, HoldsCached
<1>2. CASE Active(sl)
  <2>1. sl.past \in Nat /\ sl.past <= NCtx - 1
    BY <1>2 DEF SlotIn, SlotOK, SlotType, SlotFits
  <2>2. ASSUME NEW p, NEW t, Has(c, s, p, t) PROVE p \in 0 .. NCtx - 2
    <3>1. p \in Nat
      BY <2>2, OneToken
    <3>2. p \in 0 .. sl.past - 1
      BY <3>1, <2>2, <1>2 DEF SlotIn, Holding, HoldsText, InText
    <3> QED BY <3>2, <2>1, SlotAssumption
  <2> QED BY <2>2
<1> QED BY <1>1, <1>2

LEMMA CachedIn ==
    ASSUME NEW c, NEW q, NEW f, NEW s, NEW sl, SlotIn(c, q, f, s, sl), Dues(q, f, s) = {},
           NEW j \in 1 .. Len(sl.cached), sl.cached[j] # NoTok
    PROVE  Has(c, s, j - 1, sl.cached[j])
<1>1. CASE ~Active(sl)
  BY <1>1 DEF SlotIn, Holding, HoldsCached
<1>2. CASE Active(sl)
  <2>1. sl.cached = sl.seen /\ Len(sl.seen) = sl.past
    BY <1>2 DEF SlotIn, SlotOK, SlotFits, CachesText
  <2>2. j - 1 \in Nat /\ j - 1 \in 0 .. sl.past - 1 /\ (j - 1) + 1 = j
    <3>1. Len(sl.cached) \in Nat
      BY DEF SlotIn, SlotOK, SlotType
    <3> QED BY <3>1, <2>1
  <2>3. InText(sl, j - 1, sl.cached[j])
    BY <2>1, <2>2 DEF InText
  <2> QED BY <1>2, <2>2, <2>3, TextIsIn
<1> QED BY <1>1, <1>2

-----------------------------------------------------------------------------
(* The tasks.                                                              *)

LEMMA LaunchSlot ==
    ASSUME NEW c, NEW q, NEW f, NEW s, NEW sl, SlotIn(c, q, f, s, sl), Available(sl),
           NEW r \in Request
    PROVE  SlotIn(c, q, f, s, Launched(sl, r))
<1> DEFINE new == Launched(sl, r)
<1>1. sl \in SlotType /\ sl.state = "idle" /\ sl.command = "none" /\ ~Active(sl)
  BY DEF SlotIn, SlotOK, Available, Active, Working, Loading
<1>2. /\ new \in SlotType /\ new.state = "idle" /\ new.command = "load" /\ new.ask = r
      /\ new.tokens = <<>> /\ new.past = 0 /\ new.cached = sl.cached
  <2>1. PICK e : e = <<>> /\ e \in Seq(Toks)
    BY EmptySeq
  <2>2. new = [sl EXCEPT !.command = "load", !.ask = r, !.tokens = e, !.past = 0]
    BY <2>1 DEF Launched
  <2>3. /\ new \in SlotType /\ new.state = "idle" /\ new.command = "load" /\ new.ask = r
        /\ new.tokens = e /\ new.past = 0 /\ new.cached = sl.cached
    <3> HIDE DEF new
    <3> QED BY <1>1, <2>1, <2>2 DEF SlotType
  <2> QED BY <2>1, <2>3
<1> HIDE DEF new
<1>3. ~Active(new)
  BY <1>2 DEF Active, Working, Loading
<1>4. SlotOK(new)
  BY <1>2, <1>3, SlotAssumption DEF SlotOK, Working, Loading, Active
<1>5. DuesOK(q, f, s, new)
  BY <1>1 DEF SlotIn, DuesOK
<1>6. Holding(c, q, f, s, new)
  BY <1>1, <1>2, <1>3 DEF SlotIn, Holding, HoldsCached
<1> QED BY <1>4, <1>5, <1>6 DEF SlotIn, new

LEMMA CancelSlot ==
    ASSUME NEW c, NEW q, NEW f, NEW s, NEW sl, SlotIn(c, q, f, s, sl), sl.state = "processing"
    PROVE  SlotIn(c, q, f, s, Released(sl)) /\ Working(Released(sl))
<1> DEFINE new == Released(sl)
<1>1. sl \in SlotType /\ Active(sl) /\ Working(sl)
  BY DEF SlotIn, SlotOK, Active, Working
<1>2. /\ new \in SlotType /\ new.state = sl.state /\ new.command = "release"
      /\ new.ask = sl.ask /\ new.tokens = sl.tokens /\ new.past = sl.past
      /\ new.keep = sl.keep /\ new.cached = sl.cached /\ new.last = sl.last
      /\ new.seen = sl.seen
  BY <1>1 DEF Released, SlotType
<1> HIDE DEF new
<1>3. Active(new) /\ Working(new) /\ ~Loading(new)
  BY <1>2 DEF Active, Working, Loading
<1>4. SlotOK(new)
  BY <1>1, <1>2, <1>3 DEF SlotIn, SlotOK, SlotFits, CachesText
<1>5. DuesOK(q, f, s, new)
  BY <1>1, <1>2, <1>3 DEF SlotIn, DuesOK
<1>6. Holding(c, q, f, s, new)
  BY <1>1, <1>2, <1>3 DEF SlotIn, Holding, HoldsText, InText
<1> QED BY <1>3, <1>4, <1>5, <1>6 DEF SlotIn, new

LEMMA EraseSlot ==
    ASSUME NEW c, NEW d, NEW q, NEW f, NEW s, NEW sl, SlotIn(c, q, f, s, sl), Available(sl),
           \A p, t : ~Has(d, s, p, t)
    PROVE  SlotIn(d, q, f, s, [sl EXCEPT !.cached = <<>>])
<1> DEFINE new == [sl EXCEPT !.cached = <<>>]
<1>1. sl \in SlotType /\ sl.state = "idle" /\ sl.command = "none" /\ ~Active(sl)
  BY DEF SlotIn, SlotOK, Available, Active, Working, Loading
<1>2. /\ new \in SlotType /\ new.state = "idle" /\ new.command = "none"
      /\ new.tokens = sl.tokens /\ new.cached = <<>>
  <2>1. PICK e : e = <<>> /\ e \in Seq(Toks \cup {NoTok})
    BY EmptySeq
  <2>2. new = [sl EXCEPT !.cached = e]
    BY <2>1
  <2>3. /\ new \in SlotType /\ new.state = "idle" /\ new.command = "none"
        /\ new.tokens = sl.tokens /\ new.cached = e
    <3> HIDE DEF new
    <3> QED BY <1>1, <2>1, <2>2 DEF SlotType
  <2> QED BY <2>1, <2>3
<1> HIDE DEF new
<1>3. ~Active(new)
  BY <1>2 DEF Active, Working, Loading
<1>4. SlotOK(new)
  BY <1>2, <1>3 DEF SlotIn, SlotOK, Working, Loading, Active
<1>5. DuesOK(q, f, s, new)
  BY <1>1 DEF SlotIn, DuesOK
<1>6. Holding(d, q, f, s, new)
  BY <1>2, <1>3 DEF Holding, HoldsCached
<1> QED BY <1>4, <1>5, <1>6 DEF SlotIn, new

\* Released and idle: what was its text is what its cached tokens name.
LEMMA FreeSlot ==
    ASSUME NEW c, Good(c), NEW q, NEW f, NEW s \in Slots, NEW sl,
           SlotIn(c, q, f, s, sl), Dues(q, f, s) = {}, sl.command = "release"
    PROVE  SlotIn(c, q, f, s, [sl EXCEPT !.state = "idle", !.command = "none"])
<1> DEFINE new == [sl EXCEPT !.state = "idle", !.command = "none"]
<1>1. sl \in SlotType
  BY DEF SlotIn, SlotOK
<1>2. /\ new \in SlotType /\ new.state = "idle" /\ new.command = "none"
      /\ new.tokens = sl.tokens /\ new.cached = sl.cached
  BY <1>1 DEF SlotType
<1> HIDE DEF new
<1>3. ~Active(new)
  BY <1>2 DEF Active, Working, Loading
<1>4. SlotOK(new)
  BY <1>2, <1>3 DEF SlotIn, SlotOK, Working, Loading, Active
<1>5. DuesOK(q, f, s, new)
  BY DEF DuesOK
<1>6. Holding(c, q, f, s, new)
  <2>1. \A p, t : Has(c, s, p, t) => p \in 0 .. NCtx - 2
    BY WithinShare
  <2>2. \A j \in 1 .. Len(sl.cached) :
           sl.cached[j] # NoTok => Has(c, s, j - 1, sl.cached[j])
    BY CachedIn
  <2> QED BY <1>2, <1>3, <2>1, <2>2 DEF Holding, HoldsCached
<1> QED BY <1>4, <1>5, <1>6 DEF SlotIn, new

-----------------------------------------------------------------------------
(* The context shift, and the token that was sampled last.                 *)

LEMMA CutIs ==
    ASSUME NEW T, NEW q \in Seq(T), NEW k \in Nat, NEW n \in Nat, n <= Len(q)
    PROVE  /\ Cut(q, k, n) \in Seq(T) /\ Len(Cut(q, k, n)) = Len(q) - n
           /\ \A j \in 1 .. Len(q) - n :
                 Cut(q, k, n)[j] = IF j > k THEN q[j + n] ELSE q[j]
<1>1. Len(q) - n \in Nat
  OBVIOUS
<1>2. \A j \in 1 .. Len(q) - n : j \in 1 .. Len(q) /\ j + n \in 1 .. Len(q)
  OBVIOUS
<1>3. \A j \in 1 .. Len(q) - n : (IF j > k THEN q[j + n] ELSE q[j]) \in T
  BY <1>2, ElementOfSeq
<1> QED BY <1>1, <1>3 DEF Cut

Half(sl, k) == (sl.past - k) \div 2

WithoutCut(sl, k, n) ==
    [sl EXCEPT !.past = sl.past - n,
               !.cached = IF sl.ask.reuse THEN Cut(sl.cached, k, n) ELSE sl.cached,
               !.seen = Cut(sl.seen, k, n)]

CacheWithoutCut(c, s, sl, k, n) ==
    KV!SeqAdd(KV!SeqRm(c, Seq1(s), k, k + n), Seq1(s), k + n, sl.past, -n)

\* Half of what the slot does not keep is discarded: its text moves up, in
\* the cache as in the slot.
LEMMA ShiftSlot ==
    ASSUME NEW c, Good(c), NEW q, NEW f, NEW s \in Slots, NEW sl,
           SlotIn(c, q, f, s, sl), Dues(q, f, s) = {}, Working(sl), sl.past >= NCtx - 1,
           NEW k, k = sl.keep + AddBos, NEW n, n = Half(sl, k),
           NEW new, new = WithoutCut(sl, k, n), NEW d, d = CacheWithoutCut(c, s, sl, k, n)
    PROVE  /\ Good(d) /\ SlotIn(d, q, f, s, new)
           /\ new.state = sl.state /\ new.ask = sl.ask /\ new.sampled = sl.sampled
           /\ new.past <= NCtx - 2
           /\ \A r \in Slots \ {s} : \A p, t : Has(d, r, p, t) <=> Has(c, r, p, t)
<1>1. /\ sl \in SlotType /\ Active(sl) /\ SlotFits(sl) /\ ~Loading(sl)
      /\ sl.ask \in Request /\ sl.command # "load"
  BY DEF SlotIn, SlotOK, Active, Working, Loading
<1>2. /\ sl.past \in Nat /\ sl.past = NCtx - 1 /\ Len(sl.seen) = sl.past
      /\ sl.seen \in Seq(Toks \cup {NoTok}) /\ sl.cached \in Seq(Toks \cup {NoTok})
      /\ sl.keep \in 0 .. NCtx - 4 /\ CachesText(sl)
  BY <1>1, SlotAssumption, SMTT(30) DEF SlotType, SlotFits
<1>3. k \in Nat /\ n \in Nat \ {0} /\ k + n <= sl.past
  <2>1. k \in 0 .. NCtx - 3
    BY <1>2, SlotAssumption
  <2>2. sl.past - k \in Nat /\ sl.past - k >= 2
    BY ONLY <2>1, <1>2, Numbers
  <2>3. n >= 1 /\ n <= sl.past - k /\ n \in Nat
    BY ONLY <2>2, n = Half(sl, k) DEF Half
  <2> QED BY ONLY <2>1, <2>3, <1>2
<1>4. /\ Cut(sl.seen, k, n) \in Seq(Toks \cup {NoTok})
      /\ Len(Cut(sl.seen, k, n)) = sl.past - n
      /\ \A j \in 1 .. sl.past - n :
            Cut(sl.seen, k, n)[j] = IF j > k THEN sl.seen[j + n] ELSE sl.seen[j]
  <2>1. PICK x \in Seq(Toks \cup {NoTok}) : x = sl.seen /\ Len(x) = sl.past
    BY <1>2
  <2>2. k \in Nat /\ n \in Nat /\ n <= Len(x)
    BY ONLY <1>2, <1>3, <2>1
  <2>3. /\ Cut(x, k, n) \in Seq(Toks \cup {NoTok}) /\ Len(Cut(x, k, n)) = Len(x) - n
        /\ \A j \in 1 .. Len(x) - n : Cut(x, k, n)[j] = IF j > k THEN x[j + n] ELSE x[j]
    BY ONLY <2>2, CutIs
  <2> QED BY ONLY <2>1, <2>3
<1>5. sl.ask.reuse => Cut(sl.cached, k, n) = Cut(sl.seen, k, n)
  BY <1>2 DEF CachesText
<1>6. /\ new \in SlotType /\ new.past = sl.past - n /\ new.seen = Cut(sl.seen, k, n)
      /\ new.cached = (IF sl.ask.reuse THEN Cut(sl.seen, k, n) ELSE sl.cached)
      /\ new.state = sl.state /\ new.command = sl.command /\ new.ask = sl.ask
      /\ new.tokens = sl.tokens /\ new.keep = sl.keep /\ new.sampled = sl.sampled
  <2>1. PICK x \in Seq(Toks \cup {NoTok}) : x = Cut(sl.seen, k, n)
    BY <1>4
  <2>2. PICK y \in Seq(Toks \cup {NoTok}) : y = IF sl.ask.reuse THEN x ELSE sl.cached
    BY <1>2
  <2>3. new = [sl EXCEPT !.past = sl.past - n, !.cached = y, !.seen = x]
    BY <1>5, <2>1, <2>2 DEF WithoutCut
  <2>4. sl.past - n \in Nat
    BY <1>2, <1>3
  <2>5. /\ new \in SlotType /\ new.past = sl.past - n /\ new.seen = x
        /\ new.cached = y
        /\ new.state = sl.state /\ new.command = sl.command /\ new.ask = sl.ask
        /\ new.tokens = sl.tokens /\ new.keep = sl.keep /\ new.sampled = sl.sampled
    BY ONLY <1>1, <2>3, <2>4 DEF SlotType
  <2> QED BY <2>1, <2>2, <2>5
<1>7. Active(new) /\ Working(new) /\ ~Loading(new)
  BY <1>1, <1>6 DEF Active, Working, Loading
<1>8. new.past \in Nat /\ new.past <= NCtx - 2
  BY ONLY <1>2, <1>3, <1>6, Numbers
<1>9. SlotOK(new)
  <2>1. CachesText(new)
    BY <1>2, <1>6 DEF CachesText
  <2>2. SlotFits(new)
    <3>1. Len(new.seen) = new.past /\ new.keep = sl.keep
      BY ONLY <1>4, <1>6
    <3>2. new.past <= NCtx - 1
      BY ONLY <1>8, Numbers
    <3> QED BY ONLY <2>1, <3>1, <3>2, <1>2 DEF SlotFits
  <2> QED BY <2>2, <1>1, <1>6, <1>7 DEF SlotIn, SlotOK, Working
<1>10. DuesOK(q, f, s, new)
  BY DEF DuesOK
<1> DEFINE e == KV!SeqRm(c, Seq1(s), k, k + n)
<1>11. /\ Good(e)
       /\ \A r \in Slots : \A p, t :
             Has(e, r, p, t) <=> Has(c, r, p, t) /\ ~(r = s /\ KV!Within(p, k, k + n))
  <2>1. k \in Int /\ k + n \in Int
    BY <1>3
  <2> QED BY <2>1, RmHas
<1>12. d = KV!SeqAdd(e, Seq1(s), k + n, sl.past, -n)
  BY DEF CacheWithoutCut
<1> HIDE DEF e
<1>13. \A p \in Nat : \A t : Has(c, s, p, t) <=> InText(sl, p, t)
  BY <1>1, TextIsIn
<1>14. \A p, t : Has(e, s, p, t) => p < k \/ (p >= k + n /\ p < sl.past)
  <2>1. SUFFICES ASSUME NEW p, NEW t, Has(e, s, p, t)
                 PROVE  p < k \/ (p >= k + n /\ p < sl.past)
    OBVIOUS
  <2>2. p \in Nat /\ Has(c, s, p, t) /\ ~KV!Within(p, k, k + n)
    BY <2>1, <1>11, OneToken
  <2>3. p \in 0 .. sl.past - 1
    BY <2>2, <1>13 DEF InText
  <2> QED BY ONLY <2>2, <2>3, <1>2, <1>3 DEF KV!Within
<1>15. /\ Good(d)
       /\ \A r \in Slots : \A p \in Nat : \A t :
             Has(d, r, p, t) <=>
                IF r = s /\ p >= k THEN Has(e, r, p + n, t) ELSE Has(e, r, p, t)
  <2>1. PICK y \in Nat : y = sl.past
    BY <1>2
  <2>2. d = MovedUp(e, s, k, n, y)
    BY <1>12, <2>1 DEF MovedUp
  <2>3. \A p, t : Has(e, s, p, t) => p < k \/ (p >= k + n /\ p < y)
    BY <1>14, <2>1
  <2> QED BY ONLY s \in Slots, <1>3, <1>11, <2>1, <2>2, <2>3, AddHas
<1>16. ASSUME NEW r \in Slots \ {s}, NEW p, NEW t
       PROVE  Has(d, r, p, t) <=> Has(c, r, p, t)
  <2>1. Has(d, r, p, t) \/ Has(c, r, p, t) => p \in Nat
    BY <1>15, OneToken
  <2>2. p \in Nat => (Has(d, r, p, t) <=> Has(e, r, p, t))
    BY <1>15
  <2>3. Has(e, r, p, t) <=> Has(c, r, p, t)
    BY <1>11
  <2> QED BY <2>1, <2>2, <2>3
<1>17. ASSUME NEW p \in Nat, NEW t PROVE Has(d, s, p, t) <=> InText(new, p, t)
  <2>1. CASE p >= k
    <3>1. Has(d, s, p, t) <=> Has(c, s, p + n, t) /\ ~KV!Within(p + n, k, k + n)
      BY <2>1, <1>11, <1>15
    <3>2. ~KV!Within(p + n, k, k + n) /\ p + n \in Nat
      BY <2>1, <1>3 DEF KV!Within
    <3>3. Has(c, s, p + n, t) <=> p + n \in 0 .. sl.past - 1 /\ t = sl.seen[p + n + 1]
      BY <3>2, <1>13 DEF InText
    <3>4. p + n \in 0 .. sl.past - 1 <=> p \in 0 .. new.past - 1
      BY ONLY p \in Nat, <1>2, <1>3, <1>6
    <3>5. p \in 0 .. new.past - 1 => new.seen[p + 1] = sl.seen[p + n + 1]
      <4>1. p \in 0 .. new.past - 1 => p + 1 \in 1 .. sl.past - n /\ p + 1 > k
        BY ONLY p \in Nat, <2>1, <1>2, <1>3, <1>6
      <4>2. p + 1 + n = p + n + 1
        BY <1>3
      <4> QED BY <4>1, <4>2, <1>4, <1>6
    <3> QED BY <3>1, <3>2, <3>3, <3>4, <3>5 DEF InText
  <2>2. CASE ~(p >= k)
    <3>1. Has(d, s, p, t) <=> Has(c, s, p, t) /\ ~KV!Within(p, k, k + n)
      BY <2>2, <1>11, <1>15
    <3>2. ~KV!Within(p, k, k + n)
      BY <2>2 DEF KV!Within
    <3>3. Has(c, s, p, t) <=> InText(sl, p, t)
      BY <1>13
    <3>4. p \in 0 .. sl.past - 1 /\ p \in 0 .. new.past - 1
      BY <2>2, <1>2, <1>3, <1>6, SMTT(60)
    <3>5. new.seen[p + 1] = sl.seen[p + 1]
      <4>1. p + 1 \in 1 .. sl.past - n /\ ~(p + 1 > k)
        BY ONLY p \in Nat, <3>4, <2>2, <1>2, <1>3, <1>6
      <4> QED BY <4>1, <1>4, <1>6
    <3> QED BY <3>1, <3>2, <3>3, <3>4, <3>5 DEF InText
  <2> QED BY <2>1, <2>2
<1>18. SlotIn(d, q, f, s, new)
  <2>1. Holding(d, q, f, s, new)
    BY <1>7, <1>17 DEF Holding, HoldsText, Awaits
  <2> QED BY <2>1, <1>9, <1>10 DEF SlotIn
<1> QED BY <1>6, <1>8, <1>15, <1>16, <1>18

\* The token sampled last goes to the batch, at the end of the text.
LEMMA AppendSlot ==
    ASSUME NEW c, NEW q \in Seq(BatchToken), NEW s \in Slots, NEW sl,
           SlotIn(c, q, 0, s, sl), Dues(q, 0, s) = {}, Working(sl), sl.past <= NCtx - 2,
           NEW new, new = [sl EXCEPT
                 !.past = sl.past + 1, !.last = Len(q) + 1,
                 !.cached = IF sl.ask.reuse THEN Append(sl.cached, sl.sampled) ELSE sl.cached,
                 !.seen = Append(sl.seen, sl.sampled)],
           NEW b, b = Token(s, sl.past, sl.sampled)
    PROVE  /\ b \in BatchToken /\ Working(new)
           /\ SlotIn(c, Append(q, b), 0, s, new)
<1>1. /\ sl \in SlotType /\ Active(sl) /\ SlotFits(sl) /\ ~Loading(sl)
      /\ sl.ask \in Request /\ sl.command # "load"
  BY DEF SlotIn, SlotOK, Active, Working, Loading
<1>2. /\ sl.past \in Nat /\ Len(sl.seen) = sl.past
      /\ sl.seen \in Seq(Toks \cup {NoTok}) /\ sl.cached \in Seq(Toks \cup {NoTok})
      /\ sl.keep \in 0 .. NCtx - 4 /\ CachesText(sl) /\ sl.sampled \in Toks \cup {NoTok}
  BY <1>1 DEF SlotType, SlotFits
<1>3. /\ b \in BatchToken /\ b.pos = sl.past /\ b.seqs = {Seq1(s)} /\ b.tok = sl.sampled
  BY <1>2 DEF Token, BatchToken
<1> DEFINE y == IF sl.ask.reuse THEN Append(sl.cached, sl.sampled) ELSE sl.cached
           x == Append(sl.seen, sl.sampled)
<1>4. /\ x \in Seq(Toks \cup {NoTok}) /\ y \in Seq(Toks \cup {NoTok})
      /\ Len(x) = sl.past + 1 /\ x[sl.past + 1] = sl.sampled
      /\ \A j \in 1 .. sl.past : x[j] = sl.seen[j]
      /\ sl.ask.reuse => y = x
      /\ ~sl.ask.reuse => y = sl.cached
  <2>1. sl.ask.reuse => sl.cached = sl.seen
    BY <1>2 DEF CachesText
  <2> QED BY <1>2, <2>1, SMTT(30)
<1>5. /\ new \in SlotType /\ new.past = sl.past + 1 /\ new.seen = x
      /\ new.cached = y /\ new.last = Len(q) + 1
      /\ new.state = sl.state /\ new.command = sl.command /\ new.ask = sl.ask
      /\ new.tokens = sl.tokens /\ new.keep = sl.keep
  <2>1. sl.past + 1 \in Nat /\ Len(q) + 1 \in Nat
    BY <1>2
  <2>2. new = [sl EXCEPT !.past = sl.past + 1, !.last = Len(q) + 1, !.cached = y, !.seen = x]
    OBVIOUS
  <2> HIDE DEF x, y
  <2> QED BY ONLY <1>1, <1>4, <2>1, <2>2 DEF SlotType
<1> HIDE DEF x, y
<1>6. Active(new) /\ Working(new) /\ ~Loading(new)
  BY <1>1, <1>5 DEF Active, Working, Loading
<1>7. SlotOK(new)
  <2>1. CachesText(new)
    BY <1>2, <1>4, <1>5 DEF CachesText
  <2>2. SlotFits(new)
    <3>1. Len(new.seen) = new.past /\ new.keep = sl.keep
      BY ONLY <1>4, <1>5
    <3>2. new.past <= NCtx - 1
      <4>1. sl.past <= NCtx - 2
        OBVIOUS
      <4> QED BY ONLY <4>1, <1>2, <1>5, Numbers
    <3> QED BY ONLY <2>1, <3>1, <3>2, <1>2 DEF SlotFits
  <2> QED BY <2>2, <1>1, <1>5, <1>6 DEF SlotIn, SlotOK, Working
<1>8. Dues(Append(q, b), 0, s) = {Len(q) + 1} /\ Append(q, b)[Len(q) + 1] = b
  <2>1. /\ Len(Append(q, b)) = Len(q) + 1 /\ Append(q, b)[Len(q) + 1] = b
        /\ Len(q) \in Nat /\ \A i \in 1 .. Len(q) : Append(q, b)[i] = q[i]
    OBVIOUS
  <2>2. \A i \in 1 .. Len(q) : q[i].seqs # {Seq1(s)}
    BY DEF Dues
  <2>3. \A i : i \in 0 + 1 .. Len(q) + 1 <=> i \in 1 .. Len(q) \/ i = Len(q) + 1
    BY <2>1
  <2>4. \A i \in Dues(Append(q, b), 0, s) : i = Len(q) + 1
    BY <2>1, <2>2, <2>3 DEF Dues
  <2>5. Len(q) + 1 \in Dues(Append(q, b), 0, s)
    BY <2>1, <2>3, <1>3 DEF Dues
  <2> QED BY <2>1, <2>4, <2>5
<1>9. DuesOK(Append(q, b), 0, s, new)
  <2>1. PICK n, e : n = Len(q) + 1 /\ e = Append(q, b)
    OBVIOUS
  <2>2. Dues(e, 0, s) = {n} /\ e[n] = b
    BY <1>8, <2>1
  <2>3. b.pos < new.past /\ b.tok = new.seen[b.pos + 1] /\ n <= new.last
    <3>1. n \in Int
      BY <2>1
    <3> QED BY ONLY <1>2, <1>3, <1>4, <1>5, <2>1, <3>1
  <2>4. \A d \in Dues(e, 0, s) : d = n /\ e[d] = b
    BY <2>2
  <2>5. DuesOK(e, 0, s, new)
    BY ONLY <1>6, <2>3, <2>4 DEF DuesOK
  <2> QED BY <2>1, <2>5
<1>10. ASSUME NEW p \in Nat, NEW t
       PROVE  Has(c, s, p, t) <=> InText(new, p, t) /\ ~Awaits(Append(q, b), 0, s, p)
  <2>1. Has(c, s, p, t) <=> InText(sl, p, t)
    BY <1>1, TextIsIn
  <2>2. Awaits(Append(q, b), 0, s, p) <=> p = sl.past
    BY <1>3, <1>8 DEF Awaits
  <2>3. p \in 0 .. sl.past - 1 <=> p \in 0 .. new.past - 1 /\ p # sl.past
    BY <1>2, <1>5, SMTT(30)
  <2>4. p \in 0 .. sl.past - 1 => new.seen[p + 1] = sl.seen[p + 1]
    BY <1>2, <1>4, <1>5, SMTT(60)
  <2> QED BY <2>1, <2>2, <2>3, <2>4 DEF InText
<1>11. Holding(c, Append(q, b), 0, s, new)
  BY <1>6, <1>10 DEF Holding, HoldsText
<1> QED BY <1>3, <1>6, <1>7, <1>9, <1>11 DEF SlotIn

-----------------------------------------------------------------------------
(* The prompts.                                                            *)

\* The greatest number of a bounded set.
LEMMA MaxIs ==
    ASSUME NEW N \in Nat, NEW S, S \subseteq 0 .. N, S # {}
    PROVE  Max(S) \in S /\ \A x \in S : x <= Max(S)
<1> DEFINE T == {N - x : x \in S}
<1>1. T \subseteq 0 .. N /\ T # {}
  <2>1. \A x \in S : x \in 0 .. N /\ N - x \in 0 .. N
    OBVIOUS
  <2> QED BY <2>1
<1>2. P!Least(T) \in T /\ \A y \in T : P!Least(T) <= y
  <2> HIDE DEF T
  <2>1. P!LayoutAssumption
    BY SizeType DEF P!LayoutAssumption
  <2> QED BY <1>1, <2>1, P!LeastIsLeast
<1>3. PICK m \in S : \A x \in S : N - m <= N - x
  BY <1>2
<1>4. \A x \in S : m >= x
  BY <1>3
<1>5. Max(S) \in S /\ \A x \in S : Max(S) >= x
  BY <1>4 DEF Max
<1> QED BY <1>5

LEMMA CommonPartIs ==
    ASSUME NEW T, NEW V, NEW p \in Seq(T), NEW q \in Seq(V), NEW n, n = CommonPart(p, q)
    PROVE  /\ n \in Nat /\ n <= Len(p) /\ n <= Len(q)
           /\ \A j \in 1 .. n : p[j] = q[j]
<1> DEFINE S == {m \in 0 .. Len(p) : m <= Len(q) /\ \A j \in 1 .. m : p[j] = q[j]}
<1>1. Len(p) \in Nat /\ Len(q) \in Nat
  OBVIOUS
<1>2. S \subseteq 0 .. Len(p) /\ 0 \in S
  BY <1>1
<1>3. n = Max(S)
  BY DEF CommonPart
<1>4. n \in S
  <2> HIDE DEF S
  <2> QED BY ONLY <1>1, <1>2, <1>3, MaxIs
<1> QED BY <1>1, <1>4

\* Whole blocks are erased, until less than a share is left.
LEMMA BlocksErased ==
    ASSUME NEW m \in Nat, NEW b \in Nat \ {0}
    PROVE  /\ m \div b \in Nat /\ (m \div b) * b \in Nat
           /\ (m \div b) * b <= m /\ m < (m \div b) * b + b
OBVIOUS

LEMMA TruncatedFits ==
    ASSUME NEW p \in Seq(Toks), p # <<>>, NEW k \in 0 .. NCtx - 4
    PROVE  /\ Truncated(p, k) \in Seq(Toks) /\ Truncated(p, k) # <<>>
           /\ Len(Truncated(p, k)) < NCtx
<1>1. Len(p) \in Nat \ {0}
  BY EmptySeq
<1>2. CASE Len(p) < NCtx
  BY <1>2 DEF Truncated
<1>3. CASE ~(Len(p) < NCtx)
  <2> DEFINE b == (NCtx - k) \div 2
             m == Len(p) - k - b
             e == (m \div b) * b
  <2>1. b \in Nat \ {0} /\ 2 * b <= NCtx - k /\ k \in Nat
    BY Numbers
  <2>2. m \in Nat /\ m >= b /\ Len(p) = k + b + m
    BY <1>1, <1>3, <2>1, Numbers
  <2>3. Truncated(p, k) = Cut(p, k, e)
    BY <1>3 DEF Truncated, Erased
  <2> HIDE DEF b, m
  <2>4. e \in Nat /\ e <= m /\ m < e + b
    BY <2>1, <2>2, BlocksErased
  <2> HIDE DEF e
  <2>5. e <= Len(p) /\ Len(p) - e < NCtx /\ Len(p) - e >= 1
    BY ONLY <2>1, <2>2, <2>4, Numbers
  <2>6. Cut(p, k, e) \in Seq(Toks) /\ Len(Cut(p, k, e)) = Len(p) - e
    BY <2>1, <2>4, <2>5, CutIs
  <2> QED BY <2>3, <2>5, <2>6, EmptySeq
<1> QED BY <1>2, <1>3

-----------------------------------------------------------------------------
(* The length of the prompts, whatever the server is used for.             *)

SlotFields == {"state", "command", "ask", "tokens", "past", "keep", "cached", "sampled",
               "last", "decoded", "seen"}

IsSlot(sl) == sl = [f \in SlotFields |-> sl[f]]

\* a slot that is to load a prompt has one, and it is tokenized at most once
PromptOK(sl) ==
    /\ IsSlot(sl)
    /\ sl.tokens \in Seq(Toks) /\ Len(sl.tokens) < NCtx
    /\ sl.command = "load" => sl.ask \in Request

PromptsInv ==
    /\ use \in [requests : Seq(Request), erase : BOOLEAN, early : BOOLEAN]
    /\ slots = [s \in Slots |-> slots[s]]
    /\ \A s \in Slots : PromptOK(slots[s])

\* Only a launch or the truncation of the prompt changes what PromptOK says.
LEMMA PromptKept ==
    ASSUME NEW sl, PromptOK(sl), NEW u, IsSlot(u), u.tokens = sl.tokens, u.ask = sl.ask,
           u.command = "load" => sl.command = "load"
    PROVE  PromptOK(u)
BY DEF PromptOK

LEMMA PromptLaunched ==
    ASSUME NEW sl, PromptOK(sl), NEW r \in Request PROVE PromptOK(Launched(sl, r))
<1>1. PICK u : u = Launched(sl, r)
  OBVIOUS
<1>2. IsSlot(u) /\ u.tokens = <<>> /\ u.ask = r
  BY <1>1 DEF PromptOK, IsSlot, SlotFields, Launched
<1>3. <<>> \in Seq(Toks) /\ Len(<<>>) < NCtx
  BY Numbers
<1> QED BY <1>1, <1>2, <1>3 DEF PromptOK

LEMMA PromptReleased ==
    ASSUME NEW sl, PromptOK(sl)
    PROVE  /\ PromptOK(Released(sl))
           /\ \A x : PromptOK([Released(sl) EXCEPT !.past = x])
<1>1. PICK u : u = Released(sl)
  OBVIOUS
<1>2. IsSlot(sl)
  BY DEF PromptOK
<1>3. /\ IsSlot(u) /\ u.tokens = sl.tokens /\ u.ask = sl.ask
      /\ u.command = "load" => sl.command = "load"
  BY <1>1, <1>2 DEF IsSlot, SlotFields, Released
<1>4. ASSUME NEW x PROVE PromptOK([u EXCEPT !.past = x])
  <2>1. PICK v : v = [u EXCEPT !.past = x]
    OBVIOUS
  <2>2. IsSlot(v) /\ v.tokens = u.tokens /\ v.ask = u.ask /\ v.command = u.command
    BY <1>3, <2>1 DEF IsSlot, SlotFields
  <2>3. PromptOK(v)
    BY <1>3, <2>2, PromptKept
  <2> QED BY <2>1, <2>3
<1>5. PromptOK(u)
  BY <1>3, PromptKept
<1> QED BY <1>1, <1>4, <1>5

LEMMA PromptTokenized ==
    ASSUME NEW sl, PromptOK(sl), sl.command = "load"
    PROVE  PromptOK(Tokenized(sl))
<1>1. CASE sl.tokens # <<>>
  BY <1>1 DEF Tokenized
<1>2. CASE sl.tokens = <<>>
  <2>1. PICK p, g, k, z, u :
           /\ p = sl.ask.prompt /\ g = sl.ask.keep
           /\ k = KV!Lesser(NCtx - 4, IF g < 0 THEN Len(p) ELSE g)
           /\ z = Truncated(p, k) /\ u = Tokenized(sl)
    OBVIOUS
  <2>2. p \in Seq(Toks) /\ p # <<>> /\ g \in Int
    BY <2>1 DEF PromptOK, Request
  <2>3. k \in 0 .. NCtx - 4
    <3>1. Len(p) \in Nat
      BY <2>2
    <3> QED BY ONLY <2>1, <2>2, <3>1, Numbers DEF KV!Lesser
  <2>4. z \in Seq(Toks) /\ Len(z) < NCtx
    BY <2>1, <2>2, <2>3, TruncatedFits
  <2>5. u = [sl EXCEPT !.keep = k, !.tokens = z, !.past = Reusable(sl, z)]
    BY <1>2, <2>1 DEF Tokenized
  <2>6. IsSlot(u) /\ u.tokens = z /\ u.ask = sl.ask /\ u.command = sl.command
    BY <2>5 DEF PromptOK, IsSlot, SlotFields
  <2>7. PromptOK(u)
    BY <2>4, <2>6 DEF PromptOK
  <2> QED BY <2>1, <2>7
<1> QED BY <1>1, <1>2

LEMMA PromptsInit == Init => PromptsInv
<1> SUFFICES ASSUME Init PROVE PromptsInv
  OBVIOUS
<1>1. use \in [requests : Seq(Request), erase : BOOLEAN, early : BOOLEAN]
  BY SlotAssumption DEF Init
<1>2. <<>> \in Seq(Toks) /\ Len(<<>>) < NCtx
  BY Numbers
<1>3. ASSUME NEW s \in Slots PROVE PromptOK(slots[s])
  BY <1>2 DEF Init, PromptOK, IsSlot, SlotFields
<1>4. slots = [s \in Slots |-> slots[s]]
  BY DEF Init
<1> QED BY <1>1, <1>3, <1>4 DEF PromptsInv

\* a step that changes the slots one by one
LEMMA PromptsStep ==
    ASSUME PromptsInv, NEW F, slots' = F, F = [s \in Slots |-> F[s]],
           \A s \in Slots : PromptOK(F[s]),
           use' \in [requests : Seq(Request), erase : BOOLEAN, early : BOOLEAN]
    PROVE  PromptsInv'
BY DEF PromptsInv

LEMMA PromptsLaunch == ASSUME PromptsInv, NEW s \in Slots, Launch(s) PROVE PromptsInv'
<1>1. PICK r, q : r = Head(use.requests) /\ q = use.requests
  OBVIOUS
<1>2. /\ q \in Seq(Request) /\ q # <<>> /\ use' = [use EXCEPT !.requests = Tail(q)]
      /\ use \in [requests : Seq(Request), erase : BOOLEAN, early : BOOLEAN]
  BY <1>1 DEF Launch, PromptsInv
<1>3. r \in Request /\ Tail(q) \in Seq(Request)
  BY <1>1, <1>2
<1>4. use' \in [requests : Seq(Request), erase : BOOLEAN, early : BOOLEAN]
  BY <1>2, <1>3
<1>5. \A t \in Slots : PromptOK(slots[t]) /\ slots = [x \in Slots |-> slots[x]]
  BY DEF PromptsInv
<1>6. PromptOK(Launched(slots[s], r))
  BY <1>3, <1>5, PromptLaunched
<1>7. \A t \in Slots : PromptOK([Released(slots[t]) EXCEPT !.past = 0])
  BY <1>5, PromptReleased
<1>8. CASE slots' = [slots EXCEPT ![s] = Launched(slots[s], r)]
  BY <1>4, <1>5, <1>6, <1>8 DEF PromptsInv
<1>9. CASE slots' = [t \in Slots |-> IF t = s THEN Launched(slots[t], r)
                                     ELSE [Released(slots[t]) EXCEPT !.past = 0]]
  BY <1>4, <1>6, <1>7, <1>9 DEF PromptsInv
<1> QED BY <1>1, <1>8, <1>9 DEF Launch

\* a step that changes one slot
LEMMA PromptsOne ==
    ASSUME PromptsInv, UNCHANGED use, NEW s \in Slots, NEW u, PromptOK(u),
           slots' = [slots EXCEPT ![s] = u]
    PROVE  PromptsInv'
<1>1. slots = [t \in Slots |-> slots[t]] /\ \A t \in Slots : PromptOK(slots[t])
  BY DEF PromptsInv
<1>2. \A t \in Slots : slots'[t] = IF t = s THEN u ELSE slots[t]
  BY <1>1
<1>3. slots' = [t \in Slots |-> slots'[t]]
  BY <1>1
<1> QED BY <1>1, <1>2, <1>3 DEF PromptsInv

LEMMA PromptsGo == ASSUME PromptsInv, NEW s \in Slots, Go(s) PROVE PromptsInv'
<1>1. PICK sl, d :
         /\ sl = slots[s]
         /\ d = IF NeedsShift(slots[s]) THEN ShiftedSlot(slots[s]) ELSE slots[s]
  OBVIOUS
<1>2. PromptOK(sl) /\ IsSlot(sl)
  BY <1>1 DEF PromptsInv, PromptOK
<1>3. IsSlot(d) /\ d.tokens = sl.tokens /\ d.ask = sl.ask /\ d.command = sl.command
  BY <1>1, <1>2 DEF ShiftedSlot, IsSlot, SlotFields
<1>4. PICK v : v = [d EXCEPT !.past = d.past + 1, !.last = Len(batch) + 1,
                             !.cached = IF d.ask.reuse THEN Append(d.cached, d.sampled)
                                                       ELSE d.cached,
                             !.seen = Append(d.seen, d.sampled)]
  OBVIOUS
<1>5. IsSlot(v) /\ v.tokens = d.tokens /\ v.ask = d.ask /\ v.command = d.command
  BY <1>3, <1>4 DEF IsSlot, SlotFields
<1>6. PromptOK(d) /\ PromptOK(v)
  BY <1>2, <1>3, <1>5, PromptKept
<1>7. \/ slots' = [slots EXCEPT ![s] = d]
      \/ slots' = [slots EXCEPT ![s] = v]
  BY <1>1, <1>3, <1>4 DEF Go, IsSlot, SlotFields
<1>8. UNCHANGED use
  BY DEF Go
<1> QED BY <1>6, <1>7, <1>8, PromptsOne

LEMMA PromptsLoad == ASSUME PromptsInv, NEW s \in Slots, Load(s) PROVE PromptsInv'
<1>1. UNCHANGED use
  BY DEF Load
<1>2. CASE UNCHANGED slots
  BY <1>1, <1>2 DEF PromptsInv
<1>3. CASE ~UNCHANGED slots
  <2> DEFINE sl == slots[s]
             d == Tokenized(sl)
             n == KV!Lesser(Len(d.tokens), d.past + KV!Greater(0, NBatch - Len(batch)))
             new == SubSeq(d.tokens, d.past + 1, n)
             k == IF d.ask.reuse THEN Resized(d.cached, d.past) \o new
                                 ELSE Resized(d.cached, d.past)
             se == system.tokens \o SubSeq(d.tokens, 1, n)
             done == n = Len(d.tokens)
             st == IF done THEN "processing" ELSE d.state
             co == IF done THEN "none" ELSE d.command
             de == IF done THEN 0 ELSE d.decoded
             la == IF done THEN Len(batch') ELSE d.last
  <2>1. /\ sl.command = "load" /\ (co = d.command \/ co = "none")
        /\ slots' = [slots EXCEPT ![s] =
             [d EXCEPT !.past = n, !.cached = k, !.seen = se, !.state = st,
                       !.command = co, !.decoded = de, !.last = la]]
    BY <1>3, Zenon DEF Load
  <2> HIDE DEF d, n, k, se, st, co, de, la
  <2>2. PromptOK(d) /\ IsSlot(d)
    BY <2>1, PromptTokenized DEF PromptsInv, PromptOK, d
  <2>3. PICK v : v = [d EXCEPT !.past = n, !.cached = k, !.seen = se, !.state = st,
                               !.command = co, !.decoded = de, !.last = la]
    OBVIOUS
  <2>4. /\ IsSlot(v) /\ v.tokens = d.tokens /\ v.ask = d.ask
        /\ v.command = "load" => d.command = "load"
    BY <2>1, <2>2, <2>3 DEF IsSlot, SlotFields
  <2>5. PromptOK(v)
    BY <2>2, <2>4, PromptKept
  <2> QED BY <1>1, <2>1, <2>3, <2>5, PromptsOne
<1> QED BY <1>2, <1>3

LEMMA PromptsUpdate == ASSUME PromptsInv, Update PROVE PromptsInv'
<1>1. PICK now :
         /\ now = [s \in Slots |-> IF slots[s].command = "release"
                     THEN [slots[s] EXCEPT !.state = "idle", !.command = "none"]
                     ELSE slots[s]]
         /\ slots' = now
  BY DEF Update
<1>2. ASSUME NEW s \in Slots PROVE PromptOK(now[s])
  <2>1. PromptOK(slots[s]) /\ IsSlot(slots[s])
    BY DEF PromptsInv, PromptOK
  <2>2. PICK v : v = [slots[s] EXCEPT !.state = "idle", !.command = "none"]
    OBVIOUS
  <2>3. /\ IsSlot(v) /\ v.tokens = slots[s].tokens /\ v.ask = slots[s].ask
        /\ v.command = "none"
    BY <2>1, <2>2 DEF IsSlot, SlotFields
  <2>4. PromptOK(v)
    BY <2>1, <2>3, PromptKept
  <2> QED BY <1>1, <2>1, <2>2, <2>4
<1>3. UNCHANGED use
  BY DEF Update
<1> QED BY <1>1, <1>2, <1>3 DEF PromptsInv

LEMMA PromptsNoRoom == ASSUME PromptsInv, NoRoom PROVE PromptsInv'
<1>1. PICK now : now = [s \in Slots |->
                          [slots[s] EXCEPT !.state = "processing", !.command = "release"]]
  OBVIOUS
<1>2. ASSUME NEW s \in Slots PROVE PromptOK(now[s])
  <2>1. PromptOK(slots[s]) /\ IsSlot(slots[s])
    BY DEF PromptsInv, PromptOK
  <2>2. PICK v : v = [slots[s] EXCEPT !.state = "processing", !.command = "release"]
    OBVIOUS
  <2>3. /\ IsSlot(v) /\ v.tokens = slots[s].tokens /\ v.ask = slots[s].ask
        /\ v.command = "release"
    BY <2>1, <2>2 DEF IsSlot, SlotFields
  <2>4. PromptOK(v)
    BY <2>1, <2>3, PromptKept
  <2> QED BY <1>1, <2>2, <2>4
<1>3. UNCHANGED use
  BY DEF NoRoom
<1>4. UNCHANGED slots \/ slots' = now
  BY <1>1 DEF NoRoom
<1> QED BY <1>1, <1>2, <1>3, <1>4 DEF PromptsInv

LEMMA PromptsSample == ASSUME PromptsInv, Sample PROVE PromptsInv'
<1>1. PICK tok \in [Sampling -> Sampled], ends \in SUBSET Sampling :
         slots' = [s \in Slots |->
            IF s \notin Sampling THEN slots[s]
            ELSE [slots[s] EXCEPT
                    !.sampled = tok[s], !.last = 0, !.decoded = @ + 1,
                    !.command = IF s \in ends \/ Spent(slots[s]) THEN "release" ELSE @]]
  BY DEF Sample
<1>2. ASSUME NEW s \in Slots PROVE PromptOK(slots'[s])
  <2>1. PromptOK(slots[s]) /\ IsSlot(slots[s])
    BY DEF PromptsInv, PromptOK
  <2>2. PICK v : v = slots'[s]
    OBVIOUS
  <2>3. /\ IsSlot(v) /\ v.tokens = slots[s].tokens /\ v.ask = slots[s].ask
        /\ v.command = "load" => slots[s].command = "load"
    BY <1>1, <2>1, <2>2 DEF IsSlot, SlotFields
  <2>4. PromptOK(v)
    BY <2>1, <2>3, PromptKept
  <2> QED BY <2>2, <2>4
<1>3. UNCHANGED use
  BY DEF Sample
<1>4. slots' = [s \in Slots |-> slots'[s]]
  BY <1>1
<1> QED BY <1>2, <1>3, <1>4 DEF PromptsInv

LEMMA PromptsNext == ASSUME PromptsInv, [Next]_vars PROVE PromptsInv'
<1>1. ASSUME NEW s \in Slots, Launch(s) PROVE PromptsInv'
  BY <1>1, PromptsLaunch
<1>2. ASSUME NEW s \in Slots, Cancel(s) PROVE PromptsInv'
  <2>1. PromptOK(Released(slots[s]))
    BY PromptReleased DEF PromptsInv
  <2> QED BY <1>2, <2>1, PromptsOne DEF Cancel
<1>3. ASSUME NEW s \in Slots, Erase(s) PROVE PromptsInv'
  <2>1. PICK v : v = [slots[s] EXCEPT !.cached = <<>>]
    OBVIOUS
  <2>2. PromptOK(slots[s]) /\ IsSlot(slots[s])
    BY DEF PromptsInv, PromptOK
  <2>3. /\ IsSlot(v) /\ v.tokens = slots[s].tokens /\ v.ask = slots[s].ask
        /\ v.command = slots[s].command
    BY <2>1, <2>2 DEF IsSlot, SlotFields
  <2>4. PromptOK(v)
    BY <2>2, <2>3, PromptKept
  <2>5. slots' = [slots EXCEPT ![s] = v] /\ UNCHANGED use
    BY <1>3, <2>1 DEF Erase
  <2> QED BY <2>4, <2>5, PromptsOne
<1>4. ASSUME NEW s \in Slots, Go(s) PROVE PromptsInv'
  BY <1>4, PromptsGo
<1>5. ASSUME NEW s \in Slots, Load(s) PROVE PromptsInv'
  BY <1>5, PromptsLoad
<1>6. CASE Update
  BY <1>6, PromptsUpdate
<1>7. CASE NoRoom
  BY <1>7, PromptsNoRoom
<1>8. CASE Sample
  BY <1>8, PromptsSample
<1>9. CASE UNCHANGED <<use, slots>>
  BY <1>9 DEF PromptsInv
<1>10. DecodeView \/ DecodeUbatch \/ UNCHANGED vars => UNCHANGED <<use, slots>>
  BY DEF DecodeView, DecodeUbatch, vars
<1> QED BY <1>1, <1>2, <1>3, <1>4, <1>5, <1>6, <1>7, <1>8, <1>9, <1>10 DEF Next

\* The prompt of a slot is shorter than its share of the context after the
\* truncation, so the assertion behind it holds for every prompt and n_keep, and
\* whatever the server is used for.
THEOREM PromptsFit == Spec => []PromptFits
<1>1. PromptsInv => PromptFits
  BY DEF PromptsInv, PromptOK, PromptFits
<1> QED BY <1>1, PromptsInit, PromptsNext, PTL DEF Spec

-----------------------------------------------------------------------------
(* What a slot loads of its prompt.                                        *)

\* What a slot that is to load its prompt has of it in the cache.
LoadFrom(c, s, tz) ==
    /\ tz \in SlotType /\ tz.ask \in Request
    /\ tz.state = "idle" /\ tz.command = "load" /\ tz.keep \in 0 .. NCtx - 4
    /\ tz.past < Len(tz.tokens) /\ Len(tz.tokens) < NCtx
    /\ \A p \in Nat : \A t : Has(c, s, p, t) /\ p < tz.past => t = tz.tokens[p + 1]
    /\ \A p \in 0 .. tz.past - 1 : Has(c, s, p, tz.tokens[p + 1])
    /\ IF tz.ask.reuse
       THEN tz.past <= Len(tz.cached) /\ \A j \in 1 .. tz.past : tz.cached[j] = tz.tokens[j]
       ELSE \A j \in 1 .. tz.past : j <= Len(tz.cached) => tz.cached[j] = NoTok

LEMMA TokenizedLoads ==
    ASSUME NEW c, Good(c), NEW q, NEW f, NEW s \in Slots, NEW sl,
           SlotIn(c, q, f, s, sl), Dues(q, f, s) = {}, sl.command = "load"
    PROVE  LoadFrom(c, s, Tokenized(sl))
<1>1. sl \in SlotType /\ sl.state = "idle" /\ sl.ask \in Request /\ ~Working(sl)
  BY DEF SlotIn, SlotOK, SlotType, Working
<1>2. CASE sl.tokens # <<>>
  <2>1. /\ Tokenized(sl) = sl /\ Loading(sl) /\ Active(sl) /\ SlotFits(sl)
        /\ sl.past < Len(sl.tokens) /\ sl.seen = SubSeq(sl.tokens, 1, sl.past)
        /\ Len(sl.tokens) < NCtx
    BY <1>2 DEF Tokenized, SlotIn, SlotOK, Loading, Active
  <2>2. sl.past \in Nat /\ sl.tokens \in Seq(Toks) /\ Len(sl.tokens) \in Nat
    BY <1>1 DEF SlotType
  <2>3. \A j \in 1 .. sl.past : sl.seen[j] = sl.tokens[j]
    BY <2>1, <2>2
  <2>4. \A p \in Nat : \A t : Has(c, s, p, t) <=> InText(sl, p, t)
    BY <2>1, TextIsIn
  <2>5. \A p \in Nat : \A t : Has(c, s, p, t) /\ p < sl.past => t = sl.tokens[p + 1]
    <3>1. \A p \in Nat : p < sl.past => p + 1 \in 1 .. sl.past
      BY <2>2
    <3> QED BY <2>3, <2>4, <3>1 DEF InText
  <2>6. \A p \in 0 .. sl.past - 1 : Has(c, s, p, sl.tokens[p + 1])
    <3>1. \A p \in 0 .. sl.past - 1 : p \in Nat /\ p + 1 \in 1 .. sl.past
      BY <2>2
    <3> QED BY <2>3, <2>4, <3>1 DEF InText
  <2>7. IF sl.ask.reuse
        THEN sl.past <= Len(sl.cached) /\ \A j \in 1 .. sl.past : sl.cached[j] = sl.tokens[j]
        ELSE \A j \in 1 .. sl.past : j <= Len(sl.cached) => sl.cached[j] = NoTok
    <3>1. CachesText(sl) /\ Len(sl.seen) = sl.past
      BY <2>1 DEF SlotFits
    <3>2. CASE sl.ask.reuse
      BY <3>1, <3>2, <2>2, <2>3 DEF CachesText
    <3>3. CASE ~sl.ask.reuse
      <4>1. Len(sl.cached) \in Nat
        BY <1>1 DEF SlotType
      <4>2. \A j \in 1 .. sl.past : j <= Len(sl.cached) => j \in 1 .. Len(sl.cached)
        BY <2>2, <4>1
      <4> QED BY <3>1, <3>3, <4>2 DEF CachesText
    <3> QED BY <3>2, <3>3
  <2>8. sl.keep \in 0 .. NCtx - 4
    BY <2>1 DEF SlotFits
  <2> QED BY ONLY <1>1, sl.command = "load", <2>1, <2>5, <2>6, <2>7, <2>8 DEF LoadFrom
<1>3. CASE sl.tokens = <<>>
  <2> DEFINE given  == sl.ask.keep
             keep   == KV!Lesser(NCtx - 4, IF given < 0 THEN Len(sl.ask.prompt) ELSE given)
             tokens == Truncated(sl.ask.prompt, keep)
             past   == Reusable(sl, tokens)
  <2>1. Tokenized(sl) = [sl EXCEPT !.keep = keep, !.tokens = tokens, !.past = past]
    BY <1>3 DEF Tokenized
  <2>2. sl.ask.prompt \in Seq(Toks) /\ sl.ask.prompt # <<>> /\ given \in Int
    BY <1>1 DEF Request
  <2>3. keep \in 0 .. NCtx - 4
    <3>1. Len(sl.ask.prompt) \in Nat
      BY <2>2
    <3> HIDE DEF given
    <3> QED BY ONLY <2>2, <3>1, Numbers DEF KV!Lesser
  <2> HIDE DEF keep
  <2>4. tokens \in Seq(Toks) /\ tokens # <<>> /\ Len(tokens) < NCtx
    BY <2>2, <2>3, TruncatedFits
  <2> HIDE DEF tokens
  <2>5. Len(tokens) \in Nat \ {0}
    BY <2>4, EmptySeq
  <2>6. sl.cached \in Seq(Toks \cup {NoTok}) /\ Len(sl.cached) \in Nat
    BY <1>1 DEF SlotType
  <2>7. /\ past \in Nat /\ past < Len(tokens)
        /\ IF sl.ask.reuse
           THEN past <= Len(sl.cached) /\ \A j \in 1 .. past : sl.cached[j] = tokens[j]
           ELSE past = 0
    <3>1. CASE ~sl.ask.reuse
      BY <3>1, <2>5 DEF Reusable
    <3>2. CASE sl.ask.reuse
      <4>1. PICK n : n = CommonPart(sl.cached, tokens)
        OBVIOUS
      <4>2. /\ n \in Nat /\ n <= Len(sl.cached) /\ n <= Len(tokens)
            /\ \A j \in 1 .. n : sl.cached[j] = tokens[j]
        BY <4>1, <2>4, <2>6, CommonPartIs
      <4>3. past = IF n = Len(tokens) THEN n - 1 ELSE n
        BY <4>1, <3>2 DEF Reusable
      <4>4. past \in Nat /\ past <= n /\ past < Len(tokens)
        BY ONLY <4>2, <4>3, <2>5
      <4> HIDE DEF past
      <4>5. \A j \in 1 .. past : j \in 1 .. n
        BY ONLY <4>2, <4>4
      <4> QED BY <3>2, <4>2, <4>4, <4>5, <2>6
    <3> QED BY <3>1, <3>2
  <2> HIDE DEF past
  <2>8. PICK tz : tz = Tokenized(sl)
    OBVIOUS
  <2>9. /\ tz \in SlotType /\ tz.ask = sl.ask /\ tz.state = "idle" /\ tz.command = "load"
        /\ tz.keep = keep /\ tz.tokens = tokens /\ tz.past = past /\ tz.cached = sl.cached
    <3>1. keep \in Int
      BY <2>3, Numbers
    <3> QED BY <1>1, <2>1, <2>4, <2>7, <2>8, <3>1 DEF SlotType
  <2>10. ~Active(sl)
    BY <1>1, <1>3 DEF Active, Loading
  <2>11. ASSUME NEW p \in 0 .. past - 1 PROVE Has(c, s, p, tokens[p + 1])
    <3>1. sl.ask.reuse /\ p + 1 \in 1 .. past /\ p + 1 \in 1 .. Len(sl.cached)
          /\ p + 1 \in 1 .. Len(tokens) /\ (p + 1) - 1 = p
      BY ONLY p \in 0 .. past - 1, <2>5, <2>6, <2>7
    <3>2. sl.cached[p + 1] = tokens[p + 1]
      BY <3>1, <2>7
    <3>3. tokens[p + 1] \in Toks
      BY <3>1, <2>4, ElementOfSeq
    <3>4. sl.cached[p + 1] # NoTok
      BY <3>2, <3>3, SlotAssumption
    <3>5. Has(c, s, (p + 1) - 1, sl.cached[p + 1])
      BY <3>1, <3>4, CachedIn
    <3> QED BY <3>1, <3>2, <3>5
  <2>12. ASSUME NEW p \in Nat, NEW t, Has(c, s, p, t), p < past PROVE t = tokens[p + 1]
    <3>1. p \in 0 .. past - 1
      BY <2>7, <2>12
    <3>2. Has(c, s, p, tokens[p + 1])
      BY <3>1, <2>11
    <3> QED BY <3>2, <2>12, OneToken
  <2>13. IF tz.ask.reuse
         THEN tz.past <= Len(tz.cached) /\ \A j \in 1 .. tz.past : tz.cached[j] = tz.tokens[j]
         ELSE \A j \in 1 .. tz.past : j <= Len(tz.cached) => tz.cached[j] = NoTok
    BY <2>7, <2>9
  <2>14. LoadFrom(c, s, tz)
    BY ONLY <1>1, <2>3, <2>4, <2>7, <2>9, <2>11, <2>12, <2>13 DEF LoadFrom
  <2> QED BY <2>8, <2>14
<1> QED BY <1>2, <1>3

LEMMA IsSeq ==
    ASSUME NEW T, NEW z \in Nat, NEW w, w = [j \in 1 .. z |-> w[j]], \A j \in 1 .. z : w[j] \in T
    PROVE  w \in Seq(T) /\ Len(w) = z
OBVIOUS

LEMMA Joined ==
    ASSUME NEW T, NEW q \in Seq(T), NEW w \in Seq(T), NEW v, v = q \o w
    PROVE  /\ v \in Seq(T) /\ Len(v) = Len(q) + Len(w) /\ Len(q) \in Nat /\ Len(w) \in Nat
           /\ \A b \in 1 .. Len(q) : v[b] = q[b]
           /\ \A j \in 1 .. Len(w) : v[Len(q) + j] = w[j]
OBVIOUS

\* the tokens of the prompt that go to the batch
Loaded(s, sl, past) ==
    [j \in 1 .. past - sl.past |-> Token(s, sl.past + j - 1, sl.tokens[sl.past + j])]

\* the slot with its prompt up to past, the batch being z long
LoadedSlot(sl, past, z, new) ==
    /\ new \in SlotType /\ new.ask = sl.ask /\ new.keep = sl.keep /\ new.tokens = sl.tokens
    /\ new.past = past /\ new.seen = SubSeq(sl.tokens, 1, past) /\ CachesText(new)
    /\ IF past = Len(sl.tokens)
       THEN new.state = "processing" /\ new.command = "none" /\ new.last = z
       ELSE new.state = "idle" /\ new.command = "load"

\* The common part of the prompt is kept in the cache, the rest of what the
\* slot had there goes, and some more of the prompt is added to the batch.
LEMMA LoadSlot ==
    ASSUME NEW c, Good(c), NEW q \in Seq(BatchToken), NEW s \in Slots,
           NEW sl, LoadFrom(c, s, sl), Dues(q, 0, s) = {},
           NEW past \in Nat, sl.past <= past, past <= Len(sl.tokens),
           NEW w, w = Loaded(s, sl, past), NEW v, v = q \o w,
           NEW d, d = KV!SeqRm(c, Seq1(s), sl.past, -1),
           NEW new, LoadedSlot(sl, past, Len(v), new)
    PROVE  w \in Seq(BatchToken) /\ SlotIn(d, v, 0, s, new)
<1>0. /\ new \in SlotType /\ new.ask = sl.ask /\ new.keep = sl.keep
      /\ new.tokens = sl.tokens /\ new.past = past
      /\ new.seen = SubSeq(sl.tokens, 1, past) /\ CachesText(new)
      /\ IF past = Len(sl.tokens)
         THEN new.state = "processing" /\ new.command = "none" /\ new.last = Len(v)
         ELSE new.state = "idle" /\ new.command = "load"
  BY DEF LoadedSlot
<1> USE <1>0
<1> DEFINE n == Len(sl.tokens)
<1>1. /\ sl.past \in Nat /\ sl.tokens \in Seq(Toks) /\ n \in Nat
      /\ sl.past < n /\ n < NCtx
  BY DEF LoadFrom, SlotType
<1>2. past \in Nat /\ sl.past <= past /\ past <= n
  OBVIOUS
<1>3. \A j \in 1 .. past - sl.past : sl.past + j - 1 \in Nat /\ sl.past + j \in 1 .. n
  BY ONLY <1>1, <1>2
<1>4. \A j \in 1 .. past - sl.past :
         /\ w[j] \in BatchToken /\ w[j].seqs = {Seq1(s)}
         /\ w[j].pos = sl.past + j - 1 /\ w[j].tok = sl.tokens[sl.past + j]
  <2>1. ASSUME NEW j \in 1 .. past - sl.past
        PROVE  /\ w[j] \in BatchToken /\ w[j].seqs = {Seq1(s)}
               /\ w[j].pos = sl.past + j - 1 /\ w[j].tok = sl.tokens[sl.past + j]
    <3>1. sl.tokens[sl.past + j] \in Toks
      BY <1>1, <1>3, ElementOfSeq
    <3>2. w[j] = [pos |-> sl.past + j - 1, seqs |-> {Seq1(s)}, tok |-> sl.tokens[sl.past + j]]
      BY DEF Loaded, Token
    <3> QED BY ONLY <3>1, <3>2, <1>3, <2>1, s \in Slots DEF BatchToken
  <2> QED BY <2>1
<1>5. w \in Seq(BatchToken) /\ Len(w) = past - sl.past
  <2>1. past - sl.past \in Nat
    BY ONLY <1>1, <1>2
  <2>2. PICK z \in Nat : z = past - sl.past
    BY <2>1
  <2>3. w = [j \in 1 .. z |-> w[j]]
    BY <2>2 DEF Loaded
  <2>4. \A j \in 1 .. z : w[j] \in BatchToken
    BY <1>4, <2>2
  <2>5. w \in Seq(BatchToken) /\ Len(w) = z
    BY ONLY <2>3, <2>4, IsSeq
  <2> QED BY <2>2, <2>5
<1> DEFINE k == Len(q)
<1>6. /\ k \in Nat /\ Len(v) = k + (past - sl.past)
      /\ \A b \in 1 .. k : v[b] = q[b]
      /\ \A j \in 1 .. past - sl.past : k + j \in k + 1 .. Len(v) /\ v[k + j] = w[j]
  <2>1. v = q \o w
    OBVIOUS
  <2>2. /\ Len(v) = Len(q) + Len(w) /\ Len(q) \in Nat /\ Len(w) \in Nat
        /\ \A b \in 1 .. Len(q) : v[b] = q[b]
        /\ \A j \in 1 .. Len(w) : v[Len(q) + j] = w[j]
    BY ONLY <2>1, <1>5, q \in Seq(BatchToken), Joined
  <2>3. \A j \in 1 .. past - sl.past : k + j \in k + 1 .. k + (past - sl.past)
    BY ONLY <1>1, <1>2, <2>2
  <2> QED BY ONLY <2>1, <2>2, <2>3, <1>5
<1>7. ASSUME NEW b \in Dues(v, 0, s)
      PROVE  \E j \in 1 .. past - sl.past : b = k + j
  <2>1. b \in 1 .. k + (past - sl.past) /\ v[b].seqs = {Seq1(s)}
    <3>1. b \in 0 + 1 .. Len(v) /\ v[b].seqs = {Seq1(s)}
      BY <1>7 DEF Dues
    <3>2. Len(v) = k + (past - sl.past)
      BY ONLY <1>6
    <3> QED BY ONLY <3>1, <3>2
  <2>2. ~(b \in 1 .. k)
    <3>1. SUFFICES ASSUME b \in 1 .. k PROVE FALSE
      OBVIOUS
    <3>2. b \in 0 + 1 .. Len(q) /\ q[b].seqs = {Seq1(s)}
      BY <2>1, <3>1, <1>6
    <3> QED BY <3>2 DEF Dues
  <2>3. b - k \in 1 .. past - sl.past /\ b = k + (b - k)
    BY ONLY <2>1, <2>2, <1>1, <1>2, <1>6
  <2> QED BY <2>3
<1>8. ASSUME NEW j \in 1 .. past - sl.past
      PROVE  k + j \in Dues(v, 0, s)
  <2>1. k + j \in 0 + 1 .. Len(v)
    BY ONLY <1>6, <1>8
  <2> QED BY <2>1, <1>4, <1>6 DEF Dues
<1>9. \A j \in 1 .. past - sl.past :
         v[k + j].pos = sl.past + j - 1 /\ v[k + j].tok = sl.tokens[sl.past + j]
  BY <1>4, <1>6, SMTT(60)
<1> HIDE DEF k
<1>11. /\ new.seen \in Seq(Toks) /\ Len(new.seen) = past
       /\ \A j \in 1 .. past : new.seen[j] = sl.tokens[j]
  <2>1. PICK x \in Seq(Toks) : x = sl.tokens /\ Len(x) = n
    BY <1>1
  <2>2. new.seen = SubSeq(x, 1, past)
    BY <2>1
  <2>3. /\ SubSeq(x, 1, past) \in Seq(Toks) /\ Len(SubSeq(x, 1, past)) = past
        /\ \A j \in 1 .. past : SubSeq(x, 1, past)[j] = x[j]
    BY ONLY <2>1, <1>1, <1>2
  <2> QED BY ONLY <2>1, <2>2, <2>3
<1>12. IF past = n
       THEN Working(new) /\ ~Loading(new) ELSE ~Working(new) /\ Loading(new)
  <2>1. sl.tokens # <<>>
    BY <1>1
  <2> QED BY <2>1 DEF Working, Loading
<1>13. Active(new)
  BY <1>12 DEF Active
<1>14. SlotOK(new)
  <2>1. SlotFits(new)
    <3>1. new.keep \in 0 .. NCtx - 4
      BY DEF LoadFrom
    <3>2. past <= NCtx - 1
      BY ONLY <1>1, <1>2, Numbers
    <3> QED BY <3>1, <3>2, <1>11 DEF SlotFits
  <2>2. Loading(new) => past < n
    BY ONLY <1>1, <1>2, <1>12
  <2>3. new.ask \in Request
    BY DEF LoadFrom
  <2>4. sl.tokens # <<>> /\ n < NCtx
    BY <1>1
  <2>5. IF past = n THEN new.state = "processing" /\ new.command = "none"
        ELSE new.state = "idle" /\ new.command = "load"
    OBVIOUS
  <2> QED BY ONLY <1>0, <2>1, <2>2, <2>3, <2>4, <2>5 DEF SlotOK
<1>15. DuesOK(v, 0, s, new)
  <2>1. ASSUME NEW b \in Dues(v, 0, s)
        PROVE  /\ v[b].pos < new.past /\ v[b].tok = new.seen[v[b].pos + 1]
               /\ Working(new) => b <= new.last
    <3>1. PICK j \in 1 .. past - sl.past : b = k + j
      BY <1>7
    <3>2. v[b].pos = sl.past + j - 1 /\ v[b].tok = sl.tokens[sl.past + j]
      BY <3>1, <1>9
    <3>3. /\ sl.past + j - 1 < past /\ sl.past + j \in 1 .. past
          /\ (sl.past + j - 1) + 1 = sl.past + j
      BY ONLY j \in 1 .. past - sl.past, <1>1, <1>2
    <3>4. new.seen[sl.past + j] = sl.tokens[sl.past + j]
      BY <3>3, <1>11
    <3>5. Working(new) => b <= new.last
      <4>1. k + j <= k + (past - sl.past)
        BY ONLY j \in 1 .. past - sl.past, <1>1, <1>2, <1>6
      <4>2. Working(new) => new.last = Len(v)
        BY <1>12
      <4> QED BY ONLY <4>1, <4>2, <3>1, <1>6
    <3> QED BY <3>2, <3>3, <3>4, <3>5
  <2>2. ASSUME NEW b \in Dues(v, 0, s), NEW g \in Dues(v, 0, s), v[b].pos = v[g].pos
        PROVE  b = g
    <3>1. PICK j \in 1 .. past - sl.past : b = k + j
      BY <1>7
    <3>2. PICK i \in 1 .. past - sl.past : g = k + i
      BY <1>7
    <3>3. sl.past + j - 1 = sl.past + i - 1
      BY <3>1, <3>2, <2>2, <1>9
    <3>4. i = j
      BY ONLY <3>3, <1>1, <1>2, i \in 1 .. past - sl.past, j \in 1 .. past - sl.past
    <3> QED BY <3>1, <3>2, <3>4
  <2> QED BY <2>1, <2>2, <1>13, ZenonT(60) DEF DuesOK
<1>16. /\ Good(d)
       /\ \A p, t : Has(d, s, p, t) <=> Has(c, s, p, t) /\ ~KV!Within(p, sl.past, -1)
  <2>1. sl.past \in Int /\ -1 \in Int
    BY <1>1
  <2> QED BY <2>1, RmHas
<1>17. ASSUME NEW p \in Nat, NEW t
       PROVE  Has(d, s, p, t) <=> InText(new, p, t) /\ ~Awaits(v, 0, s, p)
  <2>1. Has(d, s, p, t) <=> p < sl.past /\ t = sl.tokens[p + 1]
    <3>1. Has(d, s, p, t) <=> Has(c, s, p, t) /\ p < sl.past
      <4>1. ~KV!Within(p, sl.past, -1) <=> p < sl.past
        BY ONLY p \in Nat, <1>1 DEF KV!Within
      <4> QED BY <4>1, <1>16
    <3>2. p < sl.past => p \in 0 .. sl.past - 1
      BY <1>1
    <3>3. p < sl.past => Has(c, s, p, sl.tokens[p + 1])
      BY <3>2 DEF LoadFrom
    <3>4. Has(c, s, p, t) /\ p < sl.past => t = sl.tokens[p + 1]
      BY DEF LoadFrom
    <3> QED BY <3>1, <3>3, <3>4
  <2>2. Awaits(v, 0, s, p) <=> sl.past <= p /\ p < past
    <3>1. ASSUME Awaits(v, 0, s, p) PROVE sl.past <= p /\ p < past
      <4>1. PICK b \in Dues(v, 0, s) : v[b].pos = p
        BY <3>1 DEF Awaits
      <4>2. PICK j \in 1 .. past - sl.past : b = k + j
        BY <1>7
      <4>3. p = sl.past + j - 1
        BY <4>1, <4>2, <1>9
      <4> QED BY ONLY <4>3, j \in 1 .. past - sl.past, <1>1, <1>2
    <3>2. ASSUME sl.past <= p, p < past PROVE Awaits(v, 0, s, p)
      <4>1. PICK j \in 1 .. past - sl.past : p = sl.past + j - 1
        <5>1. p - sl.past + 1 \in 1 .. past - sl.past /\ p = sl.past + (p - sl.past + 1) - 1
          BY ONLY <3>2, p \in Nat, <1>1, <1>2
        <5> QED BY <5>1
      <4>2. k + j \in Dues(v, 0, s) /\ v[k + j].pos = p
        BY <4>1, <1>8, <1>9
      <4> QED BY <4>2 DEF Awaits
    <3> QED BY <3>1, <3>2
  <2>3. InText(new, p, t) <=> p < past /\ t = sl.tokens[p + 1]
    <3>1. p \in 0 .. past - 1 <=> p < past
      BY ONLY p \in Nat, <1>2
    <3>2. p < past => p + 1 \in 1 .. past
      BY ONLY p \in Nat, <1>2
    <3> QED BY <3>1, <3>2, <1>11 DEF InText
  <2>4. p < sl.past => p < past
    BY ONLY p \in Nat, <1>1, <1>2
  <2>5. p < sl.past <=> ~(sl.past <= p)
    BY ONLY p \in Nat, <1>1
  <2> QED BY ONLY <2>1, <2>2, <2>3, <2>4, <2>5
<1>18. Holding(d, v, 0, s, new)
  BY <1>13, <1>17 DEF Holding, HoldsText
<1> QED BY <1>5, <1>14, <1>15, <1>18 DEF SlotIn

\* What the code writes to the slot is that.
LEMMA LoadedIs ==
    ASSUME NEW c, NEW s, NEW sl, LoadFrom(c, s, sl),
           NEW past \in Nat, sl.past <= past, past <= Len(sl.tokens), NEW z \in Nat,
           NEW nw, nw = SubSeq(sl.tokens, sl.past + 1, past),
           NEW kept, kept = Resized(sl.cached, sl.past),
           NEW done, done = (past = Len(sl.tokens)),
           NEW x, x = SubSeq(sl.tokens, 1, past),
           NEW y, y = (IF sl.ask.reuse THEN kept \o nw ELSE kept),
           NEW new, new = [sl EXCEPT !.past = past, !.cached = y, !.seen = x,
                                     !.state = IF done THEN "processing" ELSE sl.state,
                                     !.command = IF done THEN "none" ELSE sl.command,
                                     !.decoded = IF done THEN 0 ELSE sl.decoded,
                                     !.last = IF done THEN z ELSE sl.last]
    PROVE  LoadedSlot(sl, past, z, new)
<1>1. /\ sl \in SlotType /\ sl.past \in Nat /\ sl.tokens \in Seq(Toks)
      /\ sl.cached \in Seq(Toks \cup {NoTok}) /\ Len(sl.tokens) \in Nat
      /\ sl.state = "idle" /\ sl.command = "load"
  BY DEF LoadFrom, SlotType
<1>2. /\ x \in Seq(Toks) /\ x \in Seq(Toks \cup {NoTok}) /\ Len(x) = past
      /\ \A j \in 1 .. past : x[j] = sl.tokens[j]
  <2>1. PICK o \in Seq(Toks) : o = sl.tokens
    BY <1>1
  <2>2. /\ x \in Seq(Toks) /\ Len(x) = past /\ \A j \in 1 .. past : x[j] = o[j]
    BY ONLY <2>1, <1>1, past \in Nat, past <= Len(sl.tokens), x = SubSeq(sl.tokens, 1, past)
  <2>3. x \in Seq(Toks \cup {NoTok})
    BY ONLY <2>2
  <2> QED BY <2>1, <2>2, <2>3
<1>3. /\ nw \in Seq(Toks \cup {NoTok}) /\ Len(nw) = past - sl.past
      /\ \A j \in 1 .. past - sl.past : nw[j] = sl.tokens[sl.past + j]
  <2>1. PICK o \in Seq(Toks \cup {NoTok}), a \in Nat : o = sl.tokens /\ a = sl.past
    BY <1>1
  <2>2. a <= past /\ past <= Len(o) /\ nw = SubSeq(o, a + 1, past)
    BY <2>1
  <2>3. /\ nw \in Seq(Toks \cup {NoTok}) /\ Len(nw) = past - a
        /\ \A j \in 1 .. past - a : nw[j] = o[a + j]
    <3>1. PICK T : T = Toks \cup {NoTok}
      OBVIOUS
    <3>2. o \in Seq(T) /\ a \in Nat /\ past \in Nat
      BY <3>1
    <3>3. /\ nw \in Seq(T) /\ Len(nw) = past - a
          /\ \A j \in 1 .. past - a : nw[j] = o[a + j]
      BY ONLY <2>2, <3>2
    <3> QED BY <3>1, <3>3
  <2> QED BY <2>1, <2>3
<1>4. /\ kept \in Seq(Toks \cup {NoTok}) /\ Len(kept) = sl.past
      /\ \A j \in 1 .. sl.past :
            kept[j] = IF j <= Len(sl.cached) THEN sl.cached[j] ELSE NoTok
  <2>1. PICK o \in Seq(Toks \cup {NoTok}), a \in Nat : o = sl.cached /\ a = sl.past
    BY <1>1
  <2>2. \A j \in 1 .. a : kept[j] = IF j <= Len(o) THEN o[j] ELSE NoTok
    BY <2>1 DEF Resized
  <2>3. \A j \in 1 .. a : kept[j] \in Toks \cup {NoTok}
    <3>1. \A j \in 1 .. a : j <= Len(o) => o[j] \in Toks \cup {NoTok}
      BY ONLY <2>1, ElementOfSeq
    <3> QED BY <2>2, <3>1
  <2>4. kept = [j \in 1 .. a |-> kept[j]]
    BY <2>1 DEF Resized
  <2>5. kept \in Seq(Toks \cup {NoTok}) /\ Len(kept) = a
    <3>1. PICK T : T = Toks \cup {NoTok}
      OBVIOUS
    <3>2. a \in Nat /\ \A j \in 1 .. a : kept[j] \in T
      BY <2>3, <3>1
    <3>3. kept \in Seq(T) /\ Len(kept) = a
      BY ONLY <2>4, <3>2, IsSeq
    <3> QED BY <3>1, <3>3
  <2> QED BY <2>1, <2>2, <2>5
<1>5. ASSUME sl.ask.reuse PROVE y = x
  <2>1. y = kept \o nw
    BY <1>5
  <2>2. /\ y \in Seq(Toks \cup {NoTok}) /\ Len(y) = sl.past + (past - sl.past)
        /\ \A b \in 1 .. sl.past : y[b] = kept[b]
        /\ \A j \in 1 .. past - sl.past : y[sl.past + j] = nw[j]
    <3>1. PICK T : T = Toks \cup {NoTok}
      OBVIOUS
    <3>2. kept \in Seq(T) /\ nw \in Seq(T)
      BY <1>3, <1>4, <3>1
    <3>3. /\ y \in Seq(T) /\ Len(y) = Len(kept) + Len(nw)
          /\ \A b \in 1 .. Len(kept) : y[b] = kept[b]
          /\ \A j \in 1 .. Len(nw) : y[Len(kept) + j] = nw[j]
      BY ONLY <2>1, <3>2, Joined
    <3> QED BY <3>1, <3>3, <1>3, <1>4, ZenonT(60)
  <2>3. Len(y) = past
    BY ONLY <2>2, <1>1, past \in Nat
  <2>4. ASSUME NEW j \in 1 .. past PROVE y[j] = x[j]
    <3>1. CASE j <= sl.past
      <4>1. j \in 1 .. sl.past
        BY <3>1, <1>1
      <4>2. /\ sl.cached[j] = sl.tokens[j] /\ sl.past <= Len(sl.cached)
            /\ Len(sl.cached) \in Nat
        BY <4>1, <1>1, <1>5 DEF LoadFrom
      <4>3. j <= Len(sl.cached)
        BY ONLY <1>1, <3>1, <4>1, <4>2
      <4>4. kept[j] = sl.tokens[j]
        BY <4>1, <4>2, <4>3, <1>4
      <4> QED BY <4>1, <4>4, <2>2, <1>2
    <3>2. CASE ~(j <= sl.past)
      <4>1. j - sl.past \in 1 .. past - sl.past /\ sl.past + (j - sl.past) = j
        BY ONLY <3>2, <1>1, <2>4, past \in Nat
      <4>2. PICK e : e = j - sl.past
        OBVIOUS
      <4>3. e \in 1 .. past - sl.past /\ sl.past + e = j
        BY ONLY <4>1, <4>2
      <4>4. y[j] = nw[e] /\ nw[e] = sl.tokens[j]
        BY ONLY <4>3, <2>2, <1>3
      <4> QED BY <4>4, <1>2
    <3> QED BY <3>1, <3>2
  <2> QED BY ONLY <2>2, <2>3, <2>4, <1>2
<1>6. /\ y \in Seq(Toks \cup {NoTok})
      /\ ~sl.ask.reuse => \A j \in 1 .. Len(y) : y[j] = NoTok
  <2>1. CASE sl.ask.reuse
    BY <2>1, <1>2, <1>5
  <2>2. CASE ~sl.ask.reuse
    <3>1. y = kept
      BY <2>2
    <3>2. \A j \in 1 .. sl.past : kept[j] = NoTok
      BY <2>2, <1>4 DEF LoadFrom
    <3> QED BY <3>1, <3>2, <1>4
  <2> QED BY <2>1, <2>2
<1>7. /\ new \in SlotType /\ new.ask = sl.ask /\ new.keep = sl.keep /\ new.tokens = sl.tokens
      /\ new.past = past /\ new.seen = x /\ new.cached = y
      /\ new.state = (IF done THEN "processing" ELSE "idle")
      /\ new.command = (IF done THEN "none" ELSE "load")
      /\ done => new.last = z
  <2>1. PICK a \in {"idle", "processing"} : a = IF done THEN "processing" ELSE sl.state
    BY <1>1
  <2>2. PICK b \in {"none", "load"} : b = IF done THEN "none" ELSE sl.command
    BY <1>1
  <2>3. PICK e \in Nat : e = IF done THEN 0 ELSE sl.decoded
    BY <1>1 DEF SlotType
  <2>4. PICK g \in Nat : g = IF done THEN z ELSE sl.last
    BY <1>1 DEF SlotType
  <2>5. new = [sl EXCEPT !.past = past, !.cached = y, !.seen = x, !.state = a,
                         !.command = b, !.decoded = e, !.last = g]
    BY <2>1, <2>2, <2>3, <2>4
  <2>6. /\ new \in SlotType /\ new.ask = sl.ask /\ new.keep = sl.keep
        /\ new.tokens = sl.tokens
        /\ new.past = past /\ new.seen = x /\ new.cached = y
        /\ new.state = a /\ new.command = b /\ new.last = g
    BY ONLY <1>1, <1>2, <1>6, <2>1, <2>2, <2>3, <2>4, <2>5, past \in Nat, ZenonT(60) DEF SlotType
  <2> QED BY <1>1, <2>1, <2>2, <2>4, <2>6
<1>8. CachesText(new)
  BY <1>5, <1>6, <1>7 DEF CachesText
<1> QED BY <1>7, <1>8 DEF LoadedSlot

-----------------------------------------------------------------------------
(* The decoding.                                                           *)

\* A slot samples when nothing of it is left to decode.
LEMMA SampleSlot ==
    ASSUME NEW c, NEW q \in Seq(BatchToken), NEW f \in Nat, NEW s, NEW sl,
           SlotIn(c, q, f, s, sl), sl.state = "processing", sl.last \in 0 .. f,
           NEW tok \in Toks, NEW cmd \in {sl.command, "release"},
           NEW new, new = [sl EXCEPT !.sampled = tok, !.last = 0, !.decoded = sl.decoded + 1,
                                     !.command = cmd]
    PROVE  SlotIn(c, q, f, s, new) /\ Working(new)
<1>1. sl \in SlotType /\ Active(sl) /\ Working(sl) /\ cmd \in {"none", "release"}
  BY DEF SlotIn, SlotOK, SlotType, Active, Working
<1>2. /\ new \in SlotType /\ new.state = sl.state /\ new.command = cmd
      /\ new.ask = sl.ask /\ new.tokens = sl.tokens /\ new.past = sl.past
      /\ new.keep = sl.keep /\ new.cached = sl.cached /\ new.seen = sl.seen
  <2>1. sl.decoded + 1 \in Nat
    BY <1>1 DEF SlotType
  <2> QED BY <1>1, <2>1 DEF SlotType
<1>3. Active(new) /\ Working(new) /\ ~Loading(new)
  BY <1>1, <1>2 DEF Active, Working, Loading
<1>4. SlotOK(new)
  BY <1>1, <1>2, <1>3 DEF SlotIn, SlotOK, SlotFits, CachesText
<1>5. Dues(q, f, s) = {}
  <2>1. \A b \in Dues(q, f, s) : b <= sl.last
    BY <1>1 DEF SlotIn, DuesOK
  <2>2. \A b \in f + 1 .. Len(q) : b > f
    OBVIOUS
  <2>3. \A b \in Dues(q, f, s) : b \in f + 1 .. Len(q)
    BY DEF Dues
  <2>4. ~ \E b \in f + 1 .. Len(q) : b <= sl.last
    BY <1>1
  <2> QED BY <2>1, <2>3, <2>4
<1>6. DuesOK(q, f, s, new)
  BY <1>5 DEF DuesOK
<1>7. Holding(c, q, f, s, new)
  BY <1>1, <1>2, <1>3 DEF SlotIn, Holding, HoldsText, InText
<1> QED BY <1>3, <1>4, <1>6, <1>7 DEF SlotIn

\* A view of the batch, by the numbers its tokens have in the batch.
LEMMA ViewIs ==
    ASSUME NEW q \in Seq(BatchToken), NEW f \in Nat, NEW g \in Nat, f <= g, g <= Len(q),
           NEW u, u = SubSeq(q, f + 1, g)
    PROVE  /\ u \in Seq(BatchToken) /\ Len(u) = g - f
           /\ \A j \in 1 .. Len(u) : f + j \in f + 1 .. g /\ u[j] = q[f + j]
           /\ \A b \in f + 1 .. g : b - f \in 1 .. Len(u) /\ u[b - f] = q[b]
<1>1. u \in Seq(BatchToken) /\ Len(u) = g - f
  OBVIOUS
<1>2. \A j \in 1 .. g - f : f + j \in f + 1 .. g /\ u[j] = q[f + j]
  OBVIOUS
<1>3. \A b \in f + 1 .. g : b - f \in 1 .. g - f /\ f + (b - f) = b
  OBVIOUS
<1> QED BY ONLY <1>1, <1>2, <1>3

\* What is due is in no cell yet, and at one place of the batch.
LEMMA DueIsFresh ==
    ASSUME NEW c, NEW q \in Seq(BatchToken), NEW f \in Nat, NEW g \in Nat, f <= g, g <= Len(q),
           NEW u, u = SubSeq(q, f + 1, g),
           NEW S, \A s \in Slots : SlotIn(c, q, f, s, S[s])
    PROVE  Fresh(u, c)
<1>1. /\ u \in Seq(BatchToken) /\ Len(u) \in Nat
      /\ \A j \in 1 .. Len(u) : f + j \in f + 1 .. g /\ u[j] = q[f + j]
  <2>1. u \in Seq(BatchToken) /\ \A j \in 1 .. Len(u) : f + j \in f + 1 .. g /\ u[j] = q[f + j]
    BY ViewIs
  <2> QED BY <2>1, SMTT(30)
<1>2. ASSUME NEW j \in 1 .. Len(u), NEW s, u[j].seqs = {Seq1(s)}
      PROVE  f + j \in Dues(q, f, s)
  <2>1. f + j \in f + 1 .. g /\ q[f + j].seqs = {Seq1(s)}
    BY <1>1, <1>2
  <2>2. f + j \in f + 1 .. Len(q)
    BY <2>1
  <2> QED BY <2>1, <2>2 DEF Dues
<1>3. ASSUME NEW j \in 1 .. Len(u), NEW l \in 1 .. Len(u),
             u[j].seqs = u[l].seqs, u[j].pos = u[l].pos
      PROVE  j = l
  <2>1. PICK s \in Slots : u[j].seqs = {Seq1(s)}
    <3>1. u[j] \in BatchToken
      BY <1>1, ElementOfSeq
    <3> QED BY <3>1 DEF BatchToken
  <2>2. f + j \in Dues(q, f, s) /\ f + l \in Dues(q, f, s)
    BY <1>2, <1>3, <2>1
  <2>3. q[f + j].pos = q[f + l].pos
    BY <1>1, <1>3
  <2>4. f + j = f + l
    BY <2>2, <2>3 DEF SlotIn, DuesOK
  <2> QED BY ONLY <2>4, f \in Nat, j \in 1 .. Len(u), l \in 1 .. Len(u)
<1>4. ASSUME NEW j \in 1 .. Len(u), NEW s \in Slots, NEW t, u[j].seqs = {Seq1(s)},
             Has(c, s, u[j].pos, t)
      PROVE  FALSE
  <2>1. f + j \in Dues(q, f, s) /\ u[j] = q[f + j]
    BY <1>1, <1>2, <1>4
  <2>2. Active(S[s]) /\ Awaits(q, f, s, u[j].pos)
    BY <2>1 DEF SlotIn, DuesOK, Awaits
  <2>3. u[j].pos \in Nat
    <3>1. u[j] \in BatchToken
      BY <1>1, ElementOfSeq
    <3> QED BY <3>1 DEF BatchToken
  <2> QED BY <1>4, <2>2, <2>3 DEF SlotIn, Holding, HoldsText
<1> QED BY <1>3, <1>4 DEF Fresh

\* A decoded view is the text that was due.
LEMMA DecodeSlot ==
    ASSUME NEW c, NEW d, NEW q \in Seq(BatchToken),
           NEW f \in Nat, NEW g \in Nat, f <= g, g <= Len(q),
           NEW u, u = SubSeq(q, f + 1, g), NEW s \in Slots, NEW sl, SlotIn(c, q, f, s, sl),
           WithAdded(c, d, u, s)
    PROVE  SlotIn(d, q, g, s, sl)
<1> USE DEF WithAdded
<1>1. \A b \in Dues(q, g, s) : b \in Dues(q, f, s) /\ ~(b \in f + 1 .. g)
  <2>1. \A b \in g + 1 .. Len(q) : b \in f + 1 .. Len(q) /\ ~(b \in f + 1 .. g)
    OBVIOUS
  <2> QED BY <2>1 DEF Dues
<1>2. \A b \in Dues(q, f, s) : ~(b \in f + 1 .. g) => b \in Dues(q, g, s)
  <2>1. \A b \in f + 1 .. Len(q) : ~(b \in f + 1 .. g) => b \in g + 1 .. Len(q)
    OBVIOUS
  <2> QED BY <2>1 DEF Dues
<1>3. ASSUME NEW p, NEW t
      PROVE  Adds(u, s, p, t) <=>
                \E b \in Dues(q, f, s) : b \in f + 1 .. g /\ q[b].pos = p /\ q[b].tok = t
  <2>1. /\ \A j \in 1 .. Len(u) : f + j \in f + 1 .. g /\ u[j] = q[f + j]
        /\ \A b \in f + 1 .. g : b - f \in 1 .. Len(u) /\ u[b - f] = q[b]
    BY ViewIs
  <2>2. ASSUME Adds(u, s, p, t)
        PROVE  \E b \in Dues(q, f, s) : b \in f + 1 .. g /\ q[b].pos = p /\ q[b].tok = t
    <3>1. PICK j \in 1 .. Len(u) : u[j].seqs = {Seq1(s)} /\ u[j].pos = p /\ u[j].tok = t
      BY <2>2 DEF Adds
    <3>2. f + j \in f + 1 .. g /\ u[j] = q[f + j]
      BY <2>1
    <3>3. f + j \in f + 1 .. Len(q)
      BY <3>2
    <3> QED BY <3>1, <3>2, <3>3 DEF Dues
  <2>3. ASSUME NEW b \in Dues(q, f, s), b \in f + 1 .. g, q[b].pos = p, q[b].tok = t
        PROVE  Adds(u, s, p, t)
    <3>1. PICK j \in 1 .. Len(u) : u[j] = q[b]
      BY <2>1, <2>3
    <3>2. q[b].seqs = {Seq1(s)}
      BY DEF Dues
    <3>3. u[j].seqs = {Seq1(s)} /\ u[j].pos = p /\ u[j].tok = t
      BY ONLY <2>3, <3>1, <3>2
    <3> QED BY ONLY <3>1, <3>3 DEF Adds
  <2> QED BY <2>2, <2>3
<1>4. DuesOK(q, g, s, sl)
  BY <1>1 DEF SlotIn, DuesOK
<1>5. CASE ~Active(sl)
  <2>1. Dues(q, f, s) = {}
    BY <1>5 DEF SlotIn, DuesOK
  <2>2. \A p, t : Has(d, s, p, t) <=> Has(c, s, p, t)
    BY <2>1, <1>3
  <2>3. Holding(d, q, g, s, sl)
    BY <2>2, <1>5 DEF SlotIn, Holding, HoldsCached
  <2> QED BY <2>3, <1>4 DEF SlotIn
<1>6. CASE Active(sl)
  <2>1. sl.past \in Nat
    BY DEF SlotIn, SlotOK, SlotType
  <2>2. \A b \in Dues(q, f, s) : InText(sl, q[b].pos, q[b].tok)
    <3>1. ASSUME NEW b \in Dues(q, f, s) PROVE InText(sl, q[b].pos, q[b].tok)
      <4>1. q[b].pos \in Nat
        <5>1. b \in 1 .. Len(q)
          BY DEF Dues
        <5>2. q[b] \in BatchToken
          BY <5>1, ElementOfSeq
        <5> QED BY <5>2 DEF BatchToken
      <4>2. q[b].pos < sl.past /\ q[b].tok = sl.seen[q[b].pos + 1]
        BY DEF SlotIn, DuesOK
      <4> QED BY <4>1, <4>2, <2>1 DEF InText
    <3> QED BY <3>1
  <2>3. \A p, t, v : InText(sl, p, t) /\ InText(sl, p, v) => t = v
    BY DEF InText
  <2>4. \A b, e \in Dues(q, f, s) : q[b].pos = q[e].pos => b = e
    BY DEF SlotIn, DuesOK
  <2>5. \A p \in Nat : \A t : Has(c, s, p, t) <=> InText(sl, p, t) /\ ~Awaits(q, f, s, p)
    BY <1>6 DEF SlotIn, Holding, HoldsText
  <2>6. ASSUME NEW p \in Nat, NEW t
        PROVE  Has(d, s, p, t) <=> InText(sl, p, t) /\ ~Awaits(q, g, s, p)
    <3>1. Has(d, s, p, t) <=> (InText(sl, p, t) /\ ~Awaits(q, f, s, p)) \/ Adds(u, s, p, t)
      BY <2>5
    <3>2. ASSUME Awaits(q, g, s, p) PROVE Awaits(q, f, s, p) /\ ~Adds(u, s, p, t)
      <4>1. PICK b \in Dues(q, g, s) : q[b].pos = p
        BY <3>2 DEF Awaits
      <4>2. b \in Dues(q, f, s) /\ ~(b \in f + 1 .. g)
        BY <1>1
      <4>3. ASSUME Adds(u, s, p, t) PROVE FALSE
        <5>1. PICK e \in Dues(q, f, s) : e \in f + 1 .. g /\ q[e].pos = p
          BY <4>3, <1>3
        <5>2. e = b
          BY <4>1, <4>2, <5>1, <2>4
        <5> QED BY <4>2, <5>1, <5>2
      <4> QED BY <4>1, <4>2, <4>3 DEF Awaits
    <3>3. ASSUME Awaits(q, f, s, p), ~Awaits(q, g, s, p), InText(sl, p, t)
          PROVE  Adds(u, s, p, t)
      <4>1. PICK b \in Dues(q, f, s) : q[b].pos = p
        BY <3>3 DEF Awaits
      <4>2. b \in f + 1 .. g
        BY <1>2, <3>3, <4>1 DEF Awaits
      <4>3. q[b].tok = t
        BY <2>2, <2>3, <3>3, <4>1
      <4> QED BY <1>3, <4>1, <4>2, <4>3
    <3>4. Adds(u, s, p, t) => InText(sl, p, t)
      BY <1>3, <2>2
    <3> QED BY ONLY <3>1, <3>2, <3>3, <3>4
  <2>7. Holding(d, q, g, s, sl)
    BY <1>6, <2>6 DEF Holding, HoldsText
  <2> QED BY <2>7, <1>4 DEF SlotIn
<1> QED BY <1>5, <1>6

-----------------------------------------------------------------------------
(* The steps.                                                              *)

\* what is assumed of the use of the server
Plain ==
    \A u \in Uses :
       ~u.early /\ \A j \in 1 .. Len(u.requests) : u.requests[j].system = NoPrompt

\* nothing of the view has been decoded
Whole == call = SubSeq(batch, at + 1, Max(BatchView))

\* What fails for want of room, and is tried again in halves, fails at once: the
\* first ubatches of a view are not decoded a second time.
NeverHalfway == [][NoRoom => Whole]_vars

LEMMA FrontIs ==
    /\ pc \in {"going", "loading"} => Front = 0
    /\ pc = "decode" => Front = at
    /\ pc = "view" => Front = End - Len(call)
    /\ pc = "sample" => Front = End
    /\ pc = "tasks" => Front = Len(batch)
    /\ pc' \in {"going", "loading"} => Front' = 0
    /\ pc' = "decode" => Front' = at'
    /\ pc' = "view" => Front' = End' - Len(call')
    /\ pc' = "sample" => Front' = End'
    /\ pc' = "tasks" => Front' = Len(batch')
BY DEF Front

\* there is no system prompt
LEMMA NoSystem ==
    ASSUME TypeInv
    PROVE  /\ system.update = FALSE /\ system.prompt = <<>> /\ system.tokens = <<>>
           /\ \A sl : sl.past \in Nat => Length(sl) = sl.past
<1>1. system.update = FALSE /\ system.prompt = <<>> /\ system.tokens = <<>>
  BY DEF TypeInv
<1>2. Len(system.tokens) = 0
  BY <1>1
<1> QED BY <1>1, <1>2 DEF Length

\* between two rounds nothing is due
LEMMA RoundOver ==
    ASSUME SlotsInv, pc = "tasks" PROVE \A r \in Slots : Dues(batch, Front, r) = {}
BY FrontIs, NoDues DEF SlotsInv, TypeInv

\* the end of the view
LEMMA ViewEnd ==
    ASSUME TypeInv, at < Len(batch),
           NEW g, g = End
    PROVE  /\ g \in Nat /\ at < g /\ g <= Len(batch) /\ Max(BatchView) = g
           /\ BatchView = at + 1 .. g /\ g - at <= nbatch
<1>1. at \in Nat /\ nbatch \in Nat \ {0} /\ Len(batch) \in Nat
  BY Numbers DEF TypeInv
<1>2. g \in Nat /\ at < g /\ g <= Len(batch) /\ g - at <= nbatch
  BY <1>1 DEF End, KV!Lesser
<1>3. BatchView = at + 1 .. g
  BY DEF BatchView, End
<1>4. Max(BatchView) \in BatchView /\ \A x \in BatchView : x <= Max(BatchView)
  <2>1. BatchView \subseteq 0 .. g /\ BatchView # {}
    BY <1>1, <1>2, <1>3, SMTT(30)
  <2> QED BY <2>1, <1>2, MaxIs
<1>5. g \in BatchView
  BY <1>1, <1>2, <1>3
<1> QED BY <1>1, <1>2, <1>3, <1>4, <1>5

LEMMA InitSlots == Plain /\ Init => SlotsInv
<1> SUFFICES ASSUME Plain, Init PROVE SlotsInv
  OBVIOUS
<1> DEFINE new == [state |-> "idle", command |-> "none", ask |-> NoPrompt, tokens |-> <<>>,
                   past |-> 0, keep |-> 0, cached |-> <<>>, sampled |-> NoTok, last |-> 0,
                   decoded |-> 0, seen |-> <<>>]
<1>1. TypeInv
  <2>1. use \in [requests : Seq(Request), erase : BOOLEAN, early : BOOLEAN] /\ ~use.early
    BY SlotAssumption DEF Init, Plain
  <2>2. use \in [requests : Seq(Request), erase : BOOLEAN, early : {FALSE}]
    BY <2>1
  <2>3. \A j \in 1 .. Len(use.requests) : use.requests[j].system = NoPrompt
    BY DEF Init, Plain
  <2>4. 0 \in Slots /\ nbatch \in 1 .. NBatch /\ at \in Nat
    BY Numbers DEF Init, Slots
  <2>5. batch \in Seq(BatchToken)
    BY EmptySeq DEF Init
  <2>6. slots = [s \in Slots |-> slots[s]]
    BY DEF Init
  <2> QED BY <2>2, <2>3, <2>4, <2>5, <2>6 DEF Init, TypeInv
<1>2. ViewInv /\ CleanInv
  BY DEF Init, ViewInv, CleanInv, Available
<1>3. Good(cache) /\ \A s \in Slots : \A p, t : ~Has(cache, s, p, t)
  <2>1. /\ IsCache(cache)
        /\ cache.pos = [i \in KV!Cells |-> -1] /\ cache.delta = [i \in KV!Cells |-> 0]
        /\ cache.seqs = [i \in KV!Cells |-> {}]
        /\ cache.row = [i \in KV!Cells |-> [tok |-> NoTok, rot |-> 0]]
        /\ cache.hasShift = FALSE /\ cache.doDefrag = FALSE
    BY DEF Init, KV!Init, IsCache, CacheFields
  <2>2. Shaped(cache)
    <3>1. cache.pos \in [KV!Cells -> Int] /\ cache.delta \in [KV!Cells -> Int]
      BY <2>1
    <3>2. cache.seqs \in [KV!Cells -> SUBSET Int]
      BY <2>1
    <3>3. cache.row \in [KV!Cells -> [tok : Toks \cup {NoTok}, rot : Int]]
      BY <2>1
    <3> QED BY <2>1, <3>1, <3>2, <3>3 DEF Shaped
  <2>3. Owned(cache) /\ Rotated(cache) /\ Single(cache)
    BY <2>1 DEF Owned, Rotated, Single
  <2> QED BY <2>1, <2>2, <2>3 DEF Good, Has
<1>4. ASSUME NEW s \in Slots PROVE SlotIn(cache, batch, Front, s, slots[s]) /\ TurnInv(s)
  <2>1. slots[s] = new
    BY DEF Init
  <2> DEFINE sl == slots[s]
  <2>2. /\ sl \in SlotType /\ sl.state = "idle" /\ sl.command = "none"
        /\ sl.tokens = <<>> /\ sl.cached = <<>>
    <3>1. PICK e, g, h : /\ e = <<>> /\ g = <<>> /\ h = <<>>
                         /\ e \in Seq(Toks) /\ g \in Seq(Toks \cup {NoTok})
                         /\ h \in Seq(Toks \cup {NoTok})
      BY EmptySeq
    <3>2. sl = [state |-> "idle", command |-> "none", ask |-> NoPrompt, tokens |-> e,
                past |-> 0, keep |-> 0, cached |-> g, sampled |-> NoTok, last |-> 0,
                decoded |-> 0, seen |-> h]
      BY <2>1, <3>1
    <3> HIDE DEF sl
    <3> QED BY <3>1, <3>2 DEF SlotType
  <2> HIDE DEF sl
  <2>3. ~Active(sl)
    BY <2>2 DEF Active, Working, Loading
  <2>4. SlotOK(sl)
    BY <2>2, <2>3, Numbers DEF SlotOK, Working, Loading, Active
  <2>5. Dues(batch, Front, s) = {}
    <3>1. batch \in Seq(BatchToken) /\ Front = Len(batch)
      BY <1>1, FrontIs DEF TypeInv, Init
    <3> QED BY <3>1, NoDues
  <2>6. DuesOK(batch, Front, s, sl)
    BY <2>5 DEF DuesOK
  <2>7. Holding(cache, batch, Front, s, sl)
    BY <1>3, <2>2, <2>3 DEF Holding, HoldsCached
  <2>8. TurnInv(s)
    BY DEF Init, TurnInv
  <2> QED BY <2>4, <2>6, <2>7, <2>8 DEF SlotIn, sl
<1> QED BY <1>1, <1>2, <1>3, <1>4 DEF SlotsInv

LEMMA LaunchStep == ASSUME SlotsInv, NEW s \in Slots, Launch(s) PROVE SlotsInv'
<1> DEFINE r == Head(use.requests)
<1>1. /\ pc = "tasks" /\ ~clean /\ Available(slots[s]) /\ use.requests \in Seq(Request)
      /\ use.requests # <<>>
  BY DEF SlotsInv, TypeInv, Launch
<1>2. r \in Request /\ r.system = NoPrompt
  <2>1. r = use.requests[1] /\ 1 \in 1 .. Len(use.requests)
    BY <1>1
  <2> QED BY <2>1, <1>1, ElementOfSeq DEF SlotsInv, TypeInv
<1>3. /\ use' = [use EXCEPT !.requests = Tail(use.requests)]
      /\ slots' = [slots EXCEPT ![s] = Launched(slots[s], r)]
      /\ UNCHANGED <<system, cache, call, clean, pc, turn, batch, at, nbatch>>
  BY <1>2 DEF Launch, kv
<1> HIDE DEF r
<1>4. TypeInv'
  <2>1. /\ Tail(use.requests) \in Seq(Request)
        /\ \A j \in 1 .. Len(Tail(use.requests)) :
              j + 1 \in 1 .. Len(use.requests) /\ Tail(use.requests)[j] = use.requests[j + 1]
    BY <1>1
  <2>2. PICK q : q = Tail(use.requests)
    OBVIOUS
  <2>3. /\ use' \in [requests : Seq(Request), erase : BOOLEAN, early : {FALSE}]
        /\ use'.requests = q
    BY <1>3, <2>1, <2>2 DEF SlotsInv, TypeInv
  <2>4. \A j \in 1 .. Len(q) : q[j].system = NoPrompt
    BY <2>1, <2>2 DEF SlotsInv, TypeInv
  <2>5. slots' = [t \in Slots |-> slots'[t]]
    BY <1>3 DEF SlotsInv, TypeInv
  <2> QED BY <1>3, <2>3, <2>4, <2>5 DEF SlotsInv, TypeInv
<1>5. ViewInv' /\ CleanInv' /\ Good(cache')
  BY <1>1, <1>3 DEF SlotsInv, ViewInv, CleanInv
<1>6. Front' = Front
  BY <1>1, <1>3, FrontIs
<1>7. ASSUME NEW t \in Slots
      PROVE  SlotIn(cache', batch', Front', t, slots'[t]) /\ TurnInv(t)'
  <2>1. SlotIn(cache, batch, Front, t, slots[t])
    BY DEF SlotsInv
  <2>2. CASE t = s
    <3>1. slots'[s] = Launched(slots[s], r)
      BY <1>3 DEF SlotsInv, TypeInv
    <3>2. SlotIn(cache, batch, Front, s, Launched(slots[s], r))
      BY <1>1, <1>2, <2>1, <2>2, LaunchSlot
    <3> QED BY <1>1, <1>3, <1>6, <2>2, <3>1, <3>2 DEF TurnInv
  <2>3. CASE t # s
    <3>1. slots'[t] = slots[t]
      BY <1>3, <2>3 DEF SlotsInv, TypeInv
    <3> QED BY <1>1, <1>3, <1>6, <2>1, <3>1 DEF TurnInv
  <2> QED BY <2>2, <2>3
<1> QED BY <1>4, <1>5, <1>7 DEF SlotsInv

LEMMA CancelStep == ASSUME SlotsInv, NEW s \in Slots, Cancel(s) PROVE SlotsInv'
<1>1. /\ pc = "tasks" /\ slots[s].state = "processing"
      /\ slots' = [slots EXCEPT ![s] = Released(slots[s])]
      /\ UNCHANGED <<use, system, cache, call, clean, pc, turn, batch, at, nbatch>>
  BY DEF Cancel, kv
<1>2. TypeInv'
  BY <1>1 DEF SlotsInv, TypeInv
<1>3. ~clean
  BY <1>1 DEF SlotsInv, CleanInv, Available
<1>4. ViewInv' /\ CleanInv' /\ Good(cache')
  BY <1>1, <1>3 DEF SlotsInv, ViewInv, CleanInv
<1>5. Front' = Front
  BY <1>1, FrontIs
<1>6. ASSUME NEW t \in Slots
      PROVE  SlotIn(cache', batch', Front', t, slots'[t]) /\ TurnInv(t)'
  <2>1. SlotIn(cache, batch, Front, t, slots[t])
    BY DEF SlotsInv
  <2>2. CASE t = s
    <3>1. slots'[s] = Released(slots[s])
      BY <1>1 DEF SlotsInv, TypeInv
    <3>2. SlotIn(cache, batch, Front, s, Released(slots[s]))
      BY <1>1, <2>1, <2>2, CancelSlot
    <3> QED BY <1>1, <1>5, <2>2, <3>1, <3>2 DEF TurnInv
  <2>3. CASE t # s
    <3>1. slots'[t] = slots[t]
      BY <1>1, <2>3 DEF SlotsInv, TypeInv
    <3> QED BY <1>1, <1>5, <2>1, <3>1 DEF TurnInv
  <2> QED BY <2>2, <2>3
<1> QED BY <1>2, <1>4, <1>6 DEF SlotsInv

LEMMA EraseStep == ASSUME SlotsInv, NEW s \in Slots, Erase(s) PROVE SlotsInv'
<1>1. /\ pc = "tasks" /\ Available(slots[s])
      /\ cache' = KV!SeqRm(cache, Seq1(s), -1, -1)
      /\ slots' = [slots EXCEPT ![s] = [slots[s] EXCEPT !.cached = <<>>]]
      /\ UNCHANGED <<use, system, call, clean, pc, turn, batch, at, nbatch>>
  BY DEF Erase
<1>2. TypeInv'
  BY <1>1 DEF SlotsInv, TypeInv
<1>3. Front' = Front
  BY <1>1, FrontIs
<1>4. /\ Good(cache')
      /\ \A r \in Slots : \A p, t :
            Has(cache', r, p, t) <=> Has(cache, r, p, t) /\ ~(r = s /\ KV!Within(p, -1, -1))
  <2>1. PICK c, d : c = cache /\ d = cache'
    OBVIOUS
  <2>2. Good(c) /\ -1 \in Int /\ d = KV!SeqRm(c, Seq1(s), -1, -1)
    BY <1>1, <2>1 DEF SlotsInv
  <2>3. /\ Good(d)
        /\ \A r \in Slots : \A p, t :
              Has(d, r, p, t) <=> Has(c, r, p, t) /\ ~(r = s /\ KV!Within(p, -1, -1))
    BY ONLY <2>2, s \in Slots, RmHas
  <2> QED BY <2>1, <2>3
<1>5. \A p, t : ~Has(cache', s, p, t)
  <2>1. \A p \in Nat : KV!Within(p, -1, -1)
    BY DEF KV!Within
  <2>2. \A p, t : Has(cache', s, p, t) => p \in Nat
    BY <1>4, OneToken
  <2> QED BY <1>4, <2>1, <2>2
<1>6. ASSUME NEW t \in Slots
      PROVE  /\ SlotIn(cache', batch', Front', t, slots'[t]) /\ TurnInv(t)'
             /\ Available(slots[t]) => Available(slots'[t])
             /\ slots[t].cached = <<>> => slots'[t].cached = <<>>
  <2>1. SlotIn(cache, batch, Front, t, slots[t])
    BY DEF SlotsInv
  <2>2. CASE t = s
    <3>1. slots'[s] = [slots[s] EXCEPT !.cached = <<>>] /\ slots[s] \in SlotType
      BY <1>1, <2>1, <2>2 DEF SlotsInv, TypeInv, SlotIn, SlotOK
    <3>2. SlotIn(cache', batch, Front, s, [slots[s] EXCEPT !.cached = <<>>])
      BY <1>1, <1>5, <2>1, <2>2, EraseSlot
    <3>3. Available(slots'[s]) /\ slots'[s].cached = <<>>
      BY <1>1, <3>1 DEF Available, SlotType
    <3> QED BY <1>1, <1>3, <2>2, <3>1, <3>2, <3>3 DEF TurnInv
  <2>3. CASE t # s
    <3>1. slots'[t] = slots[t]
      BY <1>1, <2>3 DEF SlotsInv, TypeInv
    <3>2. \A p, u : Has(cache', t, p, u) <=> Has(cache, t, p, u)
      BY <1>4, <2>3
    <3>3. SlotIn(cache', batch, Front, t, slots[t])
      BY <2>1, <3>2, Apart
    <3> QED BY <1>1, <1>3, <3>1, <3>3 DEF TurnInv
  <2> QED BY <2>2, <2>3
<1>7. ViewInv' /\ CleanInv'
  BY <1>1, <1>6 DEF SlotsInv, ViewInv, CleanInv
<1> QED BY <1>2, <1>4, <1>6, <1>7 DEF SlotsInv

LEMMA UpdateStep == ASSUME SlotsInv, Update PROVE SlotsInv'
<1> DEFINE now == [s \in Slots |-> IF slots[s].command = "release"
                      THEN [slots[s] EXCEPT !.state = "idle", !.command = "none"]
                      ELSE slots[s]]
           idle == \A s \in Slots : Available(now[s])
           wipe == idle /\ system.prompt = <<>> /\ clean /\ ~system.update
<1>1. /\ system.update = FALSE /\ system.prompt = <<>>
  BY NoSystem DEF SlotsInv
<1>2. /\ pc = "tasks" /\ slots' = now /\ pc' = (IF idle THEN "tasks" ELSE "going")
      /\ cache' = (IF wipe THEN KV!Clear(cache) ELSE cache)
      /\ clean' = (clean /\ ~wipe)
      /\ turn' = 0 /\ batch' = <<>> /\ UNCHANGED <<system, call, use, at, nbatch>>
  <2> HIDE DEF now, idle
  <2> QED BY <1>1 DEF Update, now, idle
<1>3. clean => wipe /\ \A s \in Slots : now[s] = slots[s]
  BY <1>1 DEF SlotsInv, CleanInv, Available
<1>4. ~clean'
  BY <1>2, <1>3 DEF SlotsInv, TypeInv
<1>5. \A s \in Slots : slots'[s] = now[s]
  BY <1>2
<1>6. \A s \in Slots : now[s] = IF slots[s].command = "release"
                      THEN [slots[s] EXCEPT !.state = "idle", !.command = "none"]
                      ELSE slots[s]
  OBVIOUS
<1>7. slots' = [s \in Slots |-> slots'[s]]
  BY <1>2
<1>8. wipe => clean
  OBVIOUS
<1> HIDE DEF wipe, idle, now
<1>9. TypeInv'
  <2>1. 0 \in Slots
    BY Numbers DEF Slots
  <2>2. batch' \in Seq(BatchToken)
    BY <1>2, EmptySeq
  <2> QED BY <1>2, <1>4, <1>7, <2>1, <2>2 DEF SlotsInv, TypeInv
<1>10. Good(cache') /\ (wipe => \A s \in Slots : \A p, t : ~Has(cache', s, p, t))
  BY <1>2, ClearHas DEF SlotsInv
<1>11. \A s \in Slots : Dues(batch', Front', s) = {}
  <2>1. Front' = Len(batch')
    BY <1>2, FrontIs
  <2> QED BY <2>1, <1>9, NoDues DEF TypeInv
<1>12. ASSUME NEW s \in Slots
       PROVE  SlotIn(cache', batch', Front', s, slots'[s]) /\ TurnInv(s)'
  <2>1. SlotIn(cache, batch, Front, s, slots[s]) /\ Dues(batch, Front, s) = {}
    BY <1>2, RoundOver DEF SlotsInv
  <2>2. SlotIn(cache, batch, Front, s, slots'[s])
    <3>1. CASE slots[s].command = "release"
      <4>1. PICK c, q, f, sl : c = cache /\ q = batch /\ f = Front /\ sl = slots[s]
        OBVIOUS
      <4>2. /\ Good(c) /\ SlotIn(c, q, f, s, sl) /\ Dues(q, f, s) = {}
            /\ sl.command = "release"
        BY <2>1, <3>1, <4>1 DEF SlotsInv
      <4>3. SlotIn(c, q, f, s, [sl EXCEPT !.state = "idle", !.command = "none"])
        BY ONLY <4>2, s \in Slots, FreeSlot
      <4> QED BY <3>1, <4>1, <4>3, <1>5, <1>6
    <3>2. CASE slots[s].command # "release"
      BY <2>1, <3>2, <1>5, <1>6
    <3> QED BY <3>1, <3>2
  <2>3. CASE ~wipe
    <3>1. SlotIn(cache, batch', Front', s, slots'[s])
      <4>1. PICK q, f, sl : q = batch' /\ f = Front' /\ sl = slots'[s]
        OBVIOUS
      <4>2. SlotIn(cache, q, f, s, sl)
        <5>1. Dues(q, f, s) = Dues(batch, Front, s)
          BY <1>11, <2>1, <4>1
        <5> QED BY <2>1, <2>2, <4>1, <5>1, Apart
      <4> QED BY <4>1, <4>2
    <3> QED BY <3>1, <2>3, <1>2, <1>11, FrontIs DEF TurnInv
  <2>4. CASE wipe
    <3>1. slots'[s] = slots[s] /\ Available(slots[s]) /\ slots[s].cached = <<>>
      BY <2>4, <1>3, <1>5, <1>8 DEF SlotsInv, CleanInv
    <3>2. ~Active(slots[s])
      BY <2>1, <3>1 DEF SlotIn, SlotOK, Available, Active, Working, Loading
    <3>3. Holding(cache', batch', Front', s, slots[s])
      BY <2>4, <1>10, <3>1, <3>2 DEF Holding, HoldsCached
    <3>4. DuesOK(batch', Front', s, slots[s])
      BY <1>11 DEF DuesOK
    <3> QED BY <2>1, <3>1, <3>3, <3>4, <1>2, <1>11, FrontIs DEF TurnInv, SlotIn
  <2> QED BY <2>3, <2>4
<1>13. ViewInv' /\ CleanInv'
  BY <1>2, <1>4 DEF ViewInv, CleanInv
<1> QED BY <1>9, <1>10, <1>12, <1>13 DEF SlotsInv

LEMMA TurnIs ==
    ASSUME NEW s \in Slots
    PROVE  /\ (s + 1) % NSlots \in Slots
           /\ s < NSlots - 1 => (s + 1) % NSlots = s + 1
<1>1. s \in Nat /\ s < NSlots /\ NSlots \in Nat \ {0}
  BY Numbers DEF Slots
<1>2. (s + 1) % NSlots \in Slots
  BY ONLY <1>1 DEF Slots
<1>3. s < NSlots - 1 => (s + 1) % NSlots = s + 1
  BY ONLY <1>1
<1> QED BY <1>2, <1>3

\* A slot that needs a context shift generates.
LEMMA ShiftWorks ==
    ASSUME NEW sl, SlotOK(sl), Processing(sl), sl.past >= NCtx - 1 PROVE Working(sl)
<1>1. SUFFICES ASSUME ~Working(sl) PROVE FALSE
  OBVIOUS
<1>2. sl.command = "load" /\ sl.past \in Nat /\ Len(sl.tokens) \in Nat
  BY <1>1 DEF Processing, Working, SlotOK, SlotType
<1>3. CASE sl.tokens = <<>>
  BY <1>2, <1>3, Numbers DEF SlotOK
<1>4. CASE sl.tokens # <<>>
  <2>1. sl.past < Len(sl.tokens) /\ Len(sl.tokens) < NCtx
    BY <1>2, <1>4 DEF SlotOK, Loading
  <2> QED BY <2>1, <1>2, Numbers
<1> QED BY <1>3, <1>4

LEMMA GoStep == ASSUME SlotsInv, NEW s \in Slots, Go(s) PROVE SlotsInv'
<1> DEFINE shift == NeedsShift(slots[s])
           sl    == IF shift THEN ShiftedSlot(slots[s]) ELSE slots[s]
           c     == IF shift THEN ShiftedCache(s) ELSE cache
           tok   == Token(s, sl.past, sl.sampled)
           new   == [sl EXCEPT !.past = sl.past + 1, !.last = Len(batch) + 1,
                        !.cached = IF sl.ask.reuse THEN Append(sl.cached, sl.sampled)
                                   ELSE sl.cached,
                        !.seen = Append(sl.seen, sl.sampled)]
<1>0. /\ SlotIn(cache, batch, 0, s, slots[s]) /\ Dues(batch, 0, s) = {}
      /\ pc = "going" /\ s = turn /\ Good(cache) /\ ~clean
  <2>1. pc = "going" /\ s = turn
    BY DEF Go
  <2>2. SlotIn(cache, batch, Front, s, slots[s]) /\ TurnInv(s) /\ Front = 0
    BY <2>1, FrontIs DEF SlotsInv
  <2>3. ~(s < turn)
    BY <2>1, Numbers DEF Slots
  <2> QED BY <2>1, <2>2, <2>3 DEF TurnInv, SlotsInv, CleanInv
<1>1. slots[s].past \in Nat /\ Length(slots[s]) = slots[s].past /\ SlotOK(slots[s])
  BY <1>0, NoSystem DEF SlotsInv, SlotIn, SlotOK, SlotType
<1>2. shift => Working(slots[s]) /\ slots[s].past >= NCtx - 1
  <2>1. shift => Processing(slots[s]) /\ slots[s].past >= NCtx - 1
    BY <1>1 DEF NeedsShift
  <2> QED BY <2>1, <1>1, ShiftWorks
<1>3. /\ Good(c) /\ SlotIn(c, batch, 0, s, sl)
      /\ sl.state = slots[s].state
      /\ Working(sl) => sl.past <= NCtx - 2
      /\ \A r \in Slots \ {s} : \A p, t : Has(c, r, p, t) <=> Has(cache, r, p, t)
  <2>1. CASE ~shift
    <3>1. sl = slots[s] /\ c = cache
      BY <2>1
    <3>2. Working(slots[s]) => slots[s].past <= NCtx - 2
      <4>1. Working(slots[s]) => ~(slots[s].past >= NCtx - 1)
        BY <2>1, <1>1 DEF NeedsShift, Processing, Working
      <4> QED BY <4>1, <1>1, Numbers
    <3> HIDE DEF sl, c
    <3> QED BY <1>0, <3>1, <3>2
  <2>2. CASE shift
    <3>1. PICK o, k, n, d, v : /\ o = slots[s] /\ k = o.keep + AddBos /\ n = Half(o, k)
                               /\ d = c /\ v = sl
      OBVIOUS
    <3>2. v = WithoutCut(o, k, n)
      BY <2>2, <3>1, <1>1 DEF ShiftedSlot, Discarded, Kept, CutCached, WithoutCut, Half
    <3>3. d = CacheWithoutCut(cache, s, o, k, n)
      BY <2>2, <3>1, <1>1 DEF ShiftedCache, Discarded, Kept, CacheWithoutCut, Half
    <3>4. PICK e : e = cache
      OBVIOUS
    <3>5. PICK q : q = batch
      OBVIOUS
    <3>6. /\ Good(e) /\ SlotIn(e, q, 0, s, o) /\ Dues(q, 0, s) = {}
          /\ Working(o) /\ o.past >= NCtx - 1
          /\ d = CacheWithoutCut(e, s, o, k, n)
      BY <1>0, <1>2, <2>2, <3>1, <3>3, <3>4, <3>5
    <3>7. k = o.keep + AddBos /\ n = Half(o, k)
      BY <3>1
    <3>8. /\ Good(d) /\ SlotIn(d, q, 0, s, v) /\ v.state = o.state /\ v.past <= NCtx - 2
          /\ \A r \in Slots \ {s} : \A p, t : Has(d, r, p, t) <=> Has(e, r, p, t)
      BY ONLY <3>2, <3>6, <3>7, s \in Slots, ShiftSlot
    <3> HIDE DEF sl, c, shift
    <3> QED BY <3>1, <3>4, <3>5, <3>8
  <2> QED BY <2>1, <2>2
<1>4. sl.past \in Nat /\ Length(sl) = sl.past
  <2>1. sl.past \in Nat
    BY <1>3 DEF SlotIn, SlotOK, SlotType
  <2> QED BY <2>1, NoSystem DEF SlotsInv
<1>5. /\ cache' = c
      /\ IF sl.state = "idle" THEN slots' = [slots EXCEPT ![s] = sl] /\ UNCHANGED batch
         ELSE /\ slots' = [slots EXCEPT ![s] = new]
              /\ batch' = Append(batch, tok)
      /\ turn' = (s + 1) % NSlots
      /\ pc' = (IF s = NSlots - 1 THEN "loading" ELSE "going")
      /\ UNCHANGED <<call, use, system, clean, at, nbatch>>
  <2>1. sl.state # "idle" => /\ slots' = [slots EXCEPT ![s] = new]
                             /\ batch' = Append(batch, Token(s, Length(sl), sl.sampled))
    BY DEF Go
  <2>2. tok = Token(s, Length(sl), sl.sampled)
    BY <1>4
  <2> HIDE DEF new, tok
  <2>3. /\ cache' = c
        /\ sl.state = "idle" => slots' = [slots EXCEPT ![s] = sl] /\ UNCHANGED batch
        /\ turn' = (s + 1) % NSlots
        /\ pc' = (IF s = NSlots - 1 THEN "loading" ELSE "going")
        /\ UNCHANGED <<call, use, system, clean, at, nbatch>>
    BY DEF Go
  <2> HIDE DEF sl, c
  <2> QED BY <2>1, <2>2, <2>3
<1> HIDE DEF shift, sl, c, tok, new
<1>6. /\ batch' \in Seq(BatchToken) /\ SlotIn(cache', batch', 0, s, slots'[s])
      /\ Dues(batch', 0, s) # {} => Working(slots'[s])
      /\ slots' = [t \in Slots |-> slots'[t]]
      /\ \A t \in Slots \ {s} : slots'[t] = slots[t]
      /\ \A t \in Slots \ {s} : /\ Dues(batch', 0, t) = Dues(batch, 0, t)
                                /\ \A b \in Dues(batch, 0, t) : batch'[b] = batch[b]
  <2>0. batch \in Seq(BatchToken) /\ slots = [t \in Slots |-> slots[t]]
    BY DEF SlotsInv, TypeInv
  <2>1. CASE sl.state = "idle"
    <3>1. slots' = [slots EXCEPT ![s] = sl] /\ batch' = batch
      BY <1>5, <2>1
    <3>2. slots'[s] = sl
      BY <2>0, <3>1
    <3>3. \A t \in Slots \ {s} : slots'[t] = slots[t]
      BY <2>0, <3>1
    <3> QED BY <1>0, <1>3, <1>5, <2>0, <3>1, <3>2, <3>3
  <2>2. CASE sl.state # "idle"
    <3>1. Working(sl)
      BY <2>2, <1>3 DEF SlotIn, SlotOK, SlotType, Working
    <3>2. PICK q, d, v, b, w : q = batch /\ d = c /\ v = sl /\ b = tok /\ w = new
      OBVIOUS
    <3>3. /\ q \in Seq(BatchToken) /\ SlotIn(d, q, 0, s, v) /\ Dues(q, 0, s) = {}
          /\ Working(v) /\ v.past <= NCtx - 2
          /\ b = Token(s, v.past, v.sampled)
          /\ w = [v EXCEPT !.past = v.past + 1, !.last = Len(q) + 1,
                    !.cached = IF v.ask.reuse THEN Append(v.cached, v.sampled) ELSE v.cached,
                    !.seen = Append(v.seen, v.sampled)]
      BY <1>0, <1>3, <2>0, <3>1, <3>2 DEF tok, new
    <3>4. b \in BatchToken /\ Working(w) /\ SlotIn(d, Append(q, b), 0, s, w)
      BY ONLY <3>3, s \in Slots, AppendSlot
    <3>5. slots' = [slots EXCEPT ![s] = w] /\ batch' = Append(q, b) /\ cache' = d
      BY <1>5, <2>2, <3>2
    <3>6. Append(q, b) \in Seq(BatchToken) /\ Append(q, b) = q \o <<b>>
      BY ONLY <3>3, <3>4
    <3>7. slots'[s] = w /\ \A t \in Slots \ {s} : slots'[t] = slots[t]
      BY <2>0, <3>5
    <3>8. ASSUME NEW t \in Slots \ {s}
          PROVE  /\ Dues(Append(q, b), 0, t) = Dues(q, 0, t)
                 /\ \A e \in Dues(q, 0, t) : Append(q, b)[e] = q[e]
      <4>1. <<b>> \in Seq(BatchToken) /\ \A j \in 1 .. Len(<<b>>) : <<b>>[j] = b
        BY ONLY <3>4
      <4>2. b.seqs # {Seq1(t)}
        <5>1. b.seqs = {Seq1(s)}
          BY <3>3 DEF Token
        <5> QED BY <5>1, Numbers DEF Slots, Seq1
      <4>3. PICK x : x = <<b>>
        OBVIOUS
      <4>4. PICK z : z = q \o x
        OBVIOUS
      <4>5. Dues(z, 0, t) = Dues(q, 0, t) /\ \A e \in Dues(q, 0, t) : z[e] = q[e]
        <5>1. x \in Seq(BatchToken) /\ Foreign(x, t)
          BY <4>1, <4>2, <4>3 DEF Foreign
        <5>2. q \in Seq(BatchToken)
          BY <3>3
        <5>3. PICK f \in Nat : f = 0
          OBVIOUS
        <5>4. SameDues(z, q, f, t)
          BY ONLY <4>4, <5>1, <5>2, <5>3, OthersDues
        <5> QED BY <5>3, <5>4 DEF SameDues
      <4> QED BY <4>3, <4>4, <4>5, <3>6
    <3> QED BY <2>0, <3>2, <3>4, <3>5, <3>6, <3>7, <3>8
  <2> QED BY <2>1, <2>2
<1>7. TypeInv'
  BY <1>5, <1>6, TurnIs DEF SlotsInv, TypeInv
<1>8. Front' = 0
  BY <1>5, FrontIs
<1>9. ASSUME NEW t \in Slots
      PROVE  SlotIn(cache', batch', Front', t, slots'[t]) /\ TurnInv(t)'
  <2>1. CASE t = s
    <3>1. SlotIn(cache', batch', Front', t, slots'[t])
      BY <1>6, <1>8, <2>1
    <3>2. pc' = "going" => s < turn'
      BY <1>5, TurnIs, Numbers DEF Slots
    <3> QED BY <3>1, <3>2, <1>5, <1>6, <2>1 DEF TurnInv
  <2>2. CASE t # s
    <3>1. SlotIn(cache, batch, 0, t, slots[t]) /\ TurnInv(t)
      BY <1>0, FrontIs DEF SlotsInv
    <3>2. \A p, u : Has(cache', t, p, u) <=> Has(cache, t, p, u)
      BY <1>3, <1>5, <2>2
    <3>3. SlotIn(cache', batch', 0, t, slots[t])
      <4>1. PICK d, q : d = cache' /\ q = batch'
        OBVIOUS
      <4>2. SlotIn(d, q, 0, t, slots[t])
        BY <1>6, <2>2, <3>1, <3>2, <4>1, Apart
      <4> QED BY <4>1, <4>2
    <3>4. pc' = "going" => s < turn'
      BY <1>5, TurnIs, Numbers DEF Slots
    <3>5. Dues(batch', 0, t) # {} => t < s /\ Working(slots'[t])
      BY <1>0, <1>6, <2>2, <3>1 DEF TurnInv
    <3>6. pc' = "going" /\ t < s => t < turn'
      BY <3>4, <1>7, Numbers DEF TypeInv, Slots
    <3> QED BY <1>5, <1>6, <1>8, <2>2, <3>3, <3>5, <3>6 DEF TurnInv
  <2> QED BY <2>1, <2>2
<1>10. ViewInv' /\ CleanInv' /\ Good(cache')
  BY <1>0, <1>3, <1>5 DEF ViewInv, CleanInv
<1> QED BY <1>7, <1>9, <1>10 DEF SlotsInv

\* A prompt is loaded as far as the batch has room.
LEMMA LoadOne ==
    ASSUME SlotsInv, NEW s \in Slots, Load(s), slots[s].command = "load",
           ~(s > 0 /\ Len(batch) >= NBatch)
    PROVE  /\ Good(cache') /\ batch' \in Seq(BatchToken)
           /\ SlotIn(cache', batch', 0, s, slots'[s])
           /\ slots' = [t \in Slots |-> slots'[t]]
           /\ \A t \in Slots \ {s} :
                 /\ slots'[t] = slots[t] /\ SameDues(batch', batch, 0, t)
                 /\ \A p, u : Has(cache', t, p, u) <=> Has(cache, t, p, u)
<1> DEFINE sl   == Tokenized(slots[s])
           past == KV!Lesser(Len(sl.tokens), sl.past + KV!Greater(0, NBatch - Len(batch)))
           nw   == SubSeq(sl.tokens, sl.past + 1, past)
           kept == Resized(sl.cached, sl.past)
           done == past = Len(sl.tokens)
<1>0. /\ pc = "loading" /\ s = turn /\ Good(cache) /\ batch \in Seq(BatchToken)
      /\ SlotIn(cache, batch, 0, s, slots[s]) /\ slots = [t \in Slots |-> slots[t]]
  <2>1. pc = "loading" /\ s = turn
    BY DEF Load
  <2> QED BY <2>1, FrontIs DEF SlotsInv, TypeInv
<1>1. Dues(batch, 0, s) = {}
  <2>1. ~Working(slots[s])
    BY <1>0 DEF SlotIn, SlotOK, Working
  <2>2. ~(s < turn)
    BY <1>0, Numbers DEF Slots
  <2> QED BY <1>0, <2>1, <2>2 DEF SlotsInv, TurnInv
<1>2. LoadFrom(cache, s, sl)
  <2>1. PICK c, q, f, o : c = cache /\ q = batch /\ f = 0 /\ o = slots[s]
    OBVIOUS
  <2>2. /\ Good(c) /\ SlotIn(c, q, f, s, o) /\ Dues(q, f, s) = {} /\ o.command = "load"
    BY <1>0, <1>1, <2>1
  <2>3. LoadFrom(c, s, Tokenized(o))
    BY ONLY <2>2, s \in Slots, TokenizedLoads
  <2> QED BY <2>1, <2>3
<1>3. /\ cache' = Removed(s, Length(sl))
      /\ batch' = batch \o [j \in 1 .. Len(nw) |-> Token(s, Length(sl) + j - 1, nw[j])]
      /\ slots' = [slots EXCEPT ![s] =
           [sl EXCEPT !.past = past,
                      !.cached = IF sl.ask.reuse THEN kept \o nw ELSE kept,
                      !.seen = system.tokens \o SubSeq(sl.tokens, 1, past),
                      !.state = IF done THEN "processing" ELSE sl.state,
                      !.command = IF done THEN "none" ELSE sl.command,
                      !.decoded = IF done THEN 0 ELSE sl.decoded,
                      !.last = IF done THEN Len(batch') ELSE sl.last]]
  BY DEF Load
<1>4. PICK o, a : o = sl /\ a = past
  OBVIOUS
<1>5. a \in Nat /\ o.past <= a /\ a <= Len(o.tokens) /\ o.past \in Nat /\ Len(o.tokens) \in Nat
  <2>1. o.past \in Nat /\ Len(o.tokens) \in Nat /\ o.past < Len(o.tokens)
    BY <1>2, <1>4 DEF LoadFrom, SlotType
  <2>2. PICK m : m = KV!Greater(0, NBatch - Len(batch))
    OBVIOUS
  <2>3. m \in Nat
    <3>1. NBatch - Len(batch) \in Int
      BY <1>0, Numbers
    <3> QED BY ONLY <2>2, <3>1 DEF KV!Greater
  <2>4. a = KV!Lesser(Len(o.tokens), o.past + m)
    BY <1>4, <2>2
  <2> QED BY ONLY <2>1, <2>3, <2>4 DEF KV!Lesser
<1>6. Length(o) = o.past /\ system.tokens = <<>>
  BY <1>5, NoSystem DEF SlotsInv
<1> HIDE DEF sl, past
<1>7. /\ nw = SubSeq(o.tokens, o.past + 1, a) /\ Len(nw) = a - o.past
      /\ \A j \in 1 .. a - o.past : nw[j] = o.tokens[o.past + j]
  <2>1. PICK z \in Seq(Toks), b \in Nat : z = o.tokens /\ b = o.past
    BY <1>2, <1>4 DEF LoadFrom, SlotType
  <2>2. PICK x : x = nw
    OBVIOUS
  <2>3. x = SubSeq(z, b + 1, a) /\ b <= a /\ a <= Len(z)
    BY <1>4, <1>5, <2>1, <2>2
  <2>4. z \in Seq(Toks) /\ b \in Nat /\ a \in Nat
    BY <1>5
  <2>5. Len(x) = a - b /\ \A j \in 1 .. a - b : x[j] = z[b + j]
    BY ONLY <2>3, <2>4
  <2>6. nw = SubSeq(o.tokens, o.past + 1, a)
    BY <2>1, <2>2, <2>3
  <2> HIDE DEF nw
  <2> QED BY <2>1, <2>2, <2>5, <2>6
<1> HIDE DEF nw
<1>8. [j \in 1 .. Len(nw) |-> Token(s, Length(o) + j - 1, nw[j])] = Loaded(s, o, a)
  BY <1>6, <1>7 DEF Loaded
<1>9. PICK q, w, v, d, c, new :
         /\ q = batch /\ w = Loaded(s, o, a) /\ v = batch' /\ d = cache' /\ c = cache
         /\ new = [o EXCEPT !.past = a,
                      !.cached = IF o.ask.reuse THEN kept \o nw ELSE kept,
                      !.seen = SubSeq(o.tokens, 1, a),
                      !.state = IF done THEN "processing" ELSE o.state,
                      !.command = IF done THEN "none" ELSE o.command,
                      !.decoded = IF done THEN 0 ELSE o.decoded,
                      !.last = IF done THEN Len(v) ELSE o.last]
  OBVIOUS
<1>10. v = q \o w /\ d = KV!SeqRm(c, Seq1(s), o.past, -1)
  BY <1>3, <1>4, <1>6, <1>8, <1>9 DEF Removed
<1>11. slots' = [slots EXCEPT ![s] = new]
  <2>1. system.tokens \o SubSeq(o.tokens, 1, a) = SubSeq(o.tokens, 1, a)
    <3>1. PICK z \in Seq(Toks) : z = o.tokens
      BY <1>2, <1>4 DEF LoadFrom, SlotType
    <3>2. SubSeq(z, 1, a) \in Seq(Toks)
      BY <1>5, <3>1
    <3> QED BY <1>6, <3>1, <3>2
  <2> HIDE DEF kept, done
  <2> QED BY <1>3, <1>4, <1>9, <2>1
<1>12. w \in Seq(BatchToken) /\ v \in Seq(BatchToken) /\ Len(v) \in Nat
  <2>1. w = [j \in 1 .. a - o.past |-> w[j]]
    BY <1>9 DEF Loaded
  <2>2. ASSUME NEW j \in 1 .. a - o.past PROVE w[j] \in BatchToken
    <3>1. o.past + j - 1 \in Nat /\ o.past + j \in 1 .. Len(o.tokens)
      BY ONLY <1>5, j \in 1 .. a - o.past
    <3>2. o.tokens[o.past + j] \in Toks
      BY <1>2, <1>4, <3>1, ElementOfSeq DEF LoadFrom, SlotType
    <3>3. w[j] = [pos |-> o.past + j - 1, seqs |-> {Seq1(s)}, tok |-> o.tokens[o.past + j]]
      BY <1>9 DEF Loaded, Token
    <3> QED BY ONLY <3>1, <3>2, <3>3, s \in Slots DEF BatchToken
  <2>3. PICK n \in Nat : n = a - o.past
    BY <1>5
  <2>4. PICK T : T = BatchToken
    OBVIOUS
  <2>5. w = [j \in 1 .. n |-> w[j]] /\ \A j \in 1 .. n : w[j] \in T
    BY <2>1, <2>2, <2>3, <2>4
  <2>6. w \in Seq(T)
    BY ONLY <2>3, <2>5, IsSeq
  <2> QED BY <1>0, <1>9, <1>10, <2>4, <2>6
<1>13. LoadedSlot(o, a, Len(v), new)
  <2>1. PICK z \in Nat : z = Len(v)
    BY <1>12
  <2>2. PICK x, y, k, g, n : /\ x = SubSeq(o.tokens, 1, a) /\ k = kept /\ g = done /\ n = nw
                          /\ y = (IF o.ask.reuse THEN k \o n ELSE k)
    OBVIOUS
  <2>3. LoadFrom(c, s, o)
    BY <1>2, <1>4, <1>9
  <2>4. /\ n = SubSeq(o.tokens, o.past + 1, a) /\ k = Resized(o.cached, o.past)
        /\ g = (a = Len(o.tokens))
    BY <1>4, <1>7, <2>2
  <2> HIDE DEF kept, done
  <2>5. new = [o EXCEPT !.past = a, !.cached = y, !.seen = x,
                        !.state = IF g THEN "processing" ELSE o.state,
                        !.command = IF g THEN "none" ELSE o.command,
                        !.decoded = IF g THEN 0 ELSE o.decoded,
                        !.last = IF g THEN z ELSE o.last]
    BY <1>9, <2>1, <2>2
  <2>6. LoadedSlot(o, a, z, new)
    BY ONLY <1>5, <2>1, <2>2, <2>3, <2>4, <2>5, LoadedIs, ZenonT(60)
  <2> QED BY <2>1, <2>6
<1>14. SlotIn(d, v, 0, s, new)
  <2>1. /\ Good(c) /\ q \in Seq(BatchToken) /\ LoadFrom(c, s, o) /\ Dues(q, 0, s) = {}
    BY <1>0, <1>1, <1>2, <1>4, <1>9
  <2>2. w = Loaded(s, o, a)
    BY <1>9
  <2> QED BY ONLY <1>5, <1>10, <1>13, <2>1, <2>2, s \in Slots, LoadSlot
<1>15. /\ Good(d)
       /\ \A r \in Slots : \A p, t :
             Has(d, r, p, t) <=> Has(c, r, p, t) /\ ~(r = s /\ KV!Within(p, o.past, -1))
  <2>1. PICK p0 \in Int, p1 \in Int : p0 = o.past /\ p1 = -1
    BY <1>5
  <2>2. Good(c) /\ d = KV!SeqRm(c, Seq1(s), p0, p1)
    BY <1>0, <1>9, <1>10, <2>1
  <2>3. /\ Good(d)
        /\ \A r \in Slots : \A p, t :
              Has(d, r, p, t) <=> Has(c, r, p, t) /\ ~(r = s /\ KV!Within(p, p0, p1))
    BY ONLY <2>1, <2>2, s \in Slots, RmHas
  <2> QED BY <2>1, <2>3
<1>16. ASSUME NEW t \in Slots \ {s}
       PROVE  SameDues(v, q, 0, t)
  <2>1. Foreign(w, t)
    <3>1. \A j \in 1 .. Len(w) : w[j].seqs = {Seq1(s)}
      <4>1. \A j \in 1 .. Len(w) : j \in 1 .. a - o.past
        <5>1. w = [j \in 1 .. a - o.past |-> w[j]] /\ a - o.past \in Nat
          BY <1>5, <1>9 DEF Loaded
        <5> QED BY <5>1
      <4> QED BY <4>1, <1>9 DEF Loaded, Token
    <3>2. Seq1(s) # Seq1(t)
      BY Numbers DEF Slots, Seq1
    <3> QED BY <3>1, <3>2 DEF Foreign
  <2>2. PICK f \in Nat : f = 0
    OBVIOUS
  <2>3. q \in Seq(BatchToken)
    BY <1>0, <1>9
  <2>4. SameDues(v, q, f, t)
    BY ONLY <1>10, <1>12, <2>1, <2>2, <2>3, OthersDues
  <2> QED BY <2>2, <2>4
<1>17. slots'[s] = new /\ \A t \in Slots \ {s} : slots'[t] = slots[t]
  BY <1>0, <1>11
<1>18. slots' = [t \in Slots |-> slots'[t]]
  BY <1>0, <1>11
<1> QED BY <1>9, <1>12, <1>14, <1>15, <1>16, <1>17, <1>18

LEMMA LoadStep == ASSUME SlotsInv, NEW s \in Slots, Load(s) PROVE SlotsInv'
<1>1. /\ pc = "loading" /\ s = turn /\ turn' = (s + 1) % NSlots
      /\ pc' = (IF s < NSlots - 1 THEN "loading" ELSE IF batch' = <<>> THEN "tasks" ELSE "decode")
      /\ at' = 0 /\ nbatch' = NBatch
      /\ UNCHANGED <<call, use, system, clean>>
  BY DEF Load
<1>2. /\ Good(cache') /\ batch' \in Seq(BatchToken)
      /\ SlotIn(cache', batch', 0, s, slots'[s])
      /\ slots' = [t \in Slots |-> slots'[t]]
      /\ \A t \in Slots \ {s} :
            /\ slots'[t] = slots[t] /\ SameDues(batch', batch, 0, t)
            /\ \A p, u : Has(cache', t, p, u) <=> Has(cache, t, p, u)
  <2>1. CASE slots[s].command = "load" /\ ~(s > 0 /\ Len(batch) >= NBatch)
    BY <2>1, LoadOne
  <2>2. CASE ~(slots[s].command = "load" /\ ~(s > 0 /\ Len(batch) >= NBatch))
    <3>1. UNCHANGED <<cache, slots, batch>>
      BY <2>2 DEF Load
    <3>2. /\ Good(cache) /\ batch \in Seq(BatchToken)
          /\ SlotIn(cache, batch, 0, s, slots[s]) /\ slots = [t \in Slots |-> slots[t]]
      BY <1>1, FrontIs DEF SlotsInv, TypeInv
    <3> QED BY <3>1, <3>2 DEF SameDues
  <2> QED BY <2>1, <2>2
<1>3. TypeInv'
  <2>1. at' \in Nat /\ nbatch' \in 1 .. NBatch
    BY <1>1, Numbers
  <2> QED BY <1>1, <1>2, <2>1, TurnIs DEF SlotsInv, TypeInv
<1>4. Front' = 0
  <2>1. batch' = <<>> => Len(batch') = 0
    OBVIOUS
  <2> QED BY <1>1, <2>1, FrontIs
<1>5. ASSUME NEW t \in Slots
      PROVE  SlotIn(cache', batch', Front', t, slots'[t]) /\ TurnInv(t)'
  <2>1. pc' # "going" /\ (pc' = "loading" => turn' = s + 1)
    BY <1>1, TurnIs
  <2>2. CASE t = s
    <3>1. pc' = "loading" => s < turn'
      BY <2>1, Numbers DEF Slots
    <3> QED BY <1>2, <1>4, <2>1, <2>2, <3>1 DEF TurnInv
  <2>3. CASE t # s
    <3>1. SlotIn(cache, batch, 0, t, slots[t]) /\ TurnInv(t)
      BY <1>1, FrontIs DEF SlotsInv
    <3>2. PICK c, d, q, v, o : c = cache /\ d = cache' /\ q = batch /\ v = batch' /\ o = slots[t]
      OBVIOUS
    <3>3. /\ SlotIn(c, q, 0, t, o) /\ slots'[t] = o /\ SameDues(v, q, 0, t)
          /\ \A p, u : Has(d, t, p, u) <=> Has(c, t, p, u)
      BY <1>2, <2>3, <3>1, <3>2
    <3>4. SlotIn(d, v, 0, t, o)
      <4>1. /\ Dues(v, 0, t) = Dues(q, 0, t)
            /\ \A b \in Dues(q, 0, t) : v[b] = q[b]
        BY <3>3 DEF SameDues
      <4> QED BY ONLY <3>3, <4>1, Apart
    <3>5. Dues(v, 0, t) = Dues(q, 0, t)
      BY <3>3 DEF SameDues
    <3>6. pc' = "loading" /\ t < s => t < turn'
      BY <2>1, Numbers DEF Slots
    <3> QED BY <1>1, <1>4, <2>1, <3>1, <3>2, <3>3, <3>4, <3>5, <3>6 DEF TurnInv
  <2> QED BY <2>2, <2>3
<1>6. ViewInv'
  <2>1. batch' # <<>> => 0 < Len(batch')
    BY <1>2, EmptySeq
  <2> QED BY <1>1, <2>1 DEF ViewInv
<1>7. CleanInv'
  BY <1>1 DEF SlotsInv, CleanInv
<1> QED BY <1>2, <1>3, <1>5, <1>6, <1>7 DEF SlotsInv

-----------------------------------------------------------------------------
(* The decoding.                                                           *)

LEMMA DecodeViewStep == ASSUME SlotsInv, DecodeView PROVE SlotsInv'
<1>1. /\ pc = "decode" /\ pc' = "view" /\ call' = SubSeq(batch, at + 1, Max(BatchView))
      /\ UNCHANGED <<cache, use, slots, system, clean, turn, batch, at, nbatch>>
  BY DEF DecodeView
<1>2. TypeInv /\ at < Len(batch) /\ ~clean /\ Front = at /\ End' = End
  BY <1>1, FrontIs DEF SlotsInv, ViewInv, CleanInv, End, KV!Lesser
<1>3. PICK g : g = End
  OBVIOUS
<1>4. g \in Nat /\ at < g /\ g <= Len(batch) /\ Max(BatchView) = g
  BY <1>2, <1>3, ViewEnd
<1>5. /\ call' = SubSeq(batch, at + 1, g) /\ Len(call') = g - at /\ call' # <<>>
      /\ call' \in Seq(BatchToken)
  <2>1. PICK q, f, u : q = batch /\ f = at /\ u = call'
    OBVIOUS
  <2>2. /\ q \in Seq(BatchToken) /\ f \in Nat /\ g \in Nat /\ f <= g /\ g <= Len(q)
        /\ u = SubSeq(q, f + 1, g)
    BY <1>1, <1>2, <1>4, <2>1 DEF TypeInv
  <2>3. u \in Seq(BatchToken) /\ Len(u) = g - f
    BY ONLY <2>2, ViewIs
  <2>4. Len(u) > 0
    BY <1>4, <2>1, <2>2, <2>3
  <2>5. u # <<>>
    BY ONLY <2>3, <2>4
  <2>6. u = SubSeq(batch, at + 1, g) /\ Len(u) = g - at
    BY <2>1, <2>2, <2>3
  <2> QED BY ONLY <2>1, <2>3, <2>5, <2>6
<1>6. g - (g - at) = at
  BY <1>2, <1>4 DEF TypeInv
<1>7. TypeInv'
  BY <1>1, <1>2 DEF TypeInv
<1>8. ViewInv'
  <2>1. g - at <= g - at
    BY <1>2, <1>4 DEF TypeInv
  <2> QED BY <1>1, <1>2, <1>3, <1>5, <1>6, <2>1 DEF ViewInv
<1>9. CleanInv' /\ Good(cache')
  BY <1>1, <1>2 DEF SlotsInv, CleanInv
<1>10. Front' = Front
  BY <1>1, <1>2, <1>3, <1>5, <1>6, FrontIs
<1>11. ASSUME NEW t \in Slots
       PROVE  SlotIn(cache', batch', Front', t, slots'[t]) /\ TurnInv(t)'
  BY <1>1, <1>10 DEF SlotsInv, TurnInv
<1> QED BY <1>7, <1>8, <1>9, <1>11 DEF SlotsInv

\* the tokens of the view that are still to be decoded
LEMMA ViewCall ==
    ASSUME SlotsInv, pc = "view", NEW g, g = End, NEW f, f = g - Len(call)
    PROVE  /\ batch \in Seq(BatchToken) /\ at \in Nat /\ f \in Nat /\ g \in Nat
           /\ at <= f /\ f < g /\ g <= Len(batch) /\ g - at <= nbatch /\ Max(BatchView) = g
           /\ call = SubSeq(batch, f + 1, g) /\ call \in Seq(BatchToken) /\ Len(call) = g - f
           /\ Front = f /\ ~clean /\ (NBatch <= NUbatch => f = at)
<1>1. /\ TypeInv /\ at < Len(batch) /\ ~clean /\ Front = f /\ batch \in Seq(BatchToken)
      /\ at \in Nat
  BY FrontIs DEF SlotsInv, ViewInv, CleanInv, TypeInv
<1>2. g \in Nat /\ at < g /\ g <= Len(batch) /\ g - at <= nbatch /\ Max(BatchView) = g
  BY <1>1, ViewEnd
<1>3. /\ call = SubSeq(batch, f + 1, g) /\ call # <<>> /\ Len(call) <= g - at
      /\ NBatch <= NUbatch => Len(call) = g - at
  BY DEF SlotsInv, ViewInv
<1>4. call \in Seq(BatchToken) /\ Len(call) \in Nat
  <2>1. call \in Seq(BatchToken)
    BY DEF SlotsInv, ViewInv
  <2> QED BY <2>1
<1>5. Len(call) > 0
  BY <1>3, <1>4, EmptySeq
<1>6. f = g - Len(call)
  OBVIOUS
<1>7. PICK n : n = Len(call)
  OBVIOUS
<1>8. f \in Nat /\ at <= f /\ f < g /\ n = g - f /\ (NBatch <= NUbatch => f = at)
  <2>1. /\ n \in Nat /\ n > 0 /\ n <= g - at /\ (NBatch <= NUbatch => n = g - at)
        /\ f = g - n
    BY <1>3, <1>4, <1>5, <1>6, <1>7
  <2>2. at \in Nat /\ g \in Nat
    BY <1>1, <1>2
  <2> QED BY ONLY <2>1, <2>2
<1> QED BY <1>1, <1>2, <1>3, <1>4, <1>7, <1>8

\* An update, and the search that starts over, leave the tokens where they are.
LEMMA ReadyHas ==
    ASSUME NEW c, Good(c), NEW w, w \in KV!Updates(c), NEW k, NEW d, d = KV!Rewound(w, k)
    PROVE  /\ Good(d) /\ ~d.hasShift
           /\ \A r \in Slots : \A p, t : Has(d, r, p, t) <=> Has(c, r, p, t)
<1>1. /\ Good(w) /\ ~w.hasShift
      /\ \A r \in Slots : \A p, t : Has(w, r, p, t) <=> Has(c, r, p, t)
  BY ShiftedHas
<1>2. SameCells(w, d)
  BY <1>1, RewoundSame
<1>3. Good(d) /\ \A r \in Slots : \A p, t : Has(d, r, p, t) <=> Has(w, r, p, t)
  BY ONLY <1>1, <1>2, SameHas
<1>4. ~d.hasShift
  BY <1>1, <1>2 DEF SameCells
<1> QED BY <1>1, <1>3, <1>4

\* The next ubatch is the beginning of what is left of the view.
LEMMA NextUbatch ==
    ASSUME SlotsInv, pc = "view", NEW g, g = End, NEW f, f = g - Len(call),
           NEW h, h = f + KV!NextLen
    PROVE  /\ h \in Nat /\ f < h /\ h <= g /\ KV!NextLen = h - f
           /\ KV!Ubatch = SubSeq(batch, f + 1, h) /\ KV!Leftover = SubSeq(batch, h + 1, g)
           /\ KV!Leftover \in Seq(BatchToken) /\ Len(KV!Leftover) = g - h
           /\ NBatch <= NUbatch => h = g
<1>1. PICK q, u, n : q = batch /\ u = call /\ n = KV!NextLen
  OBVIOUS
<1>2. /\ q \in Seq(BatchToken) /\ at \in Nat /\ f \in Nat /\ g \in Nat
      /\ at <= f /\ f < g /\ g <= Len(q) /\ g - at <= nbatch
      /\ u = SubSeq(q, f + 1, g) /\ u \in Seq(BatchToken) /\ Len(u) = g - f
  BY <1>1, ViewCall
<1>3. n = KV!Lesser(NUbatch, Len(u))
  BY <1>1 DEF KV!NextLen
<1>4. h = f + n
  BY <1>1
<1>5. n \in Nat /\ h \in Nat /\ f < h /\ h <= g /\ n = h - f /\ n <= Len(u)
  BY ONLY <1>2, <1>3, <1>4, Numbers DEF KV!Lesser
<1>6. NBatch <= NUbatch => h = g
  <2>1. nbatch \in Nat /\ nbatch <= NBatch
    BY Numbers DEF SlotsInv, TypeInv
  <2> QED BY ONLY <2>1, <1>2, <1>3, <1>4, Numbers DEF KV!Lesser
<1>7. SubSeq(u, 1, n) = SubSeq(q, f + 1, h)
  BY ONLY <1>2, <1>5
<1>8. SubSeq(u, n + 1, Len(u)) = SubSeq(q, h + 1, g)
  BY ONLY <1>2, <1>5
<1>9. SubSeq(q, h + 1, g) \in Seq(BatchToken) /\ Len(SubSeq(q, h + 1, g)) = g - h
  BY ONLY <1>2, <1>5
<1> QED BY <1>1, <1>5, <1>6, <1>7, <1>8, <1>9 DEF KV!Ubatch, KV!Leftover

LEMMA DecodeUbatchStep == ASSUME SlotsInv, DecodeUbatch PROVE SlotsInv'
<1>1. /\ pc = "view" /\ KV!DecodeUbatch /\ pc' = (IF call' = <<>> THEN "sample" ELSE "view")
      /\ UNCHANGED <<use, slots, system, clean, turn, batch, at, nbatch>>
  BY DEF DecodeUbatch
<1>2. PICK g, f, h : g = End /\ f = g - Len(call) /\ h = f + KV!NextLen
  OBVIOUS
<1>3. /\ batch \in Seq(BatchToken) /\ at \in Nat /\ f \in Nat /\ g \in Nat
      /\ at <= f /\ f < g /\ g <= Len(batch) /\ Front = f /\ ~clean
  BY <1>1, <1>2, ViewCall
<1>4. /\ h \in Nat /\ f < h /\ h <= g /\ KV!NextLen = h - f
      /\ KV!Ubatch = SubSeq(batch, f + 1, h) /\ KV!Leftover = SubSeq(batch, h + 1, g)
      /\ KV!Leftover \in Seq(BatchToken) /\ Len(KV!Leftover) = g - h
      /\ NBatch <= NUbatch => h = g
  BY <1>1, <1>2, NextUbatch
<1>5. PICK w, c, d :
         /\ w \in KV!Updates(cache)
         /\ c = KV!Rewound(w, KV!NextLen) /\ d = KV!Computed(KV!Placed(c, KV!Ubatch), KV!Ubatch)
         /\ KV!CanPlace(c, KV!NextLen)
         /\ cache' = IF KV!Leftover = <<>> THEN KV!Flagged(d) ELSE d
  BY <1>1 DEF KV!DecodeUbatch
<1>6. cache' = d
  BY <1>5 DEF KV!Flagged, KV!Fragmented
<1>7. call' = KV!Leftover
  BY <1>1 DEF KV!DecodeUbatch
<1>8. PICK q, u, e, S : q = batch /\ u = KV!Ubatch /\ e = cache /\ S = slots
  OBVIOUS
<1>9. /\ q \in Seq(BatchToken) /\ f \in Nat /\ h \in Nat /\ f <= h /\ h <= Len(q)
      /\ u = SubSeq(q, f + 1, h)
      /\ Good(e) /\ \A s \in Slots : SlotIn(e, q, f, s, S[s])
  BY <1>3, <1>4, <1>8 DEF SlotsInv
<1>10. u \in Seq(BatchToken) /\ Len(u) = h - f /\ u # <<>>
  <2>1. u \in Seq(BatchToken) /\ Len(u) = h - f
    BY ONLY <1>9, ViewIs
  <2>2. Len(u) > 0
    BY <2>1, <1>3, <1>4
  <2> QED BY <2>1, <2>2
<1>11. /\ Good(c) /\ ~c.hasShift
       /\ \A r \in Slots : \A p, t : Has(c, r, p, t) <=> Has(e, r, p, t)
  <2>1. PICK k : k = KV!NextLen
    OBVIOUS
  <2>2. w \in KV!Updates(e) /\ c = KV!Rewound(w, k)
    BY <1>5, <1>8, <2>1
  <2> QED BY ONLY <1>9, <2>2, ReadyHas
<1>12. Fresh(u, c)
  <2>1. Fresh(u, e)
    BY ONLY <1>9, DueIsFresh
  <2> QED BY <1>11, <2>1 DEF Fresh
<1>13. Good(d) /\ \A r \in Slots : WithAdded(c, d, u, r)
  <2>1. KV!CanPlace(c, Len(u)) /\ d = KV!Computed(KV!Placed(c, u), u)
    BY <1>4, <1>5, <1>8, <1>10
  <2>2. Placing(c, u, d)
    BY <1>10, <1>12, <2>1 DEF Placing
  <2> QED BY ONLY <1>11, <2>2, PlaceHas
<1>14. ASSUME NEW s \in Slots PROVE SlotIn(d, q, h, s, S[s])
  <2>1. PICK sl : sl = S[s]
    OBVIOUS
  <2>2. SlotIn(e, q, f, s, sl)
    BY <1>9, <2>1
  <2>3. WithAdded(e, d, u, s)
    BY <1>11, <1>13 DEF WithAdded
  <2>4. SlotIn(d, q, h, s, sl)
    BY ONLY <1>9, <2>2, <2>3, s \in Slots, DecodeSlot
  <2> QED BY <2>1, <2>4
<1>15. End' = g /\ g - (g - h) = h
  <2>1. End' = End
    BY <1>1 DEF End, KV!Lesser
  <2> QED BY <1>2, <1>3, <1>4, <2>1
<1>16. call' = <<>> <=> h = g
  <2>1. PICK v : v = call'
    OBVIOUS
  <2>2. v \in Seq(BatchToken) /\ Len(v) = g - h
    BY <1>4, <1>7, <2>1
  <2>3. v = <<>> <=> Len(v) = 0
    BY ONLY <2>2
  <2>4. g - h = 0 <=> h = g
    BY ONLY <1>3, <1>4
  <2> QED BY <2>1, <2>2, <2>3, <2>4
<1>17. TypeInv'
  BY <1>1 DEF SlotsInv, TypeInv
<1>18. ViewInv'
  <2>1. at' < Len(batch')
    BY <1>1, <1>3
  <2>2. ASSUME pc' = "view"
        PROVE  /\ call' \in Seq(BatchToken) /\ call' # <<>> /\ Len(call') <= End' - at'
               /\ call' = SubSeq(batch', (End' - Len(call')) + 1, End')
               /\ NBatch <= NUbatch => Len(call') = End' - at'
    <3>1. call' # <<>> /\ ~(NBatch <= NUbatch)
      BY <1>1, <1>4, <1>16, <2>2
    <3>2. Len(call') = g - h /\ call' \in Seq(BatchToken) /\ call' = SubSeq(batch', h + 1, g)
      BY <1>1, <1>4, <1>7
    <3>3. g - h <= g - at
      BY <1>3, <1>4
    <3> QED BY <1>1, <1>15, <3>1, <3>2, <3>3
  <2> QED BY <2>1, <2>2 DEF ViewInv
<1>19. CleanInv'
  BY <1>1, <1>3 DEF CleanInv
<1>20. Front' = h
  <2>1. CASE call' = <<>>
    BY <1>1, <1>15, <1>16, <2>1, FrontIs
  <2>2. CASE call' # <<>>
    BY <1>1, <1>4, <1>7, <1>15, <2>2, FrontIs
  <2> QED BY <2>1, <2>2
<1>21. ASSUME NEW s \in Slots
       PROVE  SlotIn(cache', batch', Front', s, slots'[s]) /\ TurnInv(s)'
  BY <1>1, <1>6, <1>8, <1>14, <1>20 DEF TurnInv
<1> QED BY <1>6, <1>13, <1>17, <1>18, <1>19, <1>21 DEF SlotsInv

\* A view that fails at once leaves all of the batch behind at to be decoded.
LEMMA NoRoomAt ==
    ASSUME SlotsInv, pc = "view", Whole PROVE Len(call) = End - at /\ Front = at
<1>1. PICK g, f : g = End /\ f = g - Len(call)
  OBVIOUS
<1>2. /\ batch \in Seq(BatchToken) /\ at \in Nat /\ f \in Nat /\ g \in Nat
      /\ at <= f /\ f < g /\ g <= Len(batch) /\ Max(BatchView) = g
      /\ Len(call) = g - f /\ Front = f
  BY <1>1, ViewCall
<1>3. PICK q, a, u : q = batch /\ a = at /\ u = call
  OBVIOUS
<1>4. /\ q \in Seq(BatchToken) /\ a \in Nat /\ g \in Nat /\ a <= g /\ g <= Len(q)
      /\ u = SubSeq(q, a + 1, g)
  BY <1>2, <1>3 DEF Whole
<1>5. Len(u) = g - a
  BY ONLY <1>4, ViewIs
<1> QED BY <1>1, <1>2, <1>3, <1>5

LEMMA OneUbatchWhole == ASSUME SlotsInv, pc = "view", NBatch <= NUbatch PROVE Whole
<1>1. PICK g, f : g = End /\ f = g - Len(call)
  OBVIOUS
<1> QED BY <1>1, ViewCall DEF Whole

\* A view of one token always finds a cell.
LEMMA NoRoomWaits == ASSUME SlotsInv, NoRoom, Whole PROVE nbatch > 1
<1>1. pc = "view" /\ KV!DecodeFull /\ nbatch \in Nat \ {0}
  <2>1. nbatch \in Nat \ {0}
    BY Numbers DEF SlotsInv, TypeInv
  <2> QED BY <2>1 DEF NoRoom
<1>2. SUFFICES ASSUME nbatch = 1 PROVE FALSE
  BY <1>1
<1>3. KV!NextLen = 1
  <2>1. PICK g, f, h : g = End /\ f = g - Len(call) /\ h = f + KV!NextLen
    OBVIOUS
  <2>2. /\ at \in Nat /\ f \in Nat /\ g \in Nat /\ f < g /\ g - at <= nbatch
        /\ h \in Nat /\ f < h /\ h <= g /\ KV!NextLen = h - f /\ at <= f
    BY <1>1, <2>1, ViewCall, NextUbatch
  <2> QED BY ONLY <1>2, <2>2
<1>4. PICK w \in KV!Updates(cache) : ~KV!CanPlace(KV!Rewound(w, 1), 1)
  BY <1>1, <1>3 DEF KV!DecodeFull
<1>5. PICK c, k, d : c = cache /\ k = 1 /\ d = KV!Rewound(w, k)
  OBVIOUS
<1>6. Good(c) /\ w \in KV!Updates(c) /\ d = KV!Rewound(w, k) /\ ~KV!CanPlace(d, 1)
  BY <1>4, <1>5 DEF SlotsInv
<1>7. Good(d) /\ \A r \in Slots : \A p, t : Has(d, r, p, t) <=> Has(c, r, p, t)
  BY ONLY <1>6, ReadyHas
<1>8. \A s \in Slots : \A p, t : Has(c, s, p, t) => p \in 0 .. NCtx - 2
  <2>1. ASSUME NEW s \in Slots PROVE \A p, t : Has(c, s, p, t) => p \in 0 .. NCtx - 2
    <3>1. PICK q, f, sl : q = batch /\ f = Front /\ sl = slots[s]
      OBVIOUS
    <3>2. SlotIn(c, q, f, s, sl)
      BY <1>5, <3>1 DEF SlotsInv
    <3> QED BY ONLY <1>6, <3>2, s \in Slots, WithinShare
  <2> QED BY <2>1
<1> QED BY <1>6, <1>7, <1>8, RoomForOne

LEMMA NoRoomStep == ASSUME SlotsInv, NoRoom, Whole PROVE SlotsInv'
<1>1. /\ pc = "view" /\ KV!DecodeFull /\ pc' = "decode" /\ nbatch' = nbatch \div 2
      /\ UNCHANGED <<use, slots, system, clean, turn, batch, at>> /\ nbatch > 1
  BY NoRoomWaits DEF NoRoom
<1>2. PICK w, d : /\ w \in KV!Updates(cache) /\ d = KV!Rewound(w, KV!NextLen)
                  /\ cache' = KV!Full(d, KV!NextLen)
  BY <1>1 DEF KV!DecodeFull
<1>3. PICK c, k, e : c = cache /\ k = KV!NextLen /\ e = cache'
  OBVIOUS
<1>4. Good(c) /\ w \in KV!Updates(c) /\ d = KV!Rewound(w, k) /\ e = KV!Full(d, k)
  BY <1>2, <1>3 DEF SlotsInv
<1>5. Good(d) /\ \A r \in Slots : \A p, t : Has(d, r, p, t) <=> Has(c, r, p, t)
  BY ONLY <1>4, ReadyHas
<1>6. SameCells(d, e)
  BY <1>4, <1>5, FullSame
<1>7. Good(e) /\ \A r \in Slots : \A p, t : Has(e, r, p, t) <=> Has(d, r, p, t)
  BY ONLY <1>5, <1>6, SameHas
<1>8. Front = at /\ Front' = at /\ at < Len(batch) /\ ~clean
  BY <1>1, FrontIs, NoRoomAt DEF SlotsInv, ViewInv, CleanInv
<1>9. TypeInv'
  <2>1. nbatch' \in 1 .. NBatch
    <3>1. nbatch \in 1 .. NBatch /\ NBatch \in Nat
      BY Numbers DEF SlotsInv, TypeInv
    <3> QED BY ONLY <1>1, <3>1
  <2> QED BY <1>1, <2>1 DEF SlotsInv, TypeInv
<1>10. ViewInv' /\ CleanInv'
  BY <1>1, <1>8 DEF ViewInv, CleanInv
<1>11. ASSUME NEW s \in Slots
       PROVE  SlotIn(cache', batch', Front', s, slots'[s]) /\ TurnInv(s)'
  <2>1. PICK q, f, sl : q = batch /\ f = Front /\ sl = slots[s]
    OBVIOUS
  <2>2. SlotIn(c, q, f, s, sl)
    BY <1>3, <2>1 DEF SlotsInv
  <2>3. \A p, t : Has(e, s, p, t) <=> Has(c, s, p, t)
    BY <1>5, <1>7
  <2>4. SlotIn(e, q, f, s, sl)
    <3>1. Dues(q, f, s) = Dues(q, f, s) /\ \A b \in Dues(q, f, s) : q[b] = q[b]
      OBVIOUS
    <3> QED BY ONLY <2>2, <2>3, <3>1, Apart
  <2> QED BY <1>1, <1>3, <1>8, <2>1, <2>4 DEF TurnInv
<1> QED BY <1>3, <1>7, <1>9, <1>10, <1>11 DEF SlotsInv

LEMMA SampleStep == ASSUME SlotsInv, Sample PROVE SlotsInv'
<1>1. /\ pc = "sample" /\ at' = Max(BatchView)
      /\ pc' = (IF at' = Len(batch) THEN "tasks" ELSE "decode")
      /\ UNCHANGED <<cache, call, use, system, clean, turn, batch, nbatch>>
  BY DEF Sample, kv
<1>2. PICK tok \in [Sampling -> Sampled], ends \in SUBSET Sampling :
        slots' = [s \in Slots |->
           IF s \notin Sampling THEN slots[s]
           ELSE [slots[s] EXCEPT
                   !.sampled = tok[s], !.last = 0, !.decoded = slots[s].decoded + 1,
                   !.command = IF s \in ends \/ Spent(slots[s]) THEN "release"
                               ELSE slots[s].command]]
  BY DEF Sample
<1>3. PICK g : g = End
  OBVIOUS
<1>4. /\ g \in Nat /\ g <= Len(batch) /\ at' = g /\ at \in Nat /\ BatchView = at + 1 .. g
      /\ Front = g /\ ~clean /\ batch \in Seq(BatchToken)
  <2>1. TypeInv /\ at < Len(batch) /\ ~clean /\ at \in Nat /\ batch \in Seq(BatchToken)
    BY <1>1 DEF SlotsInv, ViewInv, CleanInv, TypeInv
  <2>2. Front = g
    BY <1>1, <1>3, FrontIs
  <2> QED BY <1>1, <1>3, <2>1, <2>2, ViewEnd
<1>5. Front' = g
  BY <1>1, <1>4, FrontIs
<1>6. TypeInv'
  <2>1. slots' = [s \in Slots |-> slots'[s]]
    BY <1>2
  <2> QED BY <1>1, <1>4, <2>1 DEF SlotsInv, TypeInv
<1>7. ViewInv' /\ CleanInv'
  <2>1. pc' = "decode" => at' < Len(batch')
    BY <1>1, <1>4
  <2> QED BY <1>1, <1>4, <2>1 DEF ViewInv, CleanInv
<1>8. ASSUME NEW s \in Slots
      PROVE  SlotIn(cache', batch', Front', s, slots'[s]) /\ TurnInv(s)'
  <2>0. PICK c, q, sl : c = cache /\ q = batch /\ sl = slots[s]
    OBVIOUS
  <2>1. SlotIn(c, q, g, s, sl)
    BY <1>4, <2>0 DEF SlotsInv
  <2>2. CASE s \notin Sampling
    <3>1. slots'[s] = sl
      BY <1>2, <2>0, <2>2
    <3> QED BY <1>1, <1>5, <2>0, <2>1, <3>1 DEF TurnInv
  <2>3. CASE s \in Sampling
    <3>1. sl.state = "processing" /\ sl.last \in at + 1 .. g
      BY <1>4, <2>0, <2>3 DEF Sampling
    <3>2. sl.last \in 0 .. g
      BY ONLY <3>1, <1>4
    <3>3. PICK a \in Toks : a = tok[s]
      BY <2>3, SlotAssumption
    <3>4. PICK cmd \in {sl.command, "release"} :
             cmd = IF s \in ends \/ Spent(slots[s]) THEN "release" ELSE slots[s].command
      BY <2>0
    <3>5. PICK new : new = [sl EXCEPT !.sampled = a, !.last = 0, !.decoded = sl.decoded + 1,
                                      !.command = cmd]
      OBVIOUS
    <3>6. slots'[s] = new
      BY <1>2, <2>0, <2>3, <3>3, <3>4, <3>5
    <3>7. q \in Seq(BatchToken) /\ g \in Nat /\ a \in Toks /\ cmd \in {sl.command, "release"}
      BY <1>4, <2>0
    <3>8. SlotIn(c, q, g, s, new)
      BY ONLY <2>1, <3>1, <3>2, <3>5, <3>7, SampleSlot
    <3> QED BY <1>1, <1>5, <2>0, <3>6, <3>8 DEF TurnInv
  <2> QED BY <2>2, <2>3
<1>9. Good(cache')
  BY <1>1 DEF SlotsInv
<1> QED BY <1>6, <1>7, <1>8, <1>9 DEF SlotsInv

-----------------------------------------------------------------------------
(* The theorems.                                                           *)

LEMMA Step == ASSUME SlotsInv, [Next]_vars, NoRoom => Whole PROVE SlotsInv'
<1>1. ASSUME NEW s \in Slots, Launch(s) PROVE SlotsInv'
  BY <1>1, LaunchStep
<1>2. ASSUME NEW s \in Slots, Cancel(s) PROVE SlotsInv'
  BY <1>2, CancelStep
<1>3. ASSUME NEW s \in Slots, Erase(s) PROVE SlotsInv'
  BY <1>3, EraseStep
<1>4. ASSUME NEW s \in Slots, Go(s) PROVE SlotsInv'
  BY <1>4, GoStep
<1>5. ASSUME NEW s \in Slots, Load(s) PROVE SlotsInv'
  BY <1>5, LoadStep
<1>6. CASE Update
  BY <1>6, UpdateStep
<1>7. CASE DecodeView
  BY <1>7, DecodeViewStep
<1>8. CASE DecodeUbatch
  BY <1>8, DecodeUbatchStep
<1>9. CASE NoRoom
  BY <1>9, NoRoomStep
<1>10. CASE Sample
  BY <1>10, SampleStep
<1>11. CASE UNCHANGED vars
  BY <1>11
  DEF vars, kv, SlotsInv, TypeInv, ViewInv, CleanInv, TurnInv, Front, End, KV!Lesser
<1> QED BY <1>1, <1>2, <1>3, <1>4, <1>5, <1>6, <1>7, <1>8, <1>9, <1>10, <1>11 DEF Next

LEMMA Invariant == ASSUME Plain PROVE Spec /\ NeverHalfway => []SlotsInv
<1>1. Init => SlotsInv
  BY InitSlots
<1>2. SlotsInv /\ [Next]_vars /\ [NoRoom => Whole]_vars => SlotsInv'
  <2>1. SUFFICES ASSUME SlotsInv, [Next]_vars, [NoRoom => Whole]_vars PROVE SlotsInv'
    OBVIOUS
  <2>2. CASE UNCHANGED vars
    <3>1. ~NoRoom
      BY <2>2 DEF NoRoom, vars, kv
    <3> QED BY <2>1, <3>1, Step
  <2>3. CASE ~UNCHANGED vars
    BY <2>1, <2>3, Step
  <2> QED BY <2>2, <2>3
<1> QED BY <1>1, <1>2, PTL DEF Spec, NeverHalfway

\* With a batch that fits a ubatch a view cannot fail halfway.
THEOREM OneUbatchNeverHalfway == ASSUME Plain, NBatch <= NUbatch PROVE Spec => NeverHalfway
<1>1. Init => SlotsInv
  BY InitSlots
<1>2. SlotsInv /\ [Next]_vars => SlotsInv' /\ [NoRoom => Whole]_vars
  <2>1. SUFFICES ASSUME SlotsInv, [Next]_vars PROVE SlotsInv' /\ (NoRoom => Whole)
    OBVIOUS
  <2>2. NoRoom => Whole
    BY <2>1, OneUbatchWhole DEF NoRoom
  <2> QED BY <2>1, <2>2, Step
<1> QED BY <1>1, <1>2, PTL DEF Spec, NeverHalfway

\* A token the cache has is in one cell, and its row is where it belongs.
LEMMA HasHolds ==
    ASSUME Good(cache), NEW s \in Slots, NEW p, NEW t, Has(cache, s, p, t)
    PROVE  Holds(Seq1(s), p, t)
<1> DEFINE there == {i \in KV!Cells : Seq1(s) \in cache.seqs[i] /\ cache.pos[i] = p}
<1>1. PICK i \in KV!Cells : Seq1(s) \in cache.seqs[i] /\ cache.pos[i] = p /\ cache.row[i].tok = t
  BY DEF Has
<1>2. there = {i}
  <2>1. \A k \in KV!Cells : Seq1(s) \in cache.seqs[k] /\ cache.pos[k] = p => k = i
    BY <1>1, OwnCell
  <2> QED BY <1>1, <2>1
<1>3. Cardinality(there) = 1
  BY <1>2, FS_Singleton
<1>4. cache.row[i] = [tok |-> t, rot |-> p - cache.delta[i]]
  <2>1. /\ cache.row[i] \in [tok : Toks \cup {NoTok}, rot : Int]
        /\ cache.delta[i] \in Int /\ cache.pos[i] \in Int
        /\ cache.row[i].rot + cache.delta[i] = cache.pos[i]
    BY <1>1 DEF Good, Shaped, Rotated
  <2>2. cache.row[i].rot = p - cache.delta[i]
    BY <1>1, <2>1
  <2> QED BY <1>1, <2>1, <2>2
<1> QED BY <1>2, <1>3, <1>4 DEF Holds

\* What cache_tokens names between two rounds is stored for the slot, so the
\* part of a new prompt that it shares may be skipped.
THEOREM CacheTokensAreStored == ASSUME Plain PROVE Spec /\ NeverHalfway => []CachedIsStored
<1>1. SlotsInv => CachedIsStored
  <2>1. SUFFICES ASSUME SlotsInv, pc = "tasks", NEW s \in Slots,
                        NEW j \in 1 .. Len(slots[s].cached), slots[s].cached[j] # NoTok
                 PROVE  Holds(Seq1(s), Len(system.tokens) + j - 1, slots[s].cached[j])
    BY DEF CachedIsStored
  <2>2. PICK c, q, f, sl : c = cache /\ q = batch /\ f = Front /\ sl = slots[s]
    OBVIOUS
  <2>3. SlotIn(c, q, f, s, sl) /\ Dues(q, f, s) = {}
    BY <2>1, <2>2, RoundOver DEF SlotsInv
  <2>4. j \in 1 .. Len(sl.cached) /\ sl.cached[j] # NoTok
    BY <2>1, <2>2
  <2>5. Has(c, s, j - 1, sl.cached[j])
    BY ONLY <2>3, <2>4, CachedIn
  <2>6. Len(system.tokens) + j - 1 = j - 1
    <3>1. Len(system.tokens) = 0
      BY <2>1, NoSystem DEF SlotsInv
    <3> QED BY <3>1
  <2>7. Holds(Seq1(s), j - 1, slots[s].cached[j])
    BY <2>1, <2>2, <2>5, HasHolds DEF SlotsInv
  <2> QED BY <2>6, <2>7
<1> QED BY <1>1, Invariant, PTL

\* When the logits of a slot are read its sequence holds its text, each token
\* once and at its place, and nothing else.
THEOREM SlotsSeeTheirText == ASSUME Plain PROVE Spec /\ NeverHalfway => []SeesItsText
<1>1. SlotsInv => SeesItsText
  <2>1. SUFFICES ASSUME SlotsInv, pc = "sample", NEW s \in Sampling
                 PROVE  /\ \A p \in 1 .. Len(slots[s].seen) :
                              Holds(Seq1(s), p - 1, slots[s].seen[p])
                        /\ \A i \in KV!Cells :
                              Seq1(s) \in cache.seqs[i] => cache.pos[i] < Len(slots[s].seen)
    BY DEF SeesItsText
  <2>2. PICK c, q, g, sl : c = cache /\ q = batch /\ g = Front /\ sl = slots[s]
    OBVIOUS
  <2>3. s \in Slots /\ Working(sl) /\ Active(sl) /\ sl.last \in BatchView
    BY <2>1, <2>2 DEF Sampling, Working, Active
  <2>4. SlotIn(c, q, g, s, sl) /\ Good(c)
    BY <2>1, <2>2, <2>3 DEF SlotsInv
  <2>5. g \in Nat /\ sl.last <= g /\ sl.last \in Int /\ q \in Seq(BatchToken)
    <3>1. g = End /\ TypeInv /\ at < Len(batch)
      BY <2>1, <2>2, FrontIs DEF SlotsInv, ViewInv
    <3>2. g \in Nat /\ BatchView = at + 1 .. g
      BY <3>1, ViewEnd
    <3> QED BY <2>2, <2>3, <3>1, <3>2 DEF TypeInv
  <2>6. Dues(q, g, s) = {}
    <3>1. \A b \in Dues(q, g, s) : b <= sl.last
      BY <2>3, <2>4 DEF SlotIn, DuesOK
    <3>2. \A b \in Dues(q, g, s) : b \in Int /\ b > g
      BY <2>5 DEF Dues
    <3> QED BY <2>5, <3>1, <3>2
  <2>7. \A p \in Nat : \A t : Has(c, s, p, t) <=> InText(sl, p, t)
    BY ONLY <2>3, <2>4, <2>6, TextIsIn
  <2>8. Len(sl.seen) = sl.past /\ sl.past \in Nat
    BY <2>3, <2>4 DEF SlotIn, SlotOK, SlotFits, SlotType
  <2>9. ASSUME NEW p \in 1 .. Len(slots[s].seen)
        PROVE  Holds(Seq1(s), p - 1, slots[s].seen[p])
    <3>1. p - 1 \in Nat /\ p - 1 \in 0 .. sl.past - 1 /\ (p - 1) + 1 = p
      BY <2>2, <2>8
    <3>2. Has(c, s, p - 1, sl.seen[p])
      BY <2>7, <3>1 DEF InText
    <3> QED BY <2>2, <2>3, <2>4, <3>2, HasHolds
  <2>10. ASSUME NEW i \in KV!Cells, Seq1(s) \in cache.seqs[i]
         PROVE  cache.pos[i] < Len(slots[s].seen)
    <3>1. PICK p, t : p = c.pos[i] /\ t = c.row[i].tok
      OBVIOUS
    <3>2. Has(c, s, p, t)
      BY <2>2, <2>10, <3>1 DEF Has
    <3>3. p \in Nat
      BY <2>3, <2>4, <3>2, OneToken
    <3>4. p \in 0 .. sl.past - 1
      BY <2>7, <3>2, <3>3 DEF InText
    <3> QED BY <2>2, <2>8, <3>1, <3>4
  <2> QED BY <2>9, <2>10
<1> QED BY <1>1, Invariant, PTL

\* A view of one token finds a cell: "KV cache is full" is never reported,
\* whatever the slots hold.
THEOREM RoomForAToken == ASSUME Plain PROVE Spec /\ NeverHalfway => AlwaysRoom
<1>1. SlotsInv /\ [NoRoom => Whole]_vars => [NoRoom => nbatch > 1]_vars
  BY NoRoomWaits
<1> QED BY <1>1, Invariant, PTL DEF NeverHalfway, AlwaysRoom

=============================================================================
