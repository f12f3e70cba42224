---------------------------- MODULE KVCache_proofs ----------------------------
(***************************************************************************)
(* Proofs about KVCache, for every size of the cache, every set of         *)
(* sequences and tokens, every n_ubatch, and whatever batches, ranges and  *)
(* shifts a caller uses.                                                   *)
(*                                                                         *)
(* Each operation on the cells has a lemma: it takes a sound cache to a    *)
(* sound cache.  The steps of Next then follow from the lemmas.            *)
(***************************************************************************)
EXTENDS KVState, KVLayout_proofs

-----------------------------------------------------------------------------
(* The operations.                                                         *)

\* TypeOK and UsedExact, of one cache: what the operations keep.
Sound(c) ==
    /\ c \in Cache
    /\ Live(c) = Taken(c)
    /\ \A i \in Cells : c.pos[i] >= -1
    /\ c.used = Cardinality(Live(c))

\* RowsCoherent, of one cache.
Rooted(c) ==
    /\ \A i \in Live(c) : /\ c.row[i].tok \in Toks
                          /\ c.row[i].rot + c.delta[i] = c.pos[i]
    /\ ~c.hasShift => \A i \in Cells : c.delta[i] = 0

\* An operation that moves neither rows nor positions keeps them together.
LEMMA RowsKept ==
    ASSUME NEW c, Rooted(c), NEW d,
           d.row = c.row, d.delta = c.delta, d.hasShift = c.hasShift,
           Live(d) \subseteq Live(c), \A i \in Live(d) : d.pos[i] = c.pos[i]
    PROVE  Rooted(d)
BY DEF Rooted

\* Taking cells from the live ones and from `used` keeps them equal.
LEMMA Release ==
    ASSUME NEW c, Sound(c), NEW freed \in SUBSET Live(c)
    PROVE  /\ c.used - Cardinality(freed) = Cardinality(Live(c) \ freed)
           /\ c.used - Cardinality(freed) \in 0 .. Size
<1>1. Live(c) \in SUBSET Cells /\ Live(c) \ freed \in SUBSET Cells
  BY DEF Live
<1>2. IsFiniteSet(Live(c)) /\ Cardinality(Live(c) \ freed) \in 0 .. Size
  BY <1>1, CellsFinite
<1>3. Live(c) \cap freed = freed
  OBVIOUS
<1>4. Cardinality(Live(c) \ freed) = Cardinality(Live(c)) - Cardinality(freed)
  BY <1>2, <1>3, FS_Difference
<1> QED BY <1>2, <1>4 DEF Sound

\* head stays in range when it moves back to a freed cell.
LEMMA HeadFreed ==
    ASSUME NEW c \in Cache, NEW freed \in SUBSET Cells
    PROVE  HeadAfterFree(c, freed) \in 0 .. Size
<1>1. freed \subseteq 0 .. Size
  BY LayoutAssumption DEF Cells
<1>2. freed # {} => Least(freed) \in 0 .. Size
  BY <1>1, LeastIsLeast, LayoutAssumption
<1> QED BY <1>2 DEF HeadAfterFree, Cache

LEMMA ClearSound ==
    ASSUME NEW c, Sound(c)
    PROVE  Sound(Clear(c)) /\ (Rooted(c) => Rooted(Clear(c)))
<1> DEFINE pos  == [i \in Cells |-> -1]
           seqs == [i \in Cells |-> {}]
           row  == [i \in Cells |-> [tok |-> NoTok, rot |-> 0]]
           d == Clear(c)
<1>1. c \in Cache
  BY DEF Sound
<1>2. d = [c EXCEPT !.pos = pos, !.seqs = seqs, !.row = row, !.head = 0, !.used = 0]
  BY DEF Clear
<1>3. /\ pos \in [Cells -> Int] /\ seqs \in [Cells -> SUBSET Seqs]
      /\ row \in [Cells -> Row] /\ 0 \in 0 .. Size
  BY LayoutAssumption DEF Row
<1>4. \A i \in Cells : pos[i] = -1 /\ seqs[i] = {}
  OBVIOUS
<1> HIDE DEF pos, seqs, row, d
<1>5. /\ d \in Cache /\ d.pos = pos /\ d.seqs = seqs /\ d.used = 0
      /\ d.delta = c.delta /\ d.hasShift = c.hasShift
  BY <1>1, <1>2, <1>3 DEF Cache
<1>6. Live(d) = {} /\ Taken(d) = {} /\ \A i \in Cells : d.pos[i] >= -1
  BY <1>4, <1>5 DEF Live, Taken
<1>7. Rooted(c) => Rooted(d)
  BY <1>5, <1>6 DEF Rooted
<1> QED BY <1>5, <1>6, <1>7, FS_EmptySet DEF Sound, d

LEMMA SeqRmSound ==
    ASSUME NEW c, Sound(c), NEW s \in Seqs \cup {AnySeq}, NEW p0 \in Int, NEW p1 \in Int
    PROVE  Sound(SeqRm(c, s, p0, p1)) /\ (Rooted(c) => Rooted(SeqRm(c, s, p0, p1)))
<1> DEFINE hit == {i \in Cells : /\ Within(c.pos[i], p0, p1)
                                 /\ s = AnySeq \/ s \in c.seqs[i]}
           left == [i \in Cells |-> IF i \notin hit THEN c.seqs[i]
                                    ELSE IF s = AnySeq THEN {}
                                    ELSE c.seqs[i] \ {s}]
           freed == {i \in hit : left[i] = {}}
           pos == [i \in Cells |-> IF i \in freed THEN -1 ELSE c.pos[i]]
           used == c.used - Cardinality(freed)
           head == HeadAfterFree(c, freed)
           d == SeqRm(c, s, p0, p1)
<1>1. c \in Cache
  BY DEF Sound
<1>2. d = [c EXCEPT !.seqs = left, !.pos = pos, !.used = used, !.head = head]
  BY DEF SeqRm
<1>3. freed \in SUBSET Live(c)
  BY DEF Sound, Within, Taken, Cache
<1>4. left \in [Cells -> SUBSET Seqs]
  BY <1>1 DEF Cache
<1>5. pos \in [Cells -> Int]
  BY <1>1 DEF Cache
<1>6. head \in 0 .. Size
  BY <1>1, HeadFreed
<1>7. used = Cardinality(Live(c) \ freed) /\ used \in 0 .. Size
  BY <1>3, Release
<1>8. \A i \in Cells : /\ left[i] # {} <=> i \in Live(c) \ freed
                       /\ pos[i] >= 0 <=> i \in Taken(c) \ freed
                       /\ pos[i] >= -1
                       /\ i \notin freed => pos[i] = c.pos[i]
  BY <1>1, <1>3 DEF Live, Taken, Sound, Cache
<1> HIDE DEF left, freed, pos, used, head, d
<1>9. /\ d \in Cache /\ d.pos = pos /\ d.seqs = left /\ d.used = used
      /\ d.row = c.row /\ d.delta = c.delta /\ d.hasShift = c.hasShift
  BY <1>1, <1>2, <1>4, <1>5, <1>6, <1>7 DEF Cache
<1>10. Live(d) = Live(c) \ freed /\ Taken(d) = Taken(c) \ freed
  BY <1>8, <1>9 DEF Live, Taken
<1>11. Rooted(c) => Rooted(d)
  BY <1>8, <1>9, <1>10, RowsKept DEF Live
<1> QED BY <1>7, <1>8, <1>9, <1>10, <1>11 DEF Sound, d

LEMMA SeqCpSound ==
    ASSUME NEW c, Sound(c), NEW src \in Seqs, NEW dst \in Seqs, NEW p0 \in Int, NEW p1 \in Int
    PROVE  Sound(SeqCp(c, src, dst, p0, p1)) /\ (Rooted(c) => Rooted(SeqCp(c, src, dst, p0, p1)))
<1> DEFINE seqs == [i \in Cells |->
                      IF src \in c.seqs[i] /\ Within(c.pos[i], p0, p1)
                      THEN c.seqs[i] \cup {dst} ELSE c.seqs[i]]
           d == SeqCp(c, src, dst, p0, p1)
<1>1. c \in Cache
  BY DEF Sound
<1>2. d = [c EXCEPT !.seqs = seqs, !.head = 0]
  BY DEF SeqCp
<1>3. seqs \in [Cells -> SUBSET Seqs] /\ 0 \in 0 .. Size
  BY <1>1, LayoutAssumption DEF Cache
<1>4. \A i \in Cells : seqs[i] # {} <=> c.seqs[i] # {}
  OBVIOUS
<1> HIDE DEF seqs, d
<1>5. /\ d \in Cache /\ d.pos = c.pos /\ d.seqs = seqs /\ d.used = c.used
      /\ d.row = c.row /\ d.delta = c.delta /\ d.hasShift = c.hasShift
  BY <1>1, <1>2, <1>3 DEF Cache
<1>6. Live(d) = Live(c) /\ Taken(d) = Taken(c)
  BY <1>4, <1>5 DEF Live, Taken
<1>7. Rooted(c) => Rooted(d)
  BY <1>5, <1>6, RowsKept
<1> QED BY <1>5, <1>6, <1>7 DEF Sound, d

LEMMA SeqKeepSound ==
    ASSUME NEW c, Sound(c), NEW s \in Seqs
    PROVE  Sound(SeqKeep(c, s)) /\ (Rooted(c) => Rooted(SeqKeep(c, s)))
<1> DEFINE drop == {i \in Cells : s \notin c.seqs[i]}
           seqs == [i \in Cells |-> IF i \in drop THEN {} ELSE {s}]
           pos  == [i \in Cells |-> IF i \in drop THEN -1 ELSE c.pos[i]]
           used == c.used - CountsTaken(c, drop)
           head == HeadAfterFree(c, drop)
           freed == drop \cap Taken(c)
           d == SeqKeep(c, s)
<1>1. c \in Cache
  BY DEF Sound
<1>2. d = [c EXCEPT !.seqs = seqs, !.pos = pos, !.used = used, !.head = head]
  BY DEF SeqKeep
<1>3. seqs \in [Cells -> SUBSET Seqs] /\ pos \in [Cells -> Int]
  BY <1>1 DEF Cache
<1>4. head \in 0 .. Size
  BY <1>1, HeadFreed
<1>5. freed \in SUBSET Live(c)
  BY DEF Sound
<1>6. used = Cardinality(Live(c) \ freed) /\ used \in 0 .. Size
  BY <1>5, Release DEF CountsTaken
<1>7. \A i \in Cells : /\ seqs[i] # {} <=> i \in Live(c) \ freed
                       /\ pos[i] >= 0 <=> i \in Taken(c) \ freed
                       /\ pos[i] >= -1
                       /\ seqs[i] # {} => pos[i] = c.pos[i]
  <2>1. \A i \in Cells : i \notin drop => i \in Live(c)
    BY <1>1 DEF Live
  <2>2. Live(c) = Taken(c)
    BY DEF Sound
  <2> QED BY <1>1, <2>1, <2>2 DEF Taken, Sound, Cache
<1> HIDE DEF seqs, pos, used, head, freed, d
<1>8. /\ d \in Cache /\ d.pos = pos /\ d.seqs = seqs /\ d.used = used
      /\ d.row = c.row /\ d.delta = c.delta /\ d.hasShift = c.hasShift
  BY <1>1, <1>2, <1>3, <1>4, <1>6 DEF Cache
<1>9. Live(d) = Live(c) \ freed /\ Taken(d) = Taken(c) \ freed
  BY <1>7, <1>8 DEF Live, Taken
<1>10. Rooted(c) => Rooted(d)
  BY <1>7, <1>8, <1>9, RowsKept DEF Live
<1> QED BY <1>6, <1>7, <1>8, <1>9, <1>10 DEF Sound, d

LEMMA SeqAddSound ==
    ASSUME NEW c, Sound(c), NEW s \in Seqs, NEW p0 \in Int, NEW p1 \in Int, NEW n \in Int
    PROVE  Sound(SeqAdd(c, s, p0, p1, n)) /\ (Rooted(c) => Rooted(SeqAdd(c, s, p0, p1, n)))
<1> DEFINE hit   == {i \in Cells : s \in c.seqs[i] /\ Within(c.pos[i], p0, p1)}
           freed == {i \in hit : c.pos[i] + n < 0}
           pos   == [i \in Cells |-> IF i \in freed THEN -1
                                     ELSE IF i \in hit THEN c.pos[i] + n
                                     ELSE c.pos[i]]
           delta == [i \in Cells |-> IF i \in hit THEN c.delta[i] + n ELSE c.delta[i]]
           seqs  == [i \in Cells |-> IF i \in freed THEN {} ELSE c.seqs[i]]
           used  == c.used - Cardinality(freed)
           head  == IF freed # {} THEN Least(freed) ELSE 0
           shift == c.hasShift \/ hit # {}
           d == [c EXCEPT !.pos = pos, !.delta = delta, !.seqs = seqs,
                          !.used = used, !.head = head, !.hasShift = shift]
<1>1. c \in Cache
  BY DEF Sound
<1>2. Sound(d) /\ (Rooted(c) => Rooted(d))
  <2>1. /\ seqs \in [Cells -> SUBSET Seqs] /\ pos \in [Cells -> Int]
        /\ delta \in [Cells -> Int] /\ shift \in BOOLEAN
    BY <1>1 DEF Cache
  <2>2. head \in 0 .. Size
    <3>1. freed \subseteq 0 .. Size
      BY LayoutAssumption DEF Cells
    <3>2. freed # {} => Least(freed) \in 0 .. Size
      BY <3>1, LeastIsLeast, LayoutAssumption
    <3> QED BY <3>2, LayoutAssumption
  <2>3. freed \in SUBSET Live(c)
    BY DEF Live
  <2>4. used = Cardinality(Live(c) \ freed) /\ used \in 0 .. Size
    BY <2>3, Release
  <2>5. \A i \in Cells : /\ seqs[i] # {} <=> i \in Live(c) \ freed
                         /\ pos[i] >= 0 <=> i \in Taken(c) \ freed
                         /\ pos[i] >= -1
                         /\ i \notin freed => pos[i] - c.pos[i] = delta[i] - c.delta[i]
                         /\ ~shift => delta[i] = c.delta[i]
    <3>1. \A i \in Cells : i \in hit => i \in Taken(c)
      BY DEF Within, Taken
    <3> QED BY <1>1, <3>1 DEF Live, Taken, Sound, Cache
  <2> HIDE DEF seqs, pos, delta, shift, used, head, freed
  <2>6. /\ d \in Cache /\ d.pos = pos /\ d.seqs = seqs /\ d.used = used
        /\ d.row = c.row /\ d.delta = delta /\ d.hasShift = shift
    BY <1>1, <2>1, <2>2, <2>4 DEF Cache
  <2> HIDE DEF d
  <2>7. Live(d) = Live(c) \ freed /\ Taken(d) = Taken(c) \ freed
    BY <2>5, <2>6 DEF Live, Taken
  <2>8. Live(c) = Taken(c)
    BY DEF Sound
  <2>9. ASSUME Rooted(c) PROVE Rooted(d)
    <3>1. ASSUME NEW i \in Live(d)
          PROVE  c.row[i].tok \in Toks /\ c.row[i].rot + delta[i] = pos[i]
      <4>1. i \in Cells /\ i \in Live(c) /\ pos[i] - c.pos[i] = delta[i] - c.delta[i]
        BY <2>5, <2>7 DEF Live
      <4>2. c.row[i].rot \in Int /\ {c.pos[i], c.delta[i], pos[i], delta[i]} \subseteq Int
        BY <1>1, <2>1, <4>1 DEF Cache, Row
      <4> QED BY <2>9, <4>1, <4>2 DEF Rooted
    <3>2. ~shift => \A i \in Cells : delta[i] = 0
      <4>1. ~shift => ~c.hasShift
        BY DEF shift
      <4> QED BY <2>5, <2>9, <4>1 DEF Rooted
    <3> QED BY <2>6, <3>1, <3>2 DEF Rooted
  <2> QED BY <2>4, <2>5, <2>6, <2>7, <2>8, <2>9 DEF Sound
<1>3. SeqAdd(c, s, p0, p1, n) \in {c, d}
  BY DEF SeqAdd
<1> QED BY <1>2, <1>3

LEMMA SeqDivSound ==
    ASSUME NEW c, Sound(c), NEW s \in Seqs, NEW p0 \in Int, NEW p1 \in Int, NEW n \in Nat \ {0}
    PROVE  Sound(SeqDiv(c, s, p0, p1, n)) /\ (Rooted(c) => Rooted(SeqDiv(c, s, p0, p1, n)))
<1> DEFINE hit   == {i \in Cells : s \in c.seqs[i] /\ Within(c.pos[i], p0, p1)}
           pos   == [i \in Cells |-> IF i \in hit THEN c.pos[i] \div n ELSE c.pos[i]]
           delta == [i \in Cells |-> IF i \in hit
                                     THEN c.delta[i] + c.pos[i] \div n - c.pos[i]
                                     ELSE c.delta[i]]
           shift == c.hasShift \/ hit # {}
           d == SeqDiv(c, s, p0, p1, n)
<1>1. c \in Cache
  BY DEF Sound
<1>2. d = [c EXCEPT !.pos = pos, !.delta = delta, !.hasShift = shift]
  BY DEF SeqDiv
<1>3. \A x \in Nat : x \div n \in Nat
  OBVIOUS
<1>4. \A i \in hit : c.pos[i] \in Nat
  BY <1>1 DEF Within, Cache
<1>5. pos \in [Cells -> Int] /\ delta \in [Cells -> Int] /\ shift \in BOOLEAN
  BY <1>1, <1>3, <1>4 DEF Cache
<1>6. \A i \in Cells : /\ (pos[i] >= 0 <=> c.pos[i] >= 0) /\ pos[i] >= -1
                       /\ pos[i] - c.pos[i] = delta[i] - c.delta[i]
                       /\ ~shift => delta[i] = c.delta[i]
  <2>1. SUFFICES ASSUME NEW i \in Cells
                 PROVE  /\ (pos[i] >= 0 <=> c.pos[i] >= 0) /\ pos[i] >= -1
                        /\ pos[i] - c.pos[i] = delta[i] - c.delta[i]
                        /\ ~shift => delta[i] = c.delta[i]
    OBVIOUS
  <2>2. c.pos[i] \in Int /\ c.delta[i] \in Int /\ c.pos[i] >= -1
    BY <1>1 DEF Cache, Sound
  <2>3. CASE i \in hit
    <3>1. c.pos[i] \in Nat
      BY <1>4, <2>3
    <3>2. PICK q \in Nat : pos[i] = q /\ delta[i] = c.delta[i] + q - c.pos[i]
      <4>1. pos[i] = c.pos[i] \div n /\ delta[i] = c.delta[i] + c.pos[i] \div n - c.pos[i]
        BY <2>3
      <4> QED BY <1>3, <3>1, <4>1
    <3>3. shift
      BY <2>3
    <3>4. (pos[i] >= 0 <=> c.pos[i] >= 0) /\ pos[i] >= -1
      BY <3>1, <3>2
    <3>5. pos[i] - c.pos[i] = delta[i] - c.delta[i]
      BY <2>2, <3>2
    <3>6. ~shift => delta[i] = c.delta[i]
      BY <3>3
    <3> HIDE DEF pos, delta, shift
    <3> QED BY <3>4, <3>5, <3>6
  <2>4. CASE i \notin hit
    <3>1. pos[i] = c.pos[i] /\ delta[i] = c.delta[i]
      BY <2>4
    <3> HIDE DEF pos, delta, shift
    <3> QED BY <2>2, <3>1
  <2> QED BY <2>3, <2>4
<1> HIDE DEF pos, delta, shift, d
<1>7. /\ d \in Cache /\ d.pos = pos /\ d.seqs = c.seqs /\ d.used = c.used
      /\ d.row = c.row /\ d.delta = delta /\ d.hasShift = shift
  BY <1>1, <1>2, <1>5 DEF Cache
<1>8. Live(d) = Live(c) /\ Taken(d) = Taken(c)
  BY <1>6, <1>7 DEF Live, Taken
<1>9. ASSUME Rooted(c) PROVE Rooted(d)
  <2>1. ASSUME NEW i \in Live(d)
        PROVE  c.row[i].tok \in Toks /\ c.row[i].rot + delta[i] = pos[i]
    <3>1. i \in Cells /\ i \in Live(c) /\ pos[i] - c.pos[i] = delta[i] - c.delta[i]
      BY <1>6, <1>8 DEF Live
    <3>2. c.row[i].rot \in Int /\ {c.pos[i], c.delta[i], pos[i], delta[i]} \subseteq Int
      BY <1>1, <1>5, <3>1 DEF Cache, Row
    <3> QED BY <1>9, <3>1, <3>2 DEF Rooted
  <2>2. ~shift => \A i \in Cells : delta[i] = 0
    <3>1. ~shift => ~c.hasShift
      BY DEF shift
    <3> QED BY <1>6, <1>9, <3>1 DEF Rooted
  <2> QED BY <1>7, <2>1, <2>2 DEF Rooted
<1> QED BY <1>6, <1>7, <1>8, <1>9 DEF Sound, d

-----------------------------------------------------------------------------
(* llama_kv_cache_update.                                                  *)

\* After a K-shift every row is where its cell says, and nothing is pending.
LEMMA ShiftedSound ==
    ASSUME NEW c, Sound(c)
    PROVE  LET d == Shifted(c)
           IN  /\ Sound(d) /\ (Rooted(c) => Rooted(d)) /\ ~d.hasShift
               /\ Live(d) = Live(c) /\ d.used = c.used
<1> DEFINE row == [i \in Cells |-> [c.row[i] EXCEPT !.rot = @ + c.delta[i]]]
           delta == [i \in Cells |-> 0]
           d == [c EXCEPT !.row = row, !.delta = delta, !.hasShift = FALSE]
<1>1. c \in Cache
  BY DEF Sound
<1>2. CASE ~c.hasShift
  BY <1>2, <1>1 DEF Shifted
<1>3. CASE c.hasShift
  <2>1. Shifted(c) = d
    BY <1>3 DEF Shifted
  <2>2. ASSUME NEW i \in Cells
        PROVE  /\ row[i] \in Row /\ row[i].tok = c.row[i].tok
               /\ row[i].rot = c.row[i].rot + c.delta[i]
    <3>1. c.row[i] \in Row /\ c.delta[i] \in Int
      BY <1>1 DEF Cache
    <3> QED BY <3>1 DEF Row
  <2>3. row \in [Cells -> Row] /\ delta \in [Cells -> Int]
    BY <2>2
  <2>4. \A i \in Cells : delta[i] = 0
    OBVIOUS
  <2> HIDE DEF row, delta
  <2>5. /\ d \in Cache /\ d.pos = c.pos /\ d.seqs = c.seqs /\ d.used = c.used
        /\ d.row = row /\ d.delta = delta /\ d.hasShift = FALSE
    BY <1>1, <2>3 DEF Cache
  <2> HIDE DEF d
  <2>6. Live(d) = Live(c) /\ Taken(d) = Taken(c)
    BY <2>5 DEF Live, Taken
  <2>7. Sound(d)
    BY <2>5, <2>6 DEF Sound
  <2>8. ASSUME Rooted(c) PROVE Rooted(d)
    <3>1. ASSUME NEW i \in Live(d)
          PROVE  row[i].tok \in Toks /\ row[i].rot + delta[i] = d.pos[i]
      <4>1. i \in Cells /\ i \in Live(c)
        BY <2>6 DEF Live
      <4>2. c.row[i].tok \in Toks /\ c.row[i].rot + c.delta[i] = c.pos[i]
        BY <2>8, <4>1 DEF Rooted
      <4>3. c.pos[i] \in Int
        BY <1>1, <4>1 DEF Cache
      <4> QED BY <2>2, <2>4, <2>5, <4>1, <4>2, <4>3
    <3> QED BY <2>4, <2>5, <3>1 DEF Rooted
  <2> QED BY <2>1, <2>5, <2>6, <2>7, <2>8
<1> QED BY <1>2, <1>3

\* A defragmentation keeps the number of live cells, and each keeps its row.
LEMMA DefraggedSound ==
    ASSUME NEW c, Sound(c), NEW m \in [Holes(c) -> Movers(c)], Plan(c, m)
    PROVE  LET d == Defragged(c, m)
           IN  Sound(d) /\ (Rooted(c) => Rooted(d)) /\ d.hasShift = c.hasShift
<1> DEFINE to    == MovedBy(c, m)
           from  == {m[h] : h \in to}
           pos   == [i \in Cells |-> IF i \in to THEN c.pos[m[i]]
                                     ELSE IF i \in from THEN -1 ELSE c.pos[i]]
           delta == [i \in Cells |-> IF i \in to THEN c.delta[m[i]]
                                     ELSE IF i \in from THEN 0 ELSE c.delta[i]]
           seqs  == [i \in Cells |-> IF i \in to THEN c.seqs[m[i]]
                                     ELSE IF i \in from THEN {} ELSE c.seqs[i]]
           row   == RowsMoved(c, to, m)
           head  == IF to = {} THEN c.head ELSE c.used
           d == Defragged(c, m)
<1>1. c \in Cache
  BY DEF Sound
<1>2. d = [c EXCEPT !.pos = pos, !.delta = delta, !.seqs = seqs,
                    !.row = row, !.head = head]
  BY DEF Defragged
<1>3. to \in SUBSET Holes(c) /\ to \in SUBSET Cells /\ to \cap Live(c) = {}
  BY DEF MovedBy, Holes, Live
<1>4. \A h \in to : m[h] \in Movers(c) /\ m[h] \in Cells /\ m[h] \in Live(c)
  BY <1>3 DEF Movers, Live
<1>5. from \in SUBSET Live(c)
  BY <1>4
<1>6. Cardinality(from) = Cardinality(to)
  BY <1>3, MovesPair
<1> HIDE DEF to, from
<1>7. \A i \in Cells :
         /\ i \in to => /\ pos[i] = c.pos[m[i]] /\ delta[i] = c.delta[m[i]]
                        /\ seqs[i] = c.seqs[m[i]] /\ row[i] = c.row[m[i]]
         /\ i \in from \ to => pos[i] = -1 /\ delta[i] = 0 /\ seqs[i] = {}
         /\ i \notin to \cup from => /\ pos[i] = c.pos[i] /\ delta[i] = c.delta[i]
                                     /\ seqs[i] = c.seqs[i]
         /\ i \notin to => row[i] = c.row[i]
  BY DEF RowsMoved
<1>8. /\ pos \in [Cells -> Int] /\ delta \in [Cells -> Int]
      /\ seqs \in [Cells -> SUBSET Seqs] /\ row \in [Cells -> Row]
  BY <1>1, <1>4 DEF Cache, RowsMoved
<1>9. head \in 0 .. Size
  BY <1>1 DEF Cache
<1> HIDE DEF pos, delta, seqs, row, head, d
<1>10. /\ d \in Cache /\ d.pos = pos /\ d.seqs = seqs /\ d.used = c.used
       /\ d.row = row /\ d.delta = delta /\ d.hasShift = c.hasShift
  BY <1>1, <1>2, <1>8, <1>9 DEF Cache
<1>11. Live(d) = (Live(c) \ from) \cup to
  BY <1>3, <1>4, <1>5, <1>7, <1>10 DEF Live
<1>12. Taken(d) = (Taken(c) \ from) \cup to
  <2>1. \A h \in to : c.pos[m[h]] >= 0
    BY <1>4 DEF Sound, Taken
  <2> QED BY <1>3, <1>7, <1>10, <2>1 DEF Taken
<1>13. Cardinality(Live(d)) = c.used
  <2>1. IsFiniteSet(Live(c)) /\ IsFiniteSet(to)
    BY <1>3, CellsFinite DEF Live
  <2>2. Live(c) \cap from = from /\ (Live(c) \ from) \cap to = {}
    BY <1>3, <1>5
  <2>3. /\ IsFiniteSet(Live(c) \ from)
        /\ Cardinality(Live(c) \ from) = c.used - Cardinality(to)
    <3>1. /\ IsFiniteSet(Live(c) \ from)
          /\ Cardinality(Live(c) \ from) =
               Cardinality(Live(c)) - Cardinality(Live(c) \cap from)
      BY <2>1, FS_Difference
    <3> QED BY <3>1, <2>2, <1>6 DEF Sound
  <2>4. Cardinality((Live(c) \ from) \cup to) =
          Cardinality(Live(c) \ from) + Cardinality(to) - 0
    BY <2>1, <2>2, <2>3, FS_Union, FS_EmptySet
  <2>5. Cardinality(to) \in Nat /\ c.used \in Nat
    BY <1>1, <2>1, FS_CardinalityType DEF Cache
  <2> QED BY <1>11, <2>3, <2>4, <2>5
<1>14. \A i \in Cells : pos[i] >= -1
  BY <1>4, <1>7 DEF Sound
<1>15. Sound(d)
  BY <1>10, <1>11, <1>12, <1>13, <1>14 DEF Sound
<1>16. ASSUME Rooted(c) PROVE Rooted(d)
  <2>1. ASSUME NEW i \in Live(d)
        PROVE  row[i].tok \in Toks /\ row[i].rot + delta[i] = pos[i]
    <3>1. CASE i \in to
      BY <1>3, <1>4, <1>7, <1>16, <3>1 DEF Rooted
    <3>2. CASE i \notin to
      <4>1. i \in Live(c) /\ i \in Cells /\ i \notin from
        BY <1>11, <2>1, <3>2 DEF Live
      <4> QED BY <1>7, <1>16, <3>2, <4>1 DEF Rooted
    <3> QED BY <3>1, <3>2
  <2>2. ~c.hasShift => \A i \in Cells : delta[i] = 0
    BY <1>4, <1>7, <1>16 DEF Rooted
  <2> QED BY <1>10, <2>1, <2>2 DEF Rooted
<1> QED BY <1>10, <1>15, <1>16 DEF d

\* llama_kv_cache_update as a whole.
LEMMA UpdatesSound ==
    ASSUME NEW c, Sound(c), NEW d \in Updates(c)
    PROVE  Sound(d) /\ (Rooted(c) => Rooted(d)) /\ ~d.hasShift
<1> DEFINE s == Shifted(c)
<1>1. Sound(s) /\ (Rooted(c) => Rooted(s)) /\ ~s.hasShift
  BY ShiftedSound
<1> HIDE DEF s
<1>2. CASE s.doDefrag
  <2>1. PICK m \in [Holes(s) -> Movers(s)] :
           Plan(s, m) /\ d = [Defragged(s, m) EXCEPT !.doDefrag = FALSE]
    BY <1>2 DEF Updates, s
  <2> DEFINE e == Defragged(s, m)
  <2>2. Sound(e) /\ (Rooted(s) => Rooted(e)) /\ e.hasShift = s.hasShift
    BY <1>1, <2>1, DefraggedSound
  <2> HIDE DEF e
  <2>3. d = [e EXCEPT !.doDefrag = FALSE]
    BY <2>1 DEF e
  <2>4. /\ d \in Cache /\ d.pos = e.pos /\ d.seqs = e.seqs /\ d.used = e.used
        /\ d.row = e.row /\ d.delta = e.delta /\ d.hasShift = e.hasShift
    BY <2>2, <2>3 DEF Sound, Cache
  <2>5. Live(d) = Live(e) /\ Taken(d) = Taken(e)
    BY <2>4 DEF Live, Taken
  <2>6. Sound(d)
    BY <2>2, <2>4, <2>5 DEF Sound
  <2>7. Rooted(e) => Rooted(d)
    BY <2>4, <2>5, RowsKept
  <2> QED BY <1>1, <2>2, <2>4, <2>6, <2>7
<1>3. CASE ~s.doDefrag
  BY <1>1, <1>3 DEF Updates, s
<1> QED BY <1>2, <1>3

-----------------------------------------------------------------------------
(* The search for a slot, and the decode of one ubatch.                    *)

LEMMA RewoundSound ==
    ASSUME NEW c, Sound(c), NEW k \in Nat
    PROVE  LET d == Rewound(c, k)
           IN  Sound(d) /\ (Rooted(c) => Rooted(d)) /\ d.hasShift = c.hasShift
<1> DEFINE d == [c EXCEPT !.head = 0]
<1>1. c \in Cache
  BY DEF Sound
<1>2. /\ d \in Cache /\ d.pos = c.pos /\ d.seqs = c.seqs /\ d.used = c.used
      /\ d.row = c.row /\ d.delta = c.delta /\ d.hasShift = c.hasShift
  BY <1>1, LayoutAssumption DEF Cache
<1> HIDE DEF d
<1>3. Live(d) = Live(c) /\ Taken(d) = Taken(c)
  BY <1>2 DEF Live, Taken
<1>4. Sound(d) /\ (Rooted(c) => Rooted(d))
  BY <1>2, <1>3, RowsKept DEF Sound
<1>5. Rewound(c, k) \in {c, d}
  BY DEF Rewound, d
<1> QED BY <1>2, <1>4, <1>5

\* A search that fails changes nothing but head.
LEMMA FullSound ==
    ASSUME NEW c, Sound(c), NEW k \in Nat \ {0}, ~CanPlace(c, k)
    PROVE  Sound(Full(c, k)) /\ (Rooted(c) => Rooted(Full(c, k)))
<1>1. CASE k > Size
  BY <1>1 DEF Full
<1>2. CASE k <= Size
  <2> DEFINE head == HeadWhenFull(Taken(c), c.head, k)
             d == [c EXCEPT !.head = head]
  <2>1. c \in Cache /\ c.head \in 0 .. Size
    BY DEF Sound, Cache
  <2>2. k \in 1 .. Size /\ Windows(Taken(c), k) = {} /\ Taken(c) \in SUBSET Cells
    BY <1>2, LayoutAssumption DEF CanPlace, Taken
  <2>3. head \in 0 .. Size
    BY <2>1, <2>2, HeadWhenFullInRange
  <2> HIDE DEF head
  <2>4. /\ d \in Cache /\ d.pos = c.pos /\ d.seqs = c.seqs /\ d.used = c.used
        /\ d.row = c.row /\ d.delta = c.delta /\ d.hasShift = c.hasShift
    BY <2>1, <2>3 DEF Cache
  <2> HIDE DEF d
  <2>5. Live(d) = Live(c) /\ Taken(d) = Taken(c)
    BY <2>4 DEF Live, Taken
  <2>6. Full(c, k) = d
    BY <1>2, LayoutAssumption DEF Full, d, head
  <2> QED BY <2>4, <2>5, <2>6, RowsKept DEF Sound
<1> QED BY <1>1, <1>2, LayoutAssumption

\* What find_slot reads of a ubatch: positions and sequences.
Placeable(u) ==
    /\ Len(u) \in Nat \ {0}
    /\ \A j \in 1 .. Len(u) : u[j].pos \in Nat /\ u[j].seqs \in (SUBSET Seqs) \ {{}}

LEMMA EntriesPlaceable == ASSUME NEW u \in Seq(Entry), u # <<>> PROVE Placeable(u)
<1>1. Len(u) \in Nat \ {0}
  BY EmptySeq, LenProperties
<1>2. \A j \in 1 .. Len(u) : u[j] \in Entry
  BY ElementOfSeq
<1> QED BY <1>1, <1>2 DEF Placeable, Entry

\* The slot of a placed ubatch was free, is now live, and holds its entries.
LEMMA PlacedSound ==
    ASSUME NEW c, Sound(c), NEW u, Placeable(u), CanPlace(c, Len(u))
    PROVE  LET d == Placed(c, u)
               slot == d.head .. d.head + Len(u) - 1
           IN  /\ Sound(d) /\ d.head \in Nat /\ d.head + Len(u) <= Size
               /\ slot \subseteq Cells /\ slot \cap Live(c) = {} /\ Live(d) = Live(c) \cup slot
               /\ \A i \in Cells \ slot : d.pos[i] = c.pos[i] /\ d.seqs[i] = c.seqs[i]
               /\ \A i \in slot : /\ i - d.head + 1 \in 1 .. Len(u)
                                  /\ d.pos[i] = u[i - d.head + 1].pos
                                  /\ d.seqs[i] = u[i - d.head + 1].seqs
               /\ d.row = c.row /\ d.delta = c.delta /\ d.hasShift = c.hasShift
<1> DEFINE k == Len(u)
           h == SlotAt(Taken(c), c.head, k)
           slot == h .. h + k - 1
           pos  == [i \in Cells |-> IF i \in slot THEN u[i - h + 1].pos ELSE c.pos[i]]
           seqs == [i \in Cells |-> IF i \in slot
                                    THEN c.seqs[i] \cup u[i - h + 1].seqs
                                    ELSE c.seqs[i]]
           used == c.used + k
           d == Placed(c, u)
<1>1. c \in Cache
  BY DEF Sound
<1>2. d = [c EXCEPT !.pos = pos, !.seqs = seqs, !.head = h, !.used = used]
  BY DEF Placed
<1>3. k \in Nat \ {0}
  BY DEF Placeable
<1>4. h \in Cells /\ h + k <= Size /\ \A i \in slot : i \notin Taken(c)
  BY SlotIsWindow DEF CanPlace, Windows, Fits
<1> HIDE DEF h, k
<1>5. slot \in SUBSET Cells /\ slot \cap Live(c) = {} /\ h \in 0 .. Size
  BY <1>3, <1>4, LayoutAssumption DEF Cells, Sound
<1>6. ASSUME NEW i \in slot
      PROVE  /\ i - h + 1 \in 1 .. k
             /\ u[i - h + 1].pos \in Nat
             /\ u[i - h + 1].seqs \in (SUBSET Seqs) \ {{}}
  <2>1. i - h + 1 \in 1 .. k
    BY <1>3, <1>4 DEF Cells
  <2> QED BY <2>1 DEF Placeable, k
<1>7. pos \in [Cells -> Int] /\ seqs \in [Cells -> SUBSET Seqs]
  BY <1>1, <1>6 DEF Cache
<1>8. \A i \in Cells :
         /\ i \in slot => /\ pos[i] = u[i - h + 1].pos /\ pos[i] >= 0
                          /\ seqs[i] = u[i - h + 1].seqs /\ seqs[i] # {}
         /\ i \notin slot => pos[i] = c.pos[i] /\ seqs[i] = c.seqs[i]
  <2>1. ASSUME NEW i \in slot
        PROVE  /\ pos[i] = u[i - h + 1].pos /\ pos[i] >= 0
               /\ seqs[i] = u[i - h + 1].seqs /\ seqs[i] # {}
    <3>1. i \in Cells /\ c.seqs[i] = {}
      BY <1>5 DEF Live
    <3>2. pos[i] = u[i - h + 1].pos /\ seqs[i] = {} \cup u[i - h + 1].seqs
      BY <3>1
    <3> HIDE DEF pos, seqs
    <3> QED BY <1>6, <3>2
  <2>2. \A i \in Cells : i \notin slot => pos[i] = c.pos[i] /\ seqs[i] = c.seqs[i]
    OBVIOUS
  <2> HIDE DEF pos, seqs, slot
  <2> QED BY <2>1, <2>2
<1>9. Cardinality(Live(c) \cup slot) = used /\ used \in 0 .. Size
  <2>1. IsFiniteSet(Live(c)) /\ IsFiniteSet(slot) /\ Cardinality(slot) = k
    <3>1. Live(c) \in SUBSET Cells
      BY DEF Live
    <3>2. h \in Int /\ h + k - 1 \in Int /\ ~(h > h + k - 1) /\ (h + k - 1) - h + 1 = k
      BY <1>3, <1>4 DEF Cells
    <3> HIDE DEF slot
    <3>3. IsFiniteSet(slot) /\ Cardinality(slot) = k
      BY <3>2, FS_Interval DEF slot
    <3> QED BY <3>1, <3>3, CellsFinite
  <2>2. Cardinality(Live(c) \cap slot) = 0
    BY <1>5, FS_EmptySet
  <2>3. Cardinality(Live(c) \cup slot) = c.used + k - 0
    <3> DEFINE L == Live(c)
    <3> HIDE DEF L, slot
    <3>1. Cardinality(L \cup slot) =
            Cardinality(L) + Cardinality(slot) - Cardinality(L \cap slot)
      BY <2>1, FS_Union DEF L
    <3>2. Cardinality(L) = c.used
      BY DEF Sound, L
    <3> QED BY <2>1, <2>2, <3>1, <3>2 DEF L
  <2>4. Live(c) \cup slot \in SUBSET Cells
    BY <1>5 DEF Live
  <2>5. c.used \in Nat
    BY <1>1 DEF Cache
  <2> QED BY <1>3, <2>3, <2>4, <2>5, CellsFinite
<1> HIDE DEF pos, seqs, used, d
<1>10. /\ d \in Cache /\ d.pos = pos /\ d.seqs = seqs /\ d.used = used /\ d.head = h
       /\ d.row = c.row /\ d.delta = c.delta /\ d.hasShift = c.hasShift
  BY <1>1, <1>2, <1>5, <1>7, <1>9 DEF Cache
<1>11. Live(d) = Live(c) \cup slot /\ Taken(d) = Taken(c) \cup slot
  BY <1>5, <1>8, <1>10 DEF Live, Taken
<1>12. \A i \in Cells : pos[i] >= -1
  <2>1. \A i \in Cells : pos[i] \in Int
    BY <1>7
  <2> QED BY <1>8, <2>1 DEF Sound
<1>13. Sound(d)
  BY <1>9, <1>10, <1>11, <1>12 DEF Sound
<1>14. h \in Nat /\ slot \cap Live(c) = {} /\ slot \subseteq Cells
  BY <1>4, <1>5 DEF Cells
<1>15. \A i \in slot : i - h + 1 \in 1 .. k
  BY <1>6
<1> HIDE DEF slot
<1> QED BY <1>4, <1>8, <1>10, <1>11, <1>13, <1>14, <1>15 DEF d, k, slot

LEMMA AttendedInRange ==
    ASSUME NEW c
    PROVE  CellMax(c) \in Nat /\ Attended(c) \in 0 .. Size
<1>1. CellMax(c) \in Nat
  <2>1. {i \in Cells : \E j \in Live(c) : j >= i} \in SUBSET Cells
    OBVIOUS
  <2>2. \A S \in SUBSET Cells : Cardinality(S) \in Nat
    BY CellsFinite
  <2> QED BY <2>1, <2>2 DEF CellMax
<1>2. \A x, p \in Nat : p # 0 => ((x + p - 1) \div p) * p \in Int
  OBVIOUS
<1>3. ((CellMax(c) + Pad - 1) \div Pad) * Pad \in Int
  BY <1>1, <1>2, CacheAssumption
<1>4. \A x \in Int : Lesser(Size, Greater(Pad, x)) \in 0 .. Size
  BY CacheAssumption, LayoutAssumption DEF Lesser, Greater
<1> QED BY <1>1, <1>3, <1>4 DEF Attended

\* The graph writes the rows of the slot, at the positions of its cells.
LEMMA ComputedSound ==
    ASSUME NEW c, Sound(c), NEW u \in Seq(Entry), u # <<>>, CanPlace(c, Len(u)),
           ~c.hasShift
    PROVE  LET p == Placed(c, u)
               d == Computed(p, u)
           IN  /\ Sound(d) /\ (Rooted(c) => Rooted(d))
               /\ Live(d) = Live(p) /\ d.n = Attended(p)
<1> DEFINE p == Placed(c, u)
           k == Len(u)
           slot == p.head .. p.head + k - 1
           n == Attended(p)
           row == [i \in Cells |->
                     IF i \in slot
                     THEN [tok |-> u[i - p.head + 1].tok, rot |-> u[i - p.head + 1].pos]
                     ELSE p.row[i]]
           head == IF p.head + k >= Size THEN 0 ELSE p.head + k
           d == Computed(p, u)
<1>1. /\ Sound(p) /\ p.head + k <= Size
      /\ slot \subseteq Cells /\ Live(p) = Live(c) \cup slot
      /\ \A i \in Cells \ slot : p.pos[i] = c.pos[i]
      /\ \A i \in slot : i - p.head + 1 \in 1 .. k /\ p.pos[i] = u[i - p.head + 1].pos
      /\ p.row = c.row /\ p.delta = c.delta /\ p.hasShift = c.hasShift
  BY EntriesPlaceable, PlacedSound
<1>2. d = [p EXCEPT !.n = n, !.row = row, !.head = head]
  BY DEF Computed
<1> HIDE DEF p
<1>3. p \in Cache /\ p.head \in 0 .. Size /\ k \in Nat
  BY <1>1, LenProperties DEF Sound, Cache
<1>4. ASSUME NEW i \in slot
      PROVE  /\ u[i - p.head + 1].tok \in Toks /\ u[i - p.head + 1].pos \in Nat
             /\ row[i] = [tok |-> u[i - p.head + 1].tok, rot |-> u[i - p.head + 1].pos]
  <2>1. u[i - p.head + 1] \in Entry
    BY <1>1, ElementOfSeq
  <2> QED BY <1>1, <2>1 DEF Entry
<1>5. row \in [Cells -> Row]
  <2>1. ASSUME NEW i \in slot
        PROVE  [tok |-> u[i - p.head + 1].tok, rot |-> u[i - p.head + 1].pos] \in Row
    <3>1. u[i - p.head + 1].tok \in Toks /\ u[i - p.head + 1].pos \in Nat
      BY <1>4
    <3>2. \A t \in Toks, r \in Nat : [tok |-> t, rot |-> r] \in Row
      BY DEF Row
    <3> QED BY <3>1, <3>2
  <2>2. \A i \in Cells : p.row[i] \in Row
    BY <1>3 DEF Cache
  <2> QED BY <2>1, <2>2
<1>6. head \in 0 .. Size
  BY <1>3, LayoutAssumption
<1>7. n \in 0 .. Size
  BY AttendedInRange
<1>8. \A i \in Cells \ slot : row[i] = c.row[i]
  BY <1>1
<1> HIDE DEF row, head, n, d
<1>9. /\ d \in Cache /\ d.pos = p.pos /\ d.seqs = p.seqs /\ d.used = p.used
      /\ d.row = row /\ d.delta = p.delta /\ d.hasShift = p.hasShift /\ d.n = n
  BY <1>2, <1>3, <1>5, <1>6, <1>7 DEF Cache
<1>10. Live(d) = Live(p) /\ Taken(d) = Taken(p)
  BY <1>9 DEF Live, Taken
<1>11. Sound(d)
  BY <1>1, <1>9, <1>10 DEF Sound
<1>12. ASSUME Rooted(c) PROVE Rooted(d)
  <2>1. \A i \in Cells : c.delta[i] = 0
    BY <1>12 DEF Rooted
  <2>2. ASSUME NEW i \in Live(d)
        PROVE  row[i].tok \in Toks /\ row[i].rot + c.delta[i] = p.pos[i]
    <3>1. CASE i \in slot
      <4>1. row[i].tok \in Toks /\ row[i].rot = p.pos[i] /\ p.pos[i] \in Nat
        <5>1. p.pos[i] = u[i - p.head + 1].pos
          BY <1>1, <3>1
        <5>2. /\ row[i].tok = u[i - p.head + 1].tok
              /\ row[i].rot = u[i - p.head + 1].pos
          <6>1. row[i] = [tok |-> u[i - p.head + 1].tok, rot |-> u[i - p.head + 1].pos]
            BY <1>4, <3>1
          <6>2. \A t, r : [tok |-> t, rot |-> r].tok = t /\ [tok |-> t, rot |-> r].rot = r
            OBVIOUS
          <6> HIDE DEF slot
          <6> QED BY <6>1, <6>2
        <5> QED BY <1>4, <3>1, <5>1, <5>2
      <4>2. c.delta[i] = 0
        BY <1>1, <2>1, <3>1
      <4> QED BY <4>1, <4>2
    <3>2. CASE i \notin slot
      <4>1. i \in Live(c) /\ i \in Cells \ slot
        BY <1>1, <1>10, <2>2, <3>2 DEF Live
      <4> QED BY <1>1, <1>8, <1>12, <4>1 DEF Rooted
    <3> QED BY <3>1, <3>2
  <2> QED BY <1>1, <1>9, <2>1, <2>2 DEF Rooted
<1> QED BY <1>9, <1>10, <1>11, <1>12 DEF d, p, n

LEMMA FlaggedSound ==
    ASSUME NEW c, Sound(c)
    PROVE  LET d == Flagged(c)
           IN  Sound(d) /\ (Rooted(c) => Rooted(d)) /\ Live(d) = Live(c) /\ d.n = c.n
<1> DEFINE d == [c EXCEPT !.doDefrag = TRUE]
<1>1. c \in Cache
  BY DEF Sound
<1>2. /\ d \in Cache /\ d.pos = c.pos /\ d.seqs = c.seqs /\ d.used = c.used /\ d.n = c.n
      /\ d.row = c.row /\ d.delta = c.delta /\ d.hasShift = c.hasShift
  BY <1>1 DEF Cache
<1> HIDE DEF d
<1>3. Live(d) = Live(c) /\ Taken(d) = Taken(c)
  BY <1>2 DEF Live, Taken
<1>4. Sound(d) /\ (Rooted(c) => Rooted(d))
  BY <1>2, <1>3, RowsKept DEF Sound
<1>5. Flagged(c) \in {c, d}
  BY DEF Flagged, d
<1> QED BY <1>2, <1>3, <1>4, <1>5

-----------------------------------------------------------------------------
(* The theorems.                                                           *)

IInv == call \in Seq(Entry) /\ Sound(cache) /\ Rooted(cache)

LEMMA InitIInv == Init => IInv
<1> SUFFICES ASSUME Init PROVE IInv
  OBVIOUS
<1>1. cache \in Cache
  BY LayoutAssumption DEF Init, Cache, Row
<1>2. Live(cache) = {} /\ Taken(cache) = {} /\ cache.used = 0
  BY DEF Init, Live, Taken
<1>3. \A i \in Cells : cache.pos[i] >= -1 /\ cache.delta[i] = 0
  BY DEF Init
<1>4. call \in Seq(Entry)
  BY EmptySeq DEF Init
<1> QED BY <1>1, <1>2, <1>3, <1>4, FS_EmptySet DEF IInv, Sound, Rooted

\* What a decode step does to a sound cache.
LEMMA UbatchSound ==
    ASSUME IInv, DecodeUbatch
    PROVE  /\ IInv'
           /\ \E p : Sound(p) /\ Live(cache') = Live(p) /\ cache'.n = Attended(p)
<1> DEFINE k == NextLen
<1>1. k \in 1 .. Len(call) /\ Len(call) \in Nat
  BY LenProperties, EmptySeq, CacheAssumption DEF IInv, DecodeUbatch, NextLen, Lesser
<1>2. \A i \in 1 .. Len(call) : call[i] \in Entry
  BY ElementOfSeq DEF IInv
<1>3. Ubatch \in Seq(Entry) /\ Len(Ubatch) = k /\ Ubatch # <<>>
  BY <1>1, <1>2, SubSeqProperties, EmptySeq, LenProperties DEF Ubatch
<1>4. call' \in Seq(Entry)
  <2>1. k + 1 \in Int /\ Len(call) \in Int /\ \A i \in k + 1 .. Len(call) : call[i] \in Entry
    BY <1>1, <1>2
  <2> QED BY <2>1, SubSeqProperties DEF DecodeUbatch, Leftover
<1>5. PICK u \in Updates(cache) :
         LET c == Rewound(u, NextLen)
             d == Computed(Placed(c, Ubatch), Ubatch)
         IN  /\ CanPlace(c, NextLen)
             /\ cache' = IF Leftover = <<>> THEN Flagged(d) ELSE d
  BY DEF DecodeUbatch
<1> DEFINE c == Rewound(u, k)
           p == Placed(c, Ubatch)
           d == Computed(p, Ubatch)
<1>6. Sound(u) /\ Rooted(u) /\ ~u.hasShift
  BY UpdatesSound DEF IInv
<1>7. Sound(c) /\ Rooted(c) /\ ~c.hasShift
  <2>1. k \in Nat
    BY <1>1
  <2> HIDE DEF k
  <2> QED BY <1>6, <2>1, RewoundSound
<1>8. Sound(p)
  <2> HIDE DEF c
  <2> QED BY <1>3, <1>5, <1>7, EntriesPlaceable, PlacedSound DEF c
<1>9. Sound(d) /\ Rooted(d) /\ Live(d) = Live(p) /\ d.n = Attended(p)
  <2>1. CanPlace(c, Len(Ubatch))
    BY <1>3, <1>5
  <2> HIDE DEF c
  <2> QED BY <1>3, <1>7, <2>1, ComputedSound
<1>10. cache' \in {d, Flagged(d)}
  BY <1>5
<1> HIDE DEF d, p
<1>11. /\ Sound(cache') /\ Rooted(cache')
       /\ Live(cache') = Live(p) /\ cache'.n = Attended(p)
  BY <1>9, <1>10, FlaggedSound
<1> QED BY <1>4, <1>8, <1>11 DEF IInv

LEMMA NextIInv == IInv /\ [Next]_vars => IInv'
<1> SUFFICES ASSUME IInv, [Next]_vars PROVE IInv'
  OBVIOUS
<1>1. Sound(cache) /\ Rooted(cache) /\ call \in Seq(Entry)
  BY DEF IInv
<1>2. Bounds \subseteq Int /\ Shifts \subseteq Int /\ Divisors \subseteq Nat \ {0}
  BY CallerAssumption
<1>3. CASE CallClear
  BY <1>1, <1>3, ClearSound DEF CallClear, Idle, IInv
<1>4. CASE CallSeqRm
  BY <1>1, <1>2, <1>4, SeqRmSound DEF CallSeqRm, Idle, IInv
<1>5. CASE CallSeqCp
  BY <1>1, <1>2, <1>5, SeqCpSound DEF CallSeqCp, Idle, IInv
<1>6. CASE CallSeqKeep
  BY <1>1, <1>6, SeqKeepSound DEF CallSeqKeep, Idle, IInv
<1>7. CASE CallSeqAdd
  BY <1>1, <1>2, <1>7, SeqAddSound DEF CallSeqAdd, Idle, IInv
<1>8. CASE CallSeqDiv
  BY <1>1, <1>2, <1>8, SeqDivSound DEF CallSeqDiv, Idle, IInv
<1>9. CASE CallDefrag
  <2> DEFINE d == [cache EXCEPT !.doDefrag = TRUE]
  <2>1. /\ d \in Cache /\ d.pos = cache.pos /\ d.seqs = cache.seqs
        /\ d.used = cache.used /\ d.row = cache.row
        /\ d.delta = cache.delta /\ d.hasShift = cache.hasShift
    BY <1>1 DEF Sound, Cache
  <2> HIDE DEF d
  <2>2. Live(d) = Live(cache) /\ Taken(d) = Taken(cache)
    BY <2>1 DEF Live, Taken
  <2>3. Sound(d) /\ Rooted(d)
    BY <1>1, <2>1, <2>2, RowsKept DEF Sound
  <2> QED BY <1>1, <1>9, <2>3 DEF CallDefrag, Idle, IInv, d
<1>10. CASE CallUpdate
  BY <1>1, <1>10, UpdatesSound DEF CallUpdate, Idle, IInv
<1>11. CASE DecodeBegin
  <2>1. call' \in Seq(Entry)
    BY <1>11, CallerAssumption DEF DecodeBegin
  <2> QED BY <1>1, <1>11, <2>1 DEF DecodeBegin, IInv
<1>12. CASE DecodeUbatch
  BY <1>12, UbatchSound
<1>13. CASE DecodeFull
  <2>1. NextLen \in Nat \ {0}
    BY <1>1, <1>13, LenProperties, EmptySeq, CacheAssumption DEF DecodeFull, NextLen, Lesser
  <2>2. PICK u \in Updates(cache) :
           LET c == Rewound(u, NextLen)
           IN  ~CanPlace(c, NextLen) /\ cache' = Full(c, NextLen)
    BY <1>13 DEF DecodeFull
  <2>3. Sound(u) /\ Rooted(u)
    BY <1>1, UpdatesSound
  <2> DEFINE c == Rewound(u, NextLen)
  <2>4. Sound(c) /\ Rooted(c)
    BY <2>1, <2>3, RewoundSound
  <2>5. ~CanPlace(c, NextLen) /\ cache' = Full(c, NextLen)
    BY <2>2
  <2> HIDE DEF c
  <2>6. Sound(cache') /\ Rooted(cache')
    BY <2>1, <2>4, <2>5, FullSound
  <2> QED BY <1>13, <2>6, EmptySeq DEF DecodeFull, IInv
<1>14. CASE UNCHANGED vars
  BY <1>1, <1>14 DEF vars, IInv
<1> QED BY <1>3, <1>4, <1>5, <1>6, <1>7, <1>8, <1>9, <1>10, <1>11, <1>12, <1>13, <1>14
        DEF Next

LEMMA Invariant == Spec => []IInv
BY InitIInv, NextIInv, PTL DEF Spec

\* The fields of the cache stay in their ranges, whatever is called.
THEOREM TypeCorrect == Spec => []TypeOK
<1>1. IInv => TypeOK
  BY DEF IInv, Sound, TypeOK
<1> QED BY Invariant, <1>1, PTL

\* `used` always counts the cells with a sequence, which are the cells with
\* a position.
THEOREM UsedIsExact == Spec => []UsedExact
<1>1. IInv => UsedExact
  BY DEF IInv, Sound, UsedExact
<1> QED BY Invariant, <1>1, PTL

\* Every live row is rotated to the position of its cell, up to the shift
\* still pending on the cell.
THEOREM RowsFollowCells == Spec => []RowsCoherent
<1>1. IInv => RowsCoherent
  BY DEF IInv, Rooted, RowsCoherent
<1> QED BY Invariant, <1>1, PTL

\* There are always as many cells to move as there are holes to fill: the
\* assertion of the defragmentation cannot fail.
THEOREM DefragNeverAborts == Spec => []DefragHasPlan
<1>1. ASSUME NEW c, Sound(c) PROVE Cardinality(Holes(c)) = Cardinality(Movers(c))
  BY <1>1, HolesMatchMovers DEF Sound, Cache
<1>2. IInv => DefragHasPlan
  BY <1>1, ShiftedSound DEF IInv, DefragHasPlan
<1> QED BY Invariant, <1>2, PTL

\* Rounding up to a multiple of the padding never rounds down.
LEMMA RoundsUp ==
    ASSUME NEW x \in Nat, NEW p \in Nat \ {0}
    PROVE  ((x + p - 1) \div p) * p >= x
<1> DEFINE y == x + p - 1
           q == y \div p
<1>1. y \in Nat
  OBVIOUS
<1> HIDE DEF y
<1>2. q \in Nat /\ y % p \in 0 .. p - 1 /\ y = p * q + (y % p)
  BY <1>1
<1> HIDE DEF q
<1>3. q * p \in Int /\ q * p = p * q
  BY <1>2
<1>4. p * q >= y - (p - 1)
  BY <1>1, <1>2, <1>3
<1> QED BY <1>1, <1>3, <1>4 DEF y, q

\* The cells a decode attends to reach past every live cell.
THEOREM EveryTokenAttended == Spec => AttendsAll
<1>1. ASSUME NEW c, NEW i \in Live(c) PROVE i < Attended(c)
  <2> DEFINE reach == {j \in Cells : \E l \in Live(c) : l >= j}
             R == ((CellMax(c) + Pad - 1) \div Pad) * Pad
  <2>1. i \in Cells /\ i \in 0 .. Size - 1
    BY DEF Live, Cells
  <2>2. 0 .. i \subseteq reach /\ reach \in SUBSET Cells
    <3>1. \A j \in 0 .. i : j \in Cells /\ i >= j
      BY <2>1, LayoutAssumption DEF Cells
    <3> QED BY <3>1
  <2>3. IsFiniteSet(reach) /\ CellMax(c) = Cardinality(reach)
    BY <2>2, CellsFinite DEF CellMax
  <2> HIDE DEF reach
  <2>4. Cardinality(0 .. i) = i + 1
    <3>1. Cardinality(0 .. i) = IF 0 > i THEN 0 ELSE i - 0 + 1
      BY <2>1, FS_Interval
    <3> QED BY <2>1, <3>1
  <2>5. i + 1 <= CellMax(c)
    BY <2>2, <2>3, <2>4, FS_Subset
  <2>6. R >= CellMax(c) /\ R \in Int /\ CellMax(c) \in Nat
    <3>1. CellMax(c) \in Nat /\ Pad \in Nat \ {0}
      BY AttendedInRange, CacheAssumption
    <3>2. R \in Int
      BY <3>1
    <3> QED BY <3>1, <3>2, RoundsUp
  <2>7. Attended(c) = Lesser(Size, Greater(Pad, R))
    BY DEF Attended
  <2> HIDE DEF R
  <2> QED BY <2>1, <2>5, <2>6, <2>7, CacheAssumption, LayoutAssumption DEF Lesser, Greater
<1>2. ASSUME IInv, DecodeUbatch PROVE \A i \in Live(cache') : i < cache'.n
  <2>1. PICK p : Live(cache') = Live(p) /\ cache'.n = Attended(p)
    BY <1>2, UbatchSound
  <2> QED BY <2>1, <1>1
<1>3. IInv /\ [Next]_vars =>
        [DecodeUbatch => \A i \in Live(cache') : i < cache'.n]_vars
  BY <1>2
<1> QED BY Invariant, <1>3, PTL DEF Spec, AttendsAll

-----------------------------------------------------------------------------
(* The KV cache implements SeqStore, for every size of the cache and       *)
(* whatever is called: which cells the tokens lie in cannot be seen.       *)
(*                                                                         *)
(* The tokens a cache stores are the image of its live cells under         *)
(* TokenIn.  Each operation has a lemma: what it makes of the live cells,  *)
(* and so of the tokens.                                                   *)


TokenIn(c, i) == [pos |-> c.pos[i], seqs |-> c.seqs[i], tok |-> c.row[i].tok]

TokensIn(c) == {TokenIn(c, i) : i \in Live(c)}

LEMMA TokenIs ==
    ASSUME NEW c, NEW i
    PROVE  /\ TokenIn(c, i).pos = c.pos[i] /\ TokenIn(c, i).seqs = c.seqs[i]
           /\ TokenIn(c, i).tok = c.row[i].tok
           /\ \A z : [TokenIn(c, i) EXCEPT !.seqs = z] =
                        [pos |-> c.pos[i], seqs |-> z, tok |-> c.row[i].tok]
           /\ \A z : [TokenIn(c, i) EXCEPT !.pos = z] =
                        [pos |-> z, seqs |-> c.seqs[i], tok |-> c.row[i].tok]
  BY DEF TokenIn

\* What is live has a position, and sequences that the cache knows.
LEMMA LiveIs ==
    ASSUME NEW c, Sound(c), NEW i \in Live(c)
    PROVE  i \in Cells /\ c.pos[i] \in Nat /\ c.seqs[i] \in SUBSET Seqs /\ c.seqs[i] # {}
<1>1. i \in Cells /\ i \in Taken(c)
  BY DEF Sound, Live
<1> QED BY <1>1 DEF Sound, Taken, Cache, Live

LEMMA RmTokens ==
    ASSUME NEW c, Sound(c), NEW s \in Seqs \cup {AnySeq}, NEW p0 \in Int, NEW p1 \in Int
    PROVE  LET out(e)  == Store!In(e, p0, p1) /\ (s = AnySeq \/ s \in e.seqs)
               left(e) == IF s = AnySeq THEN {} ELSE e.seqs \ {s}
           IN  TokensIn(SeqRm(c, s, p0, p1)) =
                 {e \in TokensIn(c) : ~out(e)} \cup
                 {[e EXCEPT !.seqs = left(e)] : e \in {f \in TokensIn(c) : out(f) /\ left(f) # {}}}
<1> DEFINE out(e)  == Store!In(e, p0, p1) /\ (s = AnySeq \/ s \in e.seqs)
           left(e) == IF s = AnySeq THEN {} ELSE e.seqs \ {s}
           stay == {e \in TokensIn(c) : ~out(e)}
           cut == {f \in TokensIn(c) : out(f) /\ left(f) # {}}
           d == SeqRm(c, s, p0, p1)
<1>1. ASSUME NEW i \in Live(c)
      PROVE  /\ ~out(TokenIn(c, i)) => i \in Live(d) /\ TokenIn(d, i) = TokenIn(c, i)
             /\ out(TokenIn(c, i)) /\ left(TokenIn(c, i)) # {} =>
                   i \in Live(d) /\ TokenIn(d, i) = [TokenIn(c, i) EXCEPT !.seqs = left(TokenIn(c, i))]
             /\ out(TokenIn(c, i)) /\ left(TokenIn(c, i)) = {} => i \notin Live(d)
  <2> DEFINE t == TokenIn(c, i)
  <2>1. t.pos = c.pos[i] /\ t.seqs = c.seqs[i]
    BY TokenIs
  <2>2. i \in Cells /\ c.pos[i] \in Nat /\ c.seqs[i] # {}
    BY LiveIs
  <2>3. Store!In(t, p0, p1) <=> Within(c.pos[i], p0, p1)
    BY <2>1, <2>2 DEF Store!In, Within
  <2>4. d.row = c.row
    BY DEF SeqRm, Sound, Cache
  <2>5. d.seqs[i] = IF out(t) THEN left(t) ELSE c.seqs[i]
    BY <2>1, <2>2, <2>3 DEF SeqRm, Sound, Cache
  <2>6. d.seqs[i] # {} => d.pos[i] = c.pos[i]
    BY <2>1, <2>2, <2>3 DEF SeqRm, Sound, Cache
  <2> QED BY <2>1, <2>2, <2>4, <2>5, <2>6, TokenIs DEF Live, TokenIn
<1>2. Live(d) \subseteq Live(c)
  BY DEF SeqRm, Sound, Cache, Live
<1> HIDE DEF out, left, d
<1>3. TokensIn(d) \subseteq stay \cup {[e EXCEPT !.seqs = left(e)] : e \in cut}
  BY <1>1, <1>2 DEF TokensIn
<1>4. stay \cup {[e EXCEPT !.seqs = left(e)] : e \in cut} \subseteq TokensIn(d)
  BY <1>1 DEF TokensIn
<1> QED BY <1>3, <1>4 DEF out, left, d

LEMMA CpTokens ==
    ASSUME NEW c, Sound(c), NEW src \in Seqs, NEW dst \in Seqs, NEW p0 \in Int, NEW p1 \in Int
    PROVE  TokensIn(SeqCp(c, src, dst, p0, p1)) =
             {IF src \in e.seqs /\ Store!In(e, p0, p1)
              THEN [e EXCEPT !.seqs = @ \cup {dst}] ELSE e : e \in TokensIn(c)}
<1> DEFINE into(e) == IF src \in e.seqs /\ Store!In(e, p0, p1)
                      THEN [e EXCEPT !.seqs = @ \cup {dst}] ELSE e
           d == SeqCp(c, src, dst, p0, p1)
<1>1. ASSUME NEW i \in Live(c) PROVE TokenIn(d, i) = into(TokenIn(c, i))
  <2> DEFINE t == TokenIn(c, i)
  <2>1. t.pos = c.pos[i] /\ t.seqs = c.seqs[i]
    BY TokenIs
  <2>2. i \in Cells /\ c.pos[i] \in Nat
    BY LiveIs
  <2>3. Store!In(t, p0, p1) <=> Within(c.pos[i], p0, p1)
    BY <2>1, <2>2 DEF Store!In, Within
  <2>4. d.row = c.row /\ d.pos = c.pos
    BY DEF SeqCp, Sound, Cache
  <2>5. d.seqs[i] = IF src \in t.seqs /\ Store!In(t, p0, p1) THEN t.seqs \cup {dst} ELSE t.seqs
    BY <2>1, <2>2, <2>3 DEF SeqCp, Sound, Cache
  <2>6. into(t) = IF src \in t.seqs /\ Store!In(t, p0, p1)
                  THEN [t EXCEPT !.seqs = t.seqs \cup {dst}] ELSE t
    BY DEF TokenIn
  <2> QED BY <2>1, <2>4, <2>5, <2>6, TokenIs DEF TokenIn
<1>2. Live(d) = Live(c)
  BY DEF SeqCp, Sound, Cache, Live
<1> HIDE DEF into, d
<1>3. TokensIn(d) = {into(e) : e \in TokensIn(c)}
  BY <1>1, <1>2 DEF TokensIn
<1> QED BY <1>3 DEF into, d

LEMMA KeepTokens ==
    ASSUME NEW c, Sound(c), NEW s \in Seqs
    PROVE  TokensIn(SeqKeep(c, s)) =
             {[e EXCEPT !.seqs = {s}] : e \in {f \in TokensIn(c) : s \in f.seqs}}
<1> DEFINE kept == {f \in TokensIn(c) : s \in f.seqs}
           d == SeqKeep(c, s)
<1>1. ASSUME NEW i \in Live(c)
      PROVE  IF s \in TokenIn(c, i).seqs
             THEN i \in Live(d) /\ TokenIn(d, i) = [TokenIn(c, i) EXCEPT !.seqs = {s}]
             ELSE i \notin Live(d)
  <2> DEFINE t == TokenIn(c, i)
  <2>1. t.pos = c.pos[i] /\ t.seqs = c.seqs[i]
    BY TokenIs
  <2>2. i \in Cells
    BY LiveIs
  <2>3. d.row = c.row
    BY DEF SeqKeep, Sound, Cache
  <2>4. d.seqs[i] = IF s \in t.seqs THEN {s} ELSE {}
    BY <2>1, <2>2 DEF SeqKeep, Sound, Cache
  <2>5. s \in t.seqs => d.pos[i] = c.pos[i]
    BY <2>1, <2>2 DEF SeqKeep, Sound, Cache
  <2> QED BY <2>1, <2>2, <2>3, <2>4, <2>5, TokenIs, SMTT(60) DEF Live, TokenIn
<1>2. Live(d) \subseteq Live(c)
  BY DEF SeqKeep, Sound, Cache, Live
<1> HIDE DEF d
<1>3. TokensIn(d) = {[e EXCEPT !.seqs = {s}] : e \in kept}
  <2>1. TokensIn(d) \subseteq {[e EXCEPT !.seqs = {s}] : e \in kept}
    BY <1>1, <1>2 DEF TokensIn
  <2>2. {[e EXCEPT !.seqs = {s}] : e \in kept} \subseteq TokensIn(d)
    BY <1>1 DEF TokensIn
  <2> QED BY <2>1, <2>2
<1> QED BY <1>3 DEF d

\* A range that is empty from 0 on is one in which no token lies.
LEMMA AddTokens ==
    ASSUME NEW c, Sound(c), NEW s \in Seqs, NEW p0 \in Int, NEW p1 \in Int, NEW q \in Int
    PROVE  LET hit(e) == s \in e.seqs /\ Store!In(e, p0, p1)
           IN  TokensIn(SeqAdd(c, s, p0, p1, q)) =
                 {e \in TokensIn(c) : ~hit(e)} \cup
                 {[e EXCEPT !.pos = @ + q] : e \in {f \in TokensIn(c) : hit(f) /\ f.pos + q >= 0}}
<1> DEFINE hit(e) == s \in e.seqs /\ Store!In(e, p0, p1)
           stay == {e \in TokensIn(c) : ~hit(e)}
           move == {f \in TokensIn(c) : hit(f) /\ f.pos + q >= 0}
           d == SeqAdd(c, s, p0, p1, q)
<1>1. ASSUME NEW i \in Live(c)
      PROVE  /\ ~hit(TokenIn(c, i)) => i \in Live(d) /\ TokenIn(d, i) = TokenIn(c, i)
             /\ hit(TokenIn(c, i)) /\ TokenIn(c, i).pos + q >= 0 =>
                   i \in Live(d) /\ TokenIn(d, i) = [TokenIn(c, i) EXCEPT !.pos = @ + q]
             /\ hit(TokenIn(c, i)) /\ TokenIn(c, i).pos + q < 0 => i \notin Live(d)
  <2> DEFINE t == TokenIn(c, i)
  <2>1. t.pos = c.pos[i] /\ t.seqs = c.seqs[i]
    BY TokenIs
  <2>2. i \in Cells /\ c.pos[i] \in Nat /\ c.seqs[i] # {}
    BY LiveIs
  <2>3. Store!In(t, p0, p1) <=> Within(c.pos[i], p0, p1)
    BY <2>1, <2>2 DEF Store!In, Within
  <2>4. d.row = c.row
    BY DEF SeqAdd, Sound, Cache
  <2>5. CASE Greater(p0, 0) = p1
    <3>1. d = c
      BY <2>5 DEF SeqAdd
    <3>2. ~hit(t)
      BY <2>2, <2>3, <2>5 DEF Greater, Within
    <3> QED BY <2>2, <3>1, <3>2
  <2>6. CASE Greater(p0, 0) # p1
    <3>1. d.seqs[i] = IF hit(t) /\ c.pos[i] + q < 0 THEN {} ELSE c.seqs[i]
      BY <2>1, <2>2, <2>3, <2>6 DEF SeqAdd, Sound, Cache
    <3>2. d.seqs[i] # {} => d.pos[i] = IF hit(t) THEN c.pos[i] + q ELSE c.pos[i]
      BY <2>1, <2>2, <2>3, <2>6 DEF SeqAdd, Sound, Cache
    <3>3. [t EXCEPT !.pos = @ + q] = [t EXCEPT !.pos = c.pos[i] + q]
      BY <2>1 DEF TokenIn
    <3>4. c.pos[i] + q >= 0 <=> ~(c.pos[i] + q < 0)
      BY <2>2
    <3> QED BY <2>1, <2>2, <2>4, <3>1, <3>2, <3>3, <3>4, TokenIs DEF Live, TokenIn
  <2> QED BY <2>5, <2>6
<1>2. Live(d) \subseteq Live(c)
  BY DEF SeqAdd, Sound, Cache, Live
<1>3. \A i \in Live(c) : TokenIn(c, i).pos + q >= 0 \/ TokenIn(c, i).pos + q < 0
  BY LiveIs, TokenIs
<1> HIDE DEF hit, d
<1>4. TokensIn(d) \subseteq stay \cup {[e EXCEPT !.pos = @ + q] : e \in move}
  BY <1>1, <1>2, <1>3 DEF TokensIn
<1>5. stay \cup {[e EXCEPT !.pos = @ + q] : e \in move} \subseteq TokensIn(d)
  BY <1>1 DEF TokensIn
<1> QED BY <1>4, <1>5 DEF hit, d

LEMMA DivTokens ==
    ASSUME NEW c, Sound(c), NEW s \in Seqs, NEW p0 \in Int, NEW p1 \in Int, NEW q \in Nat \ {0}
    PROVE  TokensIn(SeqDiv(c, s, p0, p1, q)) =
             {IF s \in e.seqs /\ Store!In(e, p0, p1)
              THEN [e EXCEPT !.pos = @ \div q] ELSE e : e \in TokensIn(c)}
<1> DEFINE into(e) == IF s \in e.seqs /\ Store!In(e, p0, p1)
                      THEN [e EXCEPT !.pos = @ \div q] ELSE e
           d == SeqDiv(c, s, p0, p1, q)
<1>1. ASSUME NEW i \in Live(c) PROVE TokenIn(d, i) = into(TokenIn(c, i))
  <2> DEFINE t == TokenIn(c, i)
             r == c.pos[i] \div q
  <2>1. t.pos = c.pos[i] /\ t.seqs = c.seqs[i]
    BY TokenIs
  <2>2. i \in Cells /\ c.pos[i] \in Nat
    BY LiveIs
  <2>3. Store!In(t, p0, p1) <=> Within(c.pos[i], p0, p1)
    BY <2>1, <2>2 DEF Store!In, Within
  <2>4. d.row = c.row /\ d.seqs = c.seqs
    BY DEF SeqDiv, Sound, Cache
  <2>5. into(t) = IF s \in t.seqs /\ Store!In(t, p0, p1) THEN [t EXCEPT !.pos = r] ELSE t
    BY <2>1 DEF TokenIn
  <2>6. d.pos[i] = IF s \in t.seqs /\ Store!In(t, p0, p1) THEN r ELSE c.pos[i]
    BY <2>1, <2>2, <2>3 DEF SeqDiv, Sound, Cache
  <2> HIDE DEF r
  <2> QED BY <2>1, <2>4, <2>5, <2>6, TokenIs DEF TokenIn
<1>2. Live(d) = Live(c)
  BY DEF SeqDiv, Sound, Cache, Live
<1> HIDE DEF into, d
<1>3. TokensIn(d) = {into(e) : e \in TokensIn(c)}
  BY <1>1, <1>2 DEF TokensIn
<1> QED BY <1>3 DEF into, d

-----------------------------------------------------------------------------
(* llama_kv_cache_update, and the decode of one ubatch.                    *)

\* What changes neither positions nor sequences nor the tokens of the rows.
LEMMA SameTokens ==
    ASSUME NEW c, NEW d, d.pos = c.pos, d.seqs = c.seqs,
           \A i \in Live(c) : d.row[i].tok = c.row[i].tok
    PROVE  TokensIn(d) = TokensIn(c)
<1>1. Live(d) = Live(c)
  BY DEF Live
<1> QED BY <1>1 DEF TokensIn, TokenIn

LEMMA ShiftedTokens == ASSUME NEW c, Sound(c) PROVE TokensIn(Shifted(c)) = TokensIn(c)
<1>1. CASE ~c.hasShift
  BY <1>1 DEF Shifted
<1>2. CASE c.hasShift
  <2>1. ASSUME NEW i \in Cells PROVE Shifted(c).row[i].tok = c.row[i].tok
    <3>1. c.row[i] \in Row
      BY DEF Sound, Cache
    <3>2. Shifted(c).row[i] = [c.row[i] EXCEPT !.rot = @ + c.delta[i]]
      BY <1>2 DEF Shifted, Sound, Cache
    <3> QED BY <3>1, <3>2 DEF Row
  <2>2. Shifted(c).pos = c.pos /\ Shifted(c).seqs = c.seqs
    BY <1>2 DEF Shifted, Sound, Cache
  <2> QED BY <2>1, <2>2, SameTokens DEF Live
<1> QED BY <1>1, <1>2

\* A defragmentation moves tokens with all that belongs to them.
LEMMA DefraggedTokens ==
    ASSUME NEW c, Sound(c), NEW m \in [Holes(c) -> Movers(c)]
    PROVE  TokensIn(Defragged(c, m)) = TokensIn(c)
<1> DEFINE to == MovedBy(c, m)
           from == {m[h] : h \in to}
           d == Defragged(c, m)
<1>1. to \subseteq Cells /\ to \cap Live(c) = {} /\ \A h \in to : m[h] \in Live(c) /\ m[h] \in Cells
  BY DEF MovedBy, Holes, Movers, Live
<1>2. ASSUME NEW i \in Cells
      PROVE  /\ i \in to => /\ d.pos[i] = c.pos[m[i]] /\ d.seqs[i] = c.seqs[m[i]]
                            /\ d.row[i] = c.row[m[i]]
             /\ i \in from /\ i \notin to => d.seqs[i] = {}
             /\ i \notin from /\ i \notin to =>
                   d.pos[i] = c.pos[i] /\ d.seqs[i] = c.seqs[i] /\ d.row[i] = c.row[i]
  BY DEF Defragged, RowsMoved, Sound, Cache
<1> HIDE DEF to, d
<1>3. ASSUME NEW i \in Live(d) PROVE TokenIn(d, i) \in TokensIn(c)
  <2>1. i \in Cells /\ d.seqs[i] # {}
    BY DEF Live
  <2>2. CASE i \in to
    <3>1. TokenIn(d, i) = TokenIn(c, m[i])
      BY <1>2, <2>1, <2>2 DEF TokenIn
    <3> QED BY <1>1, <2>2, <3>1 DEF TokensIn
  <2>3. CASE i \notin to
    <3>1. i \notin from
      BY <1>2, <2>1, <2>3
    <3>2. TokenIn(d, i) = TokenIn(c, i) /\ i \in Live(c)
      BY <1>2, <2>1, <2>3, <3>1 DEF TokenIn, Live
    <3> QED BY <3>2 DEF TokensIn
  <2> QED BY <2>2, <2>3
<1>4. ASSUME NEW i \in Live(c) PROVE TokenIn(c, i) \in TokensIn(d)
  <2>1. i \in Cells /\ c.seqs[i] # {} /\ i \notin to
    BY <1>1 DEF Live
  <2>2. CASE i \in from
    <3>1. PICK h \in to : i = m[h]
      BY <2>2
    <3>2. TokenIn(d, h) = TokenIn(c, i) /\ h \in Live(d)
      BY <1>1, <1>2, <2>1, <3>1 DEF TokenIn, Live
    <3> QED BY <3>2 DEF TokensIn
  <2>3. CASE i \notin from
    <3>1. TokenIn(d, i) = TokenIn(c, i) /\ i \in Live(d)
      BY <1>2, <2>1, <2>3 DEF TokenIn, Live
    <3> QED BY <3>1 DEF TokensIn
  <2> QED BY <2>2, <2>3
<1> QED BY <1>3, <1>4 DEF TokensIn, d

LEMMA UpdatesTokens ==
    ASSUME NEW c, Sound(c), NEW d \in Updates(c)
    PROVE  TokensIn(d) = TokensIn(c)
<1> DEFINE s == Shifted(c)
<1>1. Sound(s) /\ TokensIn(s) = TokensIn(c)
  BY ShiftedSound, ShiftedTokens
<1> HIDE DEF s
<1>2. CASE s.doDefrag
  <2>1. PICK m \in [Holes(s) -> Movers(s)] :
           Plan(s, m) /\ d = [Defragged(s, m) EXCEPT !.doDefrag = FALSE]
    BY <1>2 DEF Updates, s
  <2> DEFINE e == Defragged(s, m)
  <2>2. Sound(e) /\ TokensIn(e) = TokensIn(s)
    BY <1>1, <2>1, DefraggedSound, DefraggedTokens
  <2> HIDE DEF e
  <2>3. d = [e EXCEPT !.doDefrag = FALSE]
    BY <2>1 DEF e
  <2>4. d.pos = e.pos /\ d.seqs = e.seqs /\ d.row = e.row
    BY <2>2, <2>3 DEF Sound, Cache
  <2> QED BY <1>1, <2>2, <2>4, SameTokens
<1>3. CASE ~s.doDefrag
  BY <1>1, <1>3 DEF Updates, s
<1> QED BY <1>2, <1>3

LEMMA HeadTokens ==
    ASSUME NEW c, Sound(c), NEW k
    PROVE  TokensIn(Rewound(c, k)) = TokensIn(c) /\ TokensIn(Full(c, k)) = TokensIn(c)
<1>1. \A h : LET d == [c EXCEPT !.head = h] IN d.pos = c.pos /\ d.seqs = c.seqs /\ d.row = c.row
  BY DEF Sound, Cache
<1>2. \A h : TokensIn([c EXCEPT !.head = h]) = TokensIn(c)
  BY <1>1, SameTokens
<1> QED BY <1>2 DEF Rewound, Full

LEMMA FlaggedTokens == ASSUME NEW c, Sound(c) PROVE TokensIn(Flagged(c)) = TokensIn(c)
<1> DEFINE d == [c EXCEPT !.doDefrag = TRUE]
<1>1. d.pos = c.pos /\ d.seqs = c.seqs /\ d.row = c.row
  BY DEF Sound, Cache
<1>2. TokensIn(d) = TokensIn(c)
  BY <1>1, SameTokens
<1> QED BY <1>2 DEF Flagged

\* A computed ubatch adds its tokens: the slot was free, and each of its cells
\* gets the position, the sequences and the row of one token.
LEMMA ComputedTokens ==
    ASSUME NEW c, Sound(c), NEW u \in Seq(Entry), u # <<>>, CanPlace(c, Len(u))
    PROVE  TokensIn(Computed(Placed(c, u), u)) = TokensIn(c) \cup {u[j] : j \in 1 .. Len(u)}
<1> DEFINE p == Placed(c, u)
           d == Computed(p, u)
           k == Len(u)
           slot == p.head .. p.head + k - 1
<1>1. k \in Nat \ {0} /\ Placeable(u)
  BY EntriesPlaceable DEF Placeable
<1>2. /\ Sound(p) /\ slot \subseteq Cells /\ Live(p) = Live(c) \cup slot
      /\ \A i \in Cells \ slot : p.pos[i] = c.pos[i] /\ p.seqs[i] = c.seqs[i]
      /\ \A i \in slot : /\ i - p.head + 1 \in 1 .. k /\ p.pos[i] = u[i - p.head + 1].pos
                         /\ p.seqs[i] = u[i - p.head + 1].seqs
      /\ p.row = c.row
  BY <1>1, PlacedSound
<1>3. slot \cap Live(c) = {} /\ p.head \in Int
  BY <1>1, PlacedSound
<1>5. /\ d.pos = p.pos /\ d.seqs = p.seqs
      /\ \A i \in Cells : d.row[i] = IF i \in slot
                                     THEN [tok |-> u[i - p.head + 1].tok, rot |-> u[i - p.head + 1].pos]
                                     ELSE p.row[i]
  <2>1. p \in Cache
    BY <1>2 DEF Sound
  <2> HIDE DEF p
  <2> QED BY <2>1 DEF Computed, Cache
<1> HIDE DEF p, d
<1>6. Live(d) = Live(c) \cup slot
  BY <1>2, <1>5 DEF Live
<1>7. ASSUME NEW i \in slot PROVE i - p.head + 1 \in 1 .. k /\ TokenIn(d, i) = u[i - p.head + 1]
  <2> DEFINE e == u[i - p.head + 1]
  <2>1. i - p.head + 1 \in 1 .. k /\ i \in Cells
    BY <1>2
  <2>2. e \in Entry
    BY <2>1, ElementOfSeq
  <2>4. d.pos[i] = e.pos /\ d.seqs[i] = e.seqs /\ d.row[i] = [tok |-> e.tok, rot |-> e.pos]
    BY <1>2, <1>5, <2>1
  <2> HIDE DEF e
  <2>5. TokenIn(d, i) = [pos |-> e.pos, seqs |-> e.seqs, tok |-> e.tok]
    BY <2>4 DEF TokenIn
  <2>6. TokenIn(d, i) = e
    BY <2>2, <2>5 DEF Entry
  <2> QED BY <2>1, <2>6 DEF e
<1>8. ASSUME NEW i \in Live(c) PROVE TokenIn(d, i) = TokenIn(c, i)
  <2>1. i \in Cells \ slot
    BY <1>3 DEF Live
  <2> QED BY <1>2, <1>5, <2>1 DEF TokenIn
<1>9. ASSUME NEW j \in 1 .. k PROVE u[j] \in TokensIn(d)
  <2> DEFINE i == p.head + j - 1
  <2>1. i \in slot /\ i - p.head + 1 = j
    BY <1>1, <1>3
  <2> HIDE DEF i, slot
  <2>2. TokenIn(d, i) = u[j]
    BY <1>7, <2>1
  <2> QED BY <1>6, <2>1, <2>2 DEF TokensIn
<1> HIDE DEF slot, k
<1>10. TokensIn(d) \subseteq TokensIn(c) \cup {u[j] : j \in 1 .. k}
  BY <1>6, <1>7, <1>8 DEF TokensIn
<1>11. TokensIn(c) \subseteq TokensIn(d)
  BY <1>6, <1>8 DEF TokensIn
<1> QED BY <1>9, <1>10, <1>11 DEF p, d, k

\* No more tokens are stored than there are cells.
LEMMA TokensFit ==
    ASSUME NEW c
    PROVE  IsFiniteSet(TokensIn(c)) /\ Cardinality(TokensIn(c)) <= Size
<1> DEFINE f == [i \in Live(c) |-> TokenIn(c, i)]
<1>1. Live(c) \in SUBSET Cells
  BY DEF Live
<1>2. IsFiniteSet(Live(c)) /\ Cardinality(Live(c)) \in 0 .. Size
  BY <1>1, CellsFinite
<1>3. f \in Surjection(Live(c), TokensIn(c))
  BY DEF Surjection, TokensIn
<1>4. IsFiniteSet(TokensIn(c)) /\ Cardinality(TokensIn(c)) <= Cardinality(Live(c))
  BY <1>2, <1>3, FS_Surjection
<1>5. Cardinality(TokensIn(c)) \in Nat
  BY <1>4, FS_CardinalityType
<1> QED BY <1>2, <1>4, <1>5, LayoutAssumption

-----------------------------------------------------------------------------
(* The refinement.                                                         *)

LEMMA StoredIs == Stored = TokensIn(cache) /\ Stored' = TokensIn(cache')
  BY DEF Stored, TokensIn, TokenIn

LEMMA InitStores == Init => Store!Init
<1>1. Init => Live(cache) = {}
  BY DEF Init, Live
<1> QED BY <1>1, StoredIs DEF Init, Store!Init, TokensIn

\* A ubatch that is computed extends the store by as many tokens.
LEMMA UbatchExtends ==
    ASSUME IInv, DecodeUbatch
    PROVE  Store!Extend
<1> DEFINE k == NextLen
<1>1. k \in 1 .. Len(call) /\ Len(call) \in Nat
  BY LenProperties, EmptySeq, CacheAssumption DEF IInv, DecodeUbatch, NextLen, Lesser
<1>2. \A i \in 1 .. Len(call) : call[i] \in Entry
  BY ElementOfSeq DEF IInv
<1>3. /\ Ubatch \in Seq(Entry) /\ Len(Ubatch) = k /\ Ubatch # <<>>
      /\ \A j \in 1 .. k : Ubatch[j] = call[j]
  <2>1. \A i \in 1 .. k : call[i] \in Entry
    BY <1>1, <1>2
  <2>2. 1 \in Int /\ k \in Int
    BY <1>1
  <2> HIDE DEF k
  <2>3. /\ SubSeq(call, 1, k) \in Seq(Entry)
        /\ Len(SubSeq(call, 1, k)) = IF 1 <= k THEN k - 1 + 1 ELSE 0
        /\ \A i \in 1 .. k - 1 + 1 : SubSeq(call, 1, k)[i] = call[1 + i - 1]
    BY <2>1, <2>2, SubSeqProperties
  <2>4. Ubatch = SubSeq(call, 1, k)
    BY DEF Ubatch, k
  <2>5. Len(Ubatch) = k /\ Len(Ubatch) # 0
    BY <1>1, <2>3, <2>4
  <2>6. \A j \in 1 .. k : j \in 1 .. k - 1 + 1 /\ 1 + j - 1 = j
    BY <1>1
  <2> QED BY <2>3, <2>4, <2>5, <2>6, EmptySeq
<1>4. PICK u \in Updates(cache) :
         LET c == Rewound(u, NextLen)
             d == Computed(Placed(c, Ubatch), Ubatch)
         IN  /\ CanPlace(c, NextLen)
             /\ cache' = IF Leftover = <<>> THEN Flagged(d) ELSE d
  BY DEF DecodeUbatch
<1> DEFINE c == Rewound(u, k)
           d == Computed(Placed(c, Ubatch), Ubatch)
<1>5. Sound(u) /\ Rooted(u) /\ ~u.hasShift /\ TokensIn(u) = TokensIn(cache)
  BY UpdatesSound, UpdatesTokens DEF IInv
<1>6. Sound(c) /\ Rooted(c) /\ ~c.hasShift /\ TokensIn(c) = TokensIn(cache)
  <2>1. k \in Nat
    BY <1>1
  <2> HIDE DEF k
  <2> QED BY <1>5, <2>1, RewoundSound, HeadTokens
<1>7. CanPlace(c, Len(Ubatch))
  BY <1>3, <1>4
<1>8. Sound(d) /\ TokensIn(d) = TokensIn(c) \cup {Ubatch[j] : j \in 1 .. Len(Ubatch)}
  <2> HIDE DEF c
  <2> QED BY <1>3, <1>6, <1>7, ComputedSound, ComputedTokens
<1>9. TokensIn(cache') = TokensIn(d)
  <2>1. cache' \in {d, Flagged(d)}
    BY <1>4
  <2> HIDE DEF d
  <2> QED BY <1>8, <2>1, FlaggedTokens
<1>10. {Ubatch[j] : j \in 1 .. Len(Ubatch)} = {call[j] : j \in 1 .. k}
  BY <1>3
<1> HIDE DEF c, d
<1>11. Stored' = Stored \cup {call[j] : j \in 1 .. k}
  BY <1>6, <1>8, <1>9, <1>10, StoredIs
<1>12. Store!Cardinality(Stored') <= Size
  <2>1. \A S : Store!Cardinality(S) = Cardinality(S)
    BY DEF Store!Cardinality, Cardinality
  <2> QED BY <2>1, StoredIs, TokensFit
<1>13. call' = SubSeq(call, k + 1, Len(call))
  BY DEF DecodeUbatch, Leftover
<1>14. k \in 1 .. Len(call)
  BY <1>1
<1> HIDE DEF k
<1> QED BY <1>11, <1>12, <1>13, <1>14 DEF Store!Extend

LEMMA StepStores == IInv /\ [Next]_vars => [Store!Next]_<<Stored, call>>
<1> SUFFICES ASSUME IInv, [Next]_vars PROVE Store!Next \/ UNCHANGED <<Stored, call>>
  OBVIOUS
<1>1. Sound(cache) /\ call \in Seq(Entry)
  BY DEF IInv
<1>2. Bounds \subseteq Int /\ Shifts \subseteq Int /\ Divisors \subseteq Nat \ {0}
  BY CallerAssumption
<1>3. CASE CallClear
  <2>1. TokensIn(cache') = {}
    BY <1>1, <1>3 DEF CallClear, Clear, TokensIn, Live, Sound, Cache
  <2>2. Store!Erase
    BY <1>3, <2>1, StoredIs DEF CallClear, Idle, Store!Erase, Store!Ready
  <2> QED BY <2>2 DEF Store!Next
<1>4. CASE CallSeqRm
  <2>1. PICK s \in Seqs \cup {AnySeq}, p0 \in Bounds, p1 \in Bounds :
           cache' = SeqRm(cache, s, p0, p1)
    BY <1>4 DEF CallSeqRm
  <2>2. p0 \in Int /\ p1 \in Int /\ Store!Ready
    BY <1>2, <1>4 DEF CallSeqRm, Idle, Store!Ready
  <2>3. LET out(e)  == Store!In(e, p0, p1) /\ (s = AnySeq \/ s \in e.seqs)
            left(e) == IF s = AnySeq THEN {} ELSE e.seqs \ {s}
        IN  Stored' = {e \in Stored : ~out(e)} \cup
              {[e EXCEPT !.seqs = left(e)] : e \in {f \in Stored : out(f) /\ left(f) # {}}}
    BY <1>1, <2>1, <2>2, RmTokens, StoredIs
  <2>4. Store!Remove(s, p0, p1)
    BY <2>2, <2>3 DEF Store!Remove
  <2> QED BY <2>4 DEF Store!Next
<1>5. CASE CallSeqCp
  <2>1. PICK src \in Seqs, dst \in Seqs, p0 \in Bounds, p1 \in Bounds :
           cache' = SeqCp(cache, src, dst, p0, p1)
    BY <1>5 DEF CallSeqCp
  <2>2. p0 \in Int /\ p1 \in Int /\ Store!Ready
    BY <1>2, <1>5 DEF CallSeqCp, Idle, Store!Ready
  <2>3. Store!Assign(src, dst, p0, p1)
    BY <1>1, <2>1, <2>2, CpTokens, StoredIs, SMTT(30) DEF Store!Assign
  <2> QED BY <2>3 DEF Store!Next
<1>6. CASE CallSeqKeep
  <2>1. PICK s \in Seqs : cache' = SeqKeep(cache, s)
    BY <1>6 DEF CallSeqKeep
  <2>2. Store!Keep(s)
    BY <1>1, <1>6, <2>1, KeepTokens, StoredIs DEF Store!Keep, CallSeqKeep, Idle, Store!Ready
  <2> QED BY <2>2 DEF Store!Next
<1>7. CASE CallSeqAdd
  <2>1. PICK s \in Seqs, p0 \in Bounds, p1 \in Bounds, d \in Shifts :
           cache' = SeqAdd(cache, s, p0, p1, d)
    BY <1>7 DEF CallSeqAdd
  <2>2. p0 \in Int /\ p1 \in Int /\ d \in Int /\ Store!Ready
    BY <1>2, <1>7 DEF CallSeqAdd, Idle, Store!Ready
  <2>3. Store!Shift(s, p0, p1, d)
    BY <1>1, <2>1, <2>2, AddTokens, StoredIs DEF Store!Shift
  <2> QED BY <2>3 DEF Store!Next
<1>8. CASE CallSeqDiv
  <2>1. PICK s \in Seqs, p0 \in Bounds, p1 \in Bounds, d \in Divisors :
           cache' = SeqDiv(cache, s, p0, p1, d)
    BY <1>8 DEF CallSeqDiv
  <2>2. p0 \in Int /\ p1 \in Int /\ d \in Nat \ {0} /\ Store!Ready
    BY <1>2, <1>8 DEF CallSeqDiv, Idle, Store!Ready
  <2>3. Store!Divide(s, p0, p1, d)
    BY <1>1, <2>1, <2>2, DivTokens, StoredIs DEF Store!Divide
  <2> QED BY <2>3 DEF Store!Next
<1>9. CASE CallDefrag
  <2>1. cache'.pos = cache.pos /\ cache'.seqs = cache.seqs /\ cache'.row = cache.row
    BY <1>1, <1>9 DEF CallDefrag, Sound, Cache
  <2>2. TokensIn(cache') = TokensIn(cache)
    BY <2>1, SameTokens
  <2> QED BY <1>9, <2>2, StoredIs DEF CallDefrag, Idle
<1>10. CASE CallUpdate
  BY <1>1, <1>10, UpdatesTokens, StoredIs DEF CallUpdate, Idle
<1>11. CASE DecodeBegin
  <2>1. Store!Begin
    BY <1>11, StoredIs DEF DecodeBegin, Store!Begin
  <2> QED BY <2>1 DEF Store!Next
<1>12. CASE DecodeUbatch
  BY <1>12, UbatchExtends DEF Store!Next
<1>13. CASE DecodeFull
  <2>1. PICK u \in Updates(cache) :
           cache' = Full(Rewound(u, NextLen), NextLen)
    BY <1>13 DEF DecodeFull
  <2>2. Sound(u) /\ TokensIn(u) = TokensIn(cache)
    BY <1>1, UpdatesSound, UpdatesTokens
  <2>3. NextLen \in Nat
    BY <1>1, LenProperties, CacheAssumption DEF NextLen, Lesser
  <2> DEFINE c == Rewound(u, NextLen)
  <2>4. Sound(c) /\ TokensIn(c) = TokensIn(cache)
    BY <2>2, <2>3, RewoundSound, HeadTokens
  <2>5. cache' = Full(c, NextLen)
    BY <2>1
  <2> HIDE DEF c
  <2>6. TokensIn(cache') = TokensIn(cache)
    BY <2>4, <2>5, HeadTokens
  <2>7. Store!GiveUp
    BY <1>13, <2>6, StoredIs DEF DecodeFull, Store!GiveUp
  <2> QED BY <2>7 DEF Store!Next
<1>14. CASE UNCHANGED vars
  BY <1>14, StoredIs DEF vars
<1> QED BY <1>3, <1>4, <1>5, <1>6, <1>7, <1>8, <1>9, <1>10, <1>11, <1>12, <1>13, <1>14
        DEF Next

\* The layout is invisible: whatever is called, the cache behaves like a set of
\* tokens with positions and sequences, in which cells, head, pending shifts
\* and defragmentations do not occur, and a decode adds a prefix of its batch.
THEOREM CacheImplementsStore == Spec => ImplementsStore
  BY Invariant, InitStores, StepStores, PTL DEF Spec, ImplementsStore, Store!Spec, Store!svars

-----------------------------------------------------------------------------
(***************************************************************************)
(* What is restored is what was saved, and a failed restore of a sequence  *)
(* leaves a cache that other calls can work on: for every size, all calls  *)
(* in between, and snapshots that end anywhere.                            *)
(*                                                                         *)
(* Callers are Settled: they apply pending shifts before they save or      *)
(* restore.  Without that the theorems are false (see the README).         *)
(***************************************************************************)

-----------------------------------------------------------------------------
(* The order of the cells in a snapshot.                                   *)

Increasing(f) == \A j, k \in DOMAIN f : j < k => f[j] < f[k]

\* A finite set of cells has an order: a smallest one without would lose its
\* largest cell and still be without.
LEMMA OrderExists ==
    ASSUME NEW S \in SUBSET Cells
    PROVE  \E f \in [1 .. Cardinality(S) -> S] : Increasing(f)
<1> DEFINE Good(T) == \E f \in [1 .. Cardinality(T) -> T] : Increasing(f)
           Bad == {n \in 0 .. Size : \E T \in SUBSET Cells : Cardinality(T) = n /\ ~Good(T)}
<1>1. SUFFICES ASSUME ~Good(S) PROVE FALSE
  OBVIOUS
<1>2. Cardinality(S) \in Bad
  BY <1>1, CellsFinite
<1>3. Bad \subseteq 0 .. Size /\ Bad # {} /\ Size \in Nat
  BY <1>2, LayoutAssumption
<1> DEFINE n == Least(Bad)
<1>4. n \in Bad /\ \A m \in Bad : n <= m
  <2> HIDE DEF Bad
  <2> QED BY <1>3, LeastIsLeast
<1>5. PICK T \in SUBSET Cells : Cardinality(T) = n /\ ~Good(T)
  BY <1>4
<1>6. n \in Nat /\ n <= Size /\ IsFiniteSet(T)
  BY <1>3, <1>4, <1>5, CellsFinite
<1> HIDE DEF n, Bad
<1>7. T # {}
  <2> SUFFICES ASSUME T = {} PROVE FALSE
    OBVIOUS
  <2>1. Cardinality(T) = 0
    BY FS_EmptySet
  <2> DEFINE f == [j \in 1 .. 0 |-> 0]
  <2>2. f \in [1 .. Cardinality(T) -> T] /\ Increasing(f)
    BY <2>1 DEF Increasing
  <2> QED BY <1>5, <2>2
<1>8. PICK top \in T : \A x \in T : x <= top
  <2> DEFINE above == {Size - x : x \in T}
  <2>1. above \subseteq 0 .. Size /\ above # {} /\ Size \in Nat
    <3>1. ASSUME NEW x \in T PROVE Size - x \in 0 .. Size
      <4>1. x \in Cells
        OBVIOUS
      <4> QED BY <4>1, LayoutAssumption DEF Cells
    <3> QED BY <1>7, <3>1, LayoutAssumption
  <2>2. Least(above) \in above /\ \A y \in above : Least(above) <= y
    <3> HIDE DEF above
    <3> QED BY <2>1, LeastIsLeast
  <2>3. PICK t \in T : Least(above) = Size - t
    BY <2>2
  <2>4. \A x \in T : Size - t <= Size - x /\ x \in Int
    <3> HIDE DEF above
    <3>1. \A x \in T : Size - x \in above
      BY DEF above
    <3> QED BY <2>2, <2>3, <3>1 DEF Cells
  <2>5. \A x \in T : x <= t
    BY <2>4, LayoutAssumption
  <2> QED BY <2>5
<1> DEFINE U == T \ {top}
<1>9. U \in SUBSET Cells /\ Cardinality(U) = n - 1 /\ n > 0
  <2>1. Cardinality(U) = Cardinality(T) - 1 /\ IsFiniteSet(U)
    BY <1>6, FS_RemoveElement
  <2>2. Cardinality(U) \in Nat
    BY <2>1, FS_CardinalityType
  <2> QED BY <1>5, <1>6, <2>1, <2>2
<1>10. Good(U)
  <2>1. n - 1 \in 0 .. Size /\ n - 1 \notin Bad
    BY <1>3, <1>4, <1>6, <1>9
  <2> HIDE DEF U
  <2> QED BY <1>9, <2>1 DEF Bad
<1>11. PICK f \in [1 .. n - 1 -> U] : Increasing(f)
  BY <1>9, <1>10
<1> DEFINE g == [j \in 1 .. n |-> IF j = n THEN top ELSE f[j]]
<1>12. g \in [1 .. Cardinality(T) -> T]
  <2>1. \A j \in 1 .. n : j # n => j \in 1 .. n - 1
    BY <1>6
  <2> QED BY <1>5, <2>1
<1>13. Increasing(g)
  <2> SUFFICES ASSUME NEW j \in 1 .. n, NEW k \in 1 .. n, j < k PROVE g[j] < g[k]
    BY DEF Increasing
  <2>1. j \in 1 .. n - 1 /\ g[j] = f[j] /\ f[j] \in U /\ j # n
    BY <1>6
  <2>2. CASE k = n
    <3>1. f[j] \in T /\ f[j] # top /\ f[j] \in Cells /\ top \in Cells
      BY <2>1
    <3>2. f[j] <= top /\ f[j] \in Int /\ top \in Int
      BY <1>8, <3>1 DEF Cells
    <3>3. f[j] < top
      BY <3>1, <3>2
    <3> QED BY <2>1, <2>2, <3>3, <1>6
  <2>3. CASE k # n
    <3>1. k \in 1 .. n - 1 /\ g[k] = f[k]
      BY <1>6, <2>3
    <3> QED BY <1>11, <2>1, <3>1 DEF Increasing
  <2> QED BY <2>2, <2>3
<1> QED BY <1>5, <1>12, <1>13

\* The order of a set of cells names each of them once.
LEMMA OrderIs ==
    ASSUME NEW S \in SUBSET Cells
    PROVE  /\ Order(S) \in [1 .. Cardinality(S) -> S]
           /\ \A i \in S : \E j \in 1 .. Cardinality(S) : Order(S)[j] = i
<1> DEFINE n == Cardinality(S)
           f == Order(S)
<1>1. f \in [1 .. n -> S] /\ \A j, k \in 1 .. n : j < k => f[j] < f[k]
  <2>1. \E g \in [1 .. n -> S] : \A j, k \in DOMAIN g : j < k => g[j] < g[k]
    BY OrderExists DEF Increasing
  <2> QED BY <2>1 DEF Order
<1>2. IsFiniteSet(S) /\ n \in Nat
  BY CellsFinite
<1> HIDE DEF f, n
<1>3. f \in Injection(1 .. n, S)
  <2> SUFFICES ASSUME NEW j \in 1 .. n, NEW k \in 1 .. n, f[j] = f[k] PROVE j = k
    BY <1>1 DEF Injection, IsInjective
  <2>1. f[j] \in Cells
    BY <1>1
  <2>2. f[j] \in Int
    BY <2>1 DEF Cells
  <2>3. ~(j < k) /\ ~(k < j)
    BY <1>1, <2>2
  <2> QED BY <1>2, <2>3
<1> DEFINE R == {f[j] : j \in 1 .. n}
<1>4. f \in Surjection(1 .. n, R) /\ f \in Injection(1 .. n, R)
  BY <1>1, <1>3 DEF Surjection, Injection, IsInjective
<1>5. IsFiniteSet(1 .. n) /\ Cardinality(1 .. n) = n
  <2>1. 1 \in Int /\ n \in Int
    BY <1>2
  <2>2. Cardinality(1 .. n) = IF 1 > n THEN 0 ELSE n - 1 + 1
    BY <2>1, FS_Interval
  <2> QED BY <1>2, <2>1, <2>2, FS_Interval
<1>6. R \subseteq S /\ Cardinality(R) = n
  <2> HIDE DEF R
  <2>1. Cardinality(R) = n
    BY <1>4, <1>5, FS_Surjection
  <2> QED BY <1>1, <2>1 DEF R
<1>7. R = S
  <2> HIDE DEF R
  <2> QED BY <1>2, <1>6, FS_Subset DEF n
<1> QED BY <1>1, <1>7 DEF f, n

-----------------------------------------------------------------------------
(* The snapshot.                                                           *)

\* A saved cell: its row is rotated to its position.
Saved == [pos : Nat, seqs : SUBSET Seqs, row : Row]

Upright(e) == e.row.tok \in Toks /\ e.row.rot = e.pos

\* The cells of the snapshot that belong to sequence s.
Of(s) == {j \in 1 .. Len(snap.cells) : snap.all => s \in snap.cells[j].seqs}

\* The snapshot fits into the cache, and says what each sequence held.
SnapInv ==
    /\ snap.all \in BOOLEAN
    /\ snap.cells \in Seq(Saved) /\ Len(snap.cells) <= Size
    /\ \A j \in 1 .. Len(snap.cells) :
          Upright(snap.cells[j]) /\ (snap.all => snap.cells[j].seqs # {})
    /\ \A s \in Seqs : snap.held[s] = {<<snap.cells[j].pos, snap.cells[j].row.tok>> : j \in Of(s)}

\* What is written of a cache: each cell of S once.
LEMMA WrittenIs ==
    ASSUME NEW c, Sound(c), Rooted(c), ~c.hasShift, NEW S \in SUBSET Live(c), NEW all \in BOOLEAN
    PROVE  LET w == Written(c, S, all)
               cell(i) == [pos |-> c.pos[i], seqs |-> IF all THEN c.seqs[i] ELSE {}, row |-> c.row[i]]
           IN  /\ w \in Seq(Saved) /\ Len(w) <= Size
               /\ \A j \in 1 .. Len(w) : Upright(w[j]) /\ \E i \in S : w[j] = cell(i)
               /\ \A i \in S : \E j \in 1 .. Len(w) : w[j] = cell(i)
<1> DEFINE w == Written(c, S, all)
           cell(i) == [pos |-> c.pos[i], seqs |-> IF all THEN c.seqs[i] ELSE {}, row |-> c.row[i]]
           n == Cardinality(S)
<1>1. S \in SUBSET Cells /\ n \in 0 .. Size /\ n \in Nat
  <2>1. S \in SUBSET Cells
    BY DEF Live
  <2>2. n \in 0 .. Size
    BY <2>1, CellsFinite
  <2> QED BY <2>1, <2>2
<1>2. ASSUME NEW i \in S PROVE cell(i) \in Saved /\ Upright(cell(i))
  <2>1. i \in Live(c) /\ i \in Cells /\ i \in Taken(c)
    BY <1>1 DEF Sound
  <2>2. c.pos[i] \in Nat /\ c.seqs[i] \in SUBSET Seqs /\ c.row[i] \in Row
    BY <2>1 DEF Sound, Taken, Cache
  <2>3. c.row[i].tok \in Toks /\ c.row[i].rot + 0 = c.pos[i] /\ c.row[i].rot \in Int
    <3>1. c.delta[i] = 0
      BY <2>1 DEF Rooted
    <3> QED BY <2>1, <2>2, <3>1 DEF Rooted, Row
  <2>4. cell(i).pos = c.pos[i] /\ cell(i).row = c.row[i]
    OBVIOUS
  <2>5. Upright(cell(i))
    BY <2>3, <2>4 DEF Upright
  <2> QED BY <2>2, <2>5 DEF Saved
<1>3. w = [j \in 1 .. n |-> cell(Order(S)[j])]
  BY DEF Written
<1>4. /\ \A j \in 1 .. n : Order(S)[j] \in S
      /\ \A i \in S : \E j \in 1 .. n : Order(S)[j] = i
  BY <1>1, OrderIs
<1> HIDE DEF cell, w, n
<1>5. w \in [1 .. n -> Saved]
  BY <1>2, <1>3, <1>4
<1>6. w \in Seq(Saved) /\ Len(w) = n
  BY <1>1, <1>5, SeqDef, LenProperties
<1>7. \A j \in 1 .. n : w[j] = cell(Order(S)[j])
  BY <1>3
<1>8. \A j \in 1 .. n : Upright(w[j]) /\ \E i \in S : w[j] = cell(i)
  BY <1>2, <1>4, <1>7
<1>9. \A i \in S : \E j \in 1 .. n : w[j] = cell(i)
  BY <1>4, <1>7
<1> QED BY <1>1, <1>6, <1>8, <1>9 DEF w, cell

LEMMA SaveSeqKeeps ==
    ASSUME Sound(cache), Rooted(cache), ~cache.hasShift, SaveSeq
    PROVE  SnapInv'
<1>1. PICK s \in Seqs :
         snap' = [all |-> FALSE, cells |-> Written(cache, {i \in Cells : s \in cache.seqs[i]}, FALSE),
                  held |-> [d \in Seqs |-> Holds(cache, s)]]
  BY DEF SaveSeq
<1> DEFINE S == {i \in Cells : s \in cache.seqs[i]}
           w == Written(cache, S, FALSE)
           cell(i) == [pos |-> cache.pos[i], seqs |-> {}, row |-> cache.row[i]]
<1>2. S \in SUBSET Live(cache) /\ FALSE \in BOOLEAN
  BY DEF Live
<1> HIDE DEF S
<1>3. /\ w \in Seq(Saved) /\ Len(w) <= Size
      /\ \A j \in 1 .. Len(w) : Upright(w[j]) /\ \E i \in S : w[j] = cell(i)
      /\ \A i \in S : \E j \in 1 .. Len(w) : w[j] = cell(i)
  BY <1>2, WrittenIs
<1>4. snap'.all = FALSE /\ snap'.cells = w /\ \A d \in Seqs : snap'.held[d] = Holds(cache, s)
  BY <1>1 DEF S
<1> HIDE DEF w
<1>5. Holds(cache, s) = {<<w[j].pos, w[j].row.tok>> : j \in 1 .. Len(w)}
  <2>1. Holds(cache, s) = {<<cell(i).pos, cell(i).row.tok>> : i \in S}
    BY DEF Holds, S
  <2> DEFINE R == {<<w[j].pos, w[j].row.tok>> : j \in 1 .. Len(w)}
             L == {<<cell(i).pos, cell(i).row.tok>> : i \in S}
  <2> HIDE DEF cell
  <2>2. ASSUME NEW i \in S PROVE <<cell(i).pos, cell(i).row.tok>> \in R
    <3>1. PICK j \in 1 .. Len(w) : w[j] = cell(i)
      BY <1>3
    <3> QED BY <3>1
  <2>3. ASSUME NEW j \in 1 .. Len(w) PROVE <<w[j].pos, w[j].row.tok>> \in L
    <3>1. PICK i \in S : w[j] = cell(i)
      BY <1>3
    <3> QED BY <3>1
  <2>4. L = R
    BY <2>2, <2>3, Zenon
  <2> QED BY <2>1, <2>4
<1>6. \A d \in Seqs : Of(d)' = 1 .. Len(w)
  BY <1>4 DEF Of
<1> QED BY <1>3, <1>4, <1>5, <1>6, ZenonT(60) DEF SnapInv

LEMMA SaveAllKeeps ==
    ASSUME Sound(cache), Rooted(cache), ~cache.hasShift, SaveAll
    PROVE  SnapInv'
<1> DEFINE S == Live(cache)
           w == Written(cache, S, TRUE)
           cell(i) == [pos |-> cache.pos[i], seqs |-> cache.seqs[i], row |-> cache.row[i]]
<1>1. snap' = [all |-> TRUE, cells |-> w, held |-> [s \in Seqs |-> Holds(cache, s)]]
  BY DEF SaveAll
<1>2. S \in SUBSET Live(cache) /\ TRUE \in BOOLEAN
  OBVIOUS
<1> HIDE DEF S
<1>3. /\ w \in Seq(Saved) /\ Len(w) <= Size
      /\ \A j \in 1 .. Len(w) : Upright(w[j]) /\ \E i \in S : w[j] = cell(i)
      /\ \A i \in S : \E j \in 1 .. Len(w) : w[j] = cell(i)
  BY <1>2, WrittenIs
<1>4. snap'.all = TRUE /\ snap'.cells = w /\ \A d \in Seqs : snap'.held[d] = Holds(cache, d)
  BY <1>1
<1> HIDE DEF w
<1>5. ASSUME NEW s \in Seqs
      PROVE  Holds(cache, s) = {<<w[j].pos, w[j].row.tok>> : j \in {k \in 1 .. Len(w) : s \in w[k].seqs}}
  <2>1. Holds(cache, s) = {<<cell(i).pos, cell(i).row.tok>> : i \in {k \in S : s \in cell(k).seqs}}
    BY DEF Holds, Live, S
  <2> DEFINE R == {<<w[j].pos, w[j].row.tok>> : j \in {k \in 1 .. Len(w) : s \in w[k].seqs}}
             L == {<<cell(i).pos, cell(i).row.tok>> : i \in {k \in S : s \in cell(k).seqs}}
  <2> HIDE DEF cell
  <2>2. ASSUME NEW i \in S, s \in cell(i).seqs PROVE <<cell(i).pos, cell(i).row.tok>> \in R
    <3>1. PICK j \in 1 .. Len(w) : w[j] = cell(i)
      BY <1>3
    <3> QED BY <2>2, <3>1
  <2>3. ASSUME NEW j \in 1 .. Len(w), s \in w[j].seqs PROVE <<w[j].pos, w[j].row.tok>> \in L
    <3>1. PICK i \in S : w[j] = cell(i)
      BY <1>3
    <3> QED BY <2>3, <3>1
  <2>4. L = R
    BY <2>2, <2>3, Zenon
  <2> QED BY <2>1, <2>4
<1>6. \A s \in Seqs : Of(s)' = {k \in 1 .. Len(w) : s \in w[k].seqs}
  BY <1>4 DEF Of
<1>7. \A j \in 1 .. Len(w) : w[j].seqs # {}
  <2>1. \A i \in S : cell(i).seqs # {}
    BY DEF Live, S
  <2> HIDE DEF cell
  <2> QED BY <1>3, <2>1
<1>8. ASSUME NEW s \in Seqs
      PROVE  snap'.held[s] = {<<snap'.cells[j].pos, snap'.cells[j].row.tok>> : j \in Of(s)'}
  BY <1>4, <1>5, <1>6
<1>9. \A j \in 1 .. Len(w) : Upright(w[j])
  BY <1>3
<1> HIDE DEF cell
<1>10. w \in Seq(Saved) /\ Len(w) <= Size
  BY <1>3
<1> QED BY <1>4, <1>7, <1>8, <1>9, <1>10 DEF SnapInv

-----------------------------------------------------------------------------
(* Restoring one sequence.                                                 *)

\* A sequence that is removed is gone, and nothing else is.
LEMMA RmIs ==
    ASSUME NEW c, Sound(c), NEW d \in Seqs
    PROVE  LET e == SeqRm(c, d, -1, -1)
           IN  /\ Sound(e) /\ (Rooted(c) => Rooted(e))
               /\ e.row = c.row /\ e.delta = c.delta /\ e.hasShift = c.hasShift
               /\ \A i \in Cells : e.seqs[i] = c.seqs[i] \ {d}
               /\ \A i \in Live(e) : e.pos[i] = c.pos[i]
<1> DEFINE e == SeqRm(c, d, -1, -1)
<1>1. c \in Cache /\ d # AnySeq /\ -1 \in Int
  BY CallerAssumption DEF Sound
<1>2. Sound(e) /\ (Rooted(c) => Rooted(e))
  BY <1>1, SeqRmSound
<1>3. e.row = c.row /\ e.delta = c.delta /\ e.hasShift = c.hasShift
  BY <1>1 DEF SeqRm, Cache
<1>4. ASSUME NEW i \in Cells
      PROVE  e.seqs[i] = c.seqs[i] \ {d} /\ (e.seqs[i] # {} => e.pos[i] = c.pos[i])
  <2>1. Within(c.pos[i], -1, -1) <=> c.seqs[i] # {}
    <3>1. i \in Live(c) <=> i \in Taken(c)
      BY DEF Sound
    <3>2. c.pos[i] \in Int
      BY <1>1 DEF Cache
    <3> QED BY <3>1, <3>2 DEF Live, Taken, Within
  <2>2. e.seqs[i] = IF Within(c.pos[i], -1, -1) /\ d \in c.seqs[i] THEN c.seqs[i] \ {d} ELSE c.seqs[i]
    BY <1>1 DEF SeqRm, Cache
  <2>3. e.seqs[i] # {} => e.pos[i] = c.pos[i]
    BY <1>1, <2>2 DEF SeqRm, Cache
  <2> QED BY <2>1, <2>2, <2>3
<1> HIDE DEF e
<1> QED BY <1>2, <1>3, <1>4 DEF e, Live

\* What each sequence holds depends on the cells it is in.
LEMMA HoldsSame ==
    ASSUME NEW c, NEW e, NEW s,
           \A i \in Cells : /\ s \in e.seqs[i] <=> s \in c.seqs[i]
                            /\ s \in e.seqs[i] => e.pos[i] = c.pos[i] /\ e.row[i] = c.row[i]
    PROVE  Holds(e, s) = Holds(c, s)
  BY DEF Holds

LEMMA RmHolds ==
    ASSUME NEW c, Sound(c), NEW d \in Seqs
    PROVE  LET e == SeqRm(c, d, -1, -1)
           IN  Holds(e, d) = {} /\ \A s \in Seqs \ {d} : Holds(e, s) = Holds(c, s)
<1> DEFINE e == SeqRm(c, d, -1, -1)
<1>1. /\ e.row = c.row /\ \A i \in Cells : e.seqs[i] = c.seqs[i] \ {d}
      /\ \A i \in Live(e) : e.pos[i] = c.pos[i]
  BY RmIs
<1> HIDE DEF e
<1>2. Holds(e, d) = {}
  BY <1>1 DEF Holds
<1>3. ASSUME NEW s \in Seqs \ {d} PROVE Holds(e, s) = Holds(c, s)
  <2>1. ASSUME NEW i \in Cells
        PROVE  /\ s \in e.seqs[i] <=> s \in c.seqs[i]
               /\ s \in e.seqs[i] => e.pos[i] = c.pos[i] /\ e.row[i] = c.row[i]
    BY <1>1 DEF Live
  <2> QED BY <2>1, HoldsSame
<1> QED BY <1>2, <1>3 DEF e

\* The cells of the snapshot are placed like a ubatch.
LEMMA PlacedIs ==
    ASSUME SnapInv, snap.cells # <<>>, NEW c, Sound(c), NEW d \in Seqs,
           CanPlace(c, Len(snap.cells)), NEW p, p = Placed(c, Tokens(d))
    PROVE  LET slot == p.head .. p.head + Len(snap.cells) - 1
           IN  /\ Sound(p) /\ p.head \in Nat
               /\ slot \subseteq Cells /\ slot \cap Live(c) = {} /\ Live(p) = Live(c) \cup slot
               /\ \A i \in Cells \ slot : p.pos[i] = c.pos[i] /\ p.seqs[i] = c.seqs[i]
               /\ \A i \in slot : /\ i - p.head + 1 \in 1 .. Len(snap.cells)
                                  /\ p.pos[i] = snap.cells[i - p.head + 1].pos
                                  /\ p.seqs[i] = {d}
               /\ p.row = c.row /\ p.delta = c.delta /\ p.hasShift = c.hasShift
<1> DEFINE n == Len(snap.cells)
           u == Tokens(d)
           slot == p.head .. p.head + n - 1
<1>1. n \in Nat \ {0} /\ snap.cells \in [1 .. n -> Saved]
  BY EmptySeq, LenProperties DEF SnapInv
<1>2. u = [j \in 1 .. n |-> [pos |-> snap.cells[j].pos, seqs |-> {d}]]
  BY <1>1 DEF Tokens
<1> HIDE DEF n, u
<1>3. \A j \in 1 .. n : /\ u[j].pos = snap.cells[j].pos /\ u[j].seqs = {d}
                        /\ snap.cells[j].pos \in Nat
  BY <1>1, <1>2 DEF Saved
<1>4. Len(u) = n
  <2> DEFINE V == [pos : Nat, seqs : SUBSET Seqs]
  <2>1. u \in [1 .. n -> V]
    BY <1>1, <1>2, <1>3
  <2> HIDE DEF V
  <2>2. u \in Seq(V)
    BY <1>1, <2>1, SeqDef
  <2> QED BY <1>1, <2>1, <2>2, LenProperties
<1>5. Placeable(u)
  BY <1>1, <1>3, <1>4 DEF Placeable
<1>6. CanPlace(c, Len(u))
  BY <1>4 DEF n
<1>7. /\ Sound(p) /\ p.head \in Nat
      /\ slot \subseteq Cells /\ slot \cap Live(c) = {} /\ Live(p) = Live(c) \cup slot
      /\ \A i \in Cells \ slot : p.pos[i] = c.pos[i] /\ p.seqs[i] = c.seqs[i]
      /\ \A i \in slot : /\ i - p.head + 1 \in 1 .. n
                         /\ p.pos[i] = u[i - p.head + 1].pos
                         /\ p.seqs[i] = u[i - p.head + 1].seqs
      /\ p.row = c.row /\ p.delta = c.delta /\ p.hasShift = c.hasShift
  <2> DEFINE q == Placed(c, u)
             there == q.head .. q.head + Len(u) - 1
  <2>1. /\ Sound(q) /\ q.head \in Nat
        /\ there \subseteq Cells /\ there \cap Live(c) = {} /\ Live(q) = Live(c) \cup there
        /\ \A i \in Cells \ there : q.pos[i] = c.pos[i] /\ q.seqs[i] = c.seqs[i]
        /\ \A i \in there : /\ i - q.head + 1 \in 1 .. Len(u)
                           /\ q.pos[i] = u[i - q.head + 1].pos
                           /\ q.seqs[i] = u[i - q.head + 1].seqs
        /\ q.row = c.row /\ q.delta = c.delta /\ q.hasShift = c.hasShift
    BY <1>5, <1>6, PlacedSound
  <2>2. p = q
    BY DEF u
  <2> HIDE DEF q, there
  <2>3. there = slot
    BY <1>4, <2>2 DEF there
  <2> HIDE DEF slot
  <2> QED BY <1>4, <2>1, <2>2, <2>3
<1> HIDE DEF slot
<1>8. \A i \in slot : /\ i - p.head + 1 \in 1 .. n
                      /\ p.pos[i] = snap.cells[i - p.head + 1].pos
                      /\ p.seqs[i] = {d}
  BY <1>3, <1>7
<1> QED BY <1>7, <1>8 DEF slot, n

\* The rows of the snapshot go where its cells went, h the first of them.
RowsPut(p, h, e) ==
    LET slot == h .. h + Len(snap.cells) - 1
    IN  /\ Sound(e) /\ Live(e) = Live(p)
        /\ e.pos = p.pos /\ e.seqs = p.seqs /\ e.delta = p.delta /\ e.hasShift = p.hasShift
        /\ \A i \in Cells : /\ i \in slot => e.row[i] = snap.cells[i - h + 1].row
                            /\ i \notin slot => e.row[i] = p.row[i]

LEMMA WithRowsIs ==
    ASSUME SnapInv, NEW p, Sound(p), NEW h \in Nat, NEW e, e = WithRows(p, h)
    PROVE  RowsPut(p, h, e)
<1> DEFINE n == Len(snap.cells)
           slot == h .. h + n - 1
           row == [i \in Cells |-> IF i \in slot THEN snap.cells[i - h + 1].row ELSE p.row[i]]
<1>1. p \in Cache /\ n \in Nat /\ \A j \in 1 .. n : snap.cells[j] \in Saved
  BY LenProperties, ElementOfSeq DEF Sound, SnapInv
<1>2. e = [p EXCEPT !.row = row]
  BY <1>1 DEF WithRows
<1>3. row \in [Cells -> Row]
  <2>1. ASSUME NEW i \in slot PROVE snap.cells[i - h + 1].row \in Row
    <3>1. i - h + 1 \in 1 .. n
      BY <1>1
    <3> QED BY <1>1, <3>1 DEF Saved
  <2>2. \A i \in Cells : p.row[i] \in Row
    BY <1>1 DEF Cache
  <2> QED BY <2>1, <2>2
<1>4. \A i \in Cells : /\ i \in slot => row[i] = snap.cells[i - h + 1].row
                       /\ i \notin slot => row[i] = p.row[i]
  OBVIOUS
<1> HIDE DEF row, n, slot
<1>5. /\ e \in Cache /\ e.row = row /\ e.pos = p.pos /\ e.seqs = p.seqs /\ e.used = p.used
      /\ e.delta = p.delta /\ e.hasShift = p.hasShift
  BY <1>1, <1>2, <1>3 DEF Cache
<1>6. Live(e) = Live(p) /\ Taken(e) = Taken(p)
  BY <1>5 DEF Live, Taken
<1>7. Sound(e)
  BY <1>5, <1>6 DEF Sound
<1> QED BY <1>4, <1>5, <1>6, <1>7 DEF slot, n, RowsPut

\* A sequence is restored: it holds what was saved, and the others what they
\* held.
LEMMA Restored ==
    ASSUME SnapInv, ~snap.all, snap.cells # <<>>, NEW c, Sound(c), Rooted(c), ~c.hasShift,
           NEW d \in Seqs, NEW e, e = SeqRm(c, d, -1, -1), CanPlace(e, Len(snap.cells)),
           NEW p, p = Placed(e, Tokens(d)), NEW r, r = WithRows(p, p.head)
    PROVE  /\ Sound(p) /\ \A s \in Seqs \ {d} : Holds(p, s) = Holds(c, s)
           /\ Sound(r) /\ Rooted(r) /\ Holds(r, d) = snap.held[d]
           /\ \A s \in Seqs \ {d} : Holds(r, s) = Holds(c, s)
<1> DEFINE n == Len(snap.cells)
           slot == p.head .. p.head + n - 1
<1>1. /\ Sound(e) /\ Rooted(e) /\ ~e.hasShift /\ \A i \in Cells : d \notin e.seqs[i]
      /\ \A s \in Seqs \ {d} : Holds(e, s) = Holds(c, s)
  BY RmIs, RmHolds
<1>2. /\ Sound(p) /\ p.head \in Nat
      /\ slot \subseteq Cells /\ slot \cap Live(e) = {} /\ Live(p) = Live(e) \cup slot
      /\ \A i \in Cells \ slot : p.pos[i] = e.pos[i] /\ p.seqs[i] = e.seqs[i]
      /\ \A i \in slot : /\ i - p.head + 1 \in 1 .. n
                         /\ p.pos[i] = snap.cells[i - p.head + 1].pos
                         /\ p.seqs[i] = {d}
      /\ p.row = e.row /\ p.delta = e.delta /\ p.hasShift = e.hasShift
  BY <1>1, PlacedIs, SMTT(60)
<1>3. /\ Sound(r) /\ Live(r) = Live(p)
      /\ r.pos = p.pos /\ r.seqs = p.seqs /\ r.delta = p.delta /\ r.hasShift = p.hasShift
      /\ \A i \in Cells : /\ i \in slot => r.row[i] = snap.cells[i - p.head + 1].row
                          /\ i \notin slot => r.row[i] = p.row[i]
  <2>1. Sound(p) /\ p.head \in Nat
    BY <1>2
  <2> DEFINE h == p.head
  <2>2. h \in Nat /\ r = WithRows(p, h)
    BY <2>1
  <2> HIDE DEF h, n, slot
  <2>3. RowsPut(p, h, r)
    BY <2>1, <2>2, WithRowsIs
  <2> QED BY <2>3 DEF h, n, slot, RowsPut
<1>4. n \in Nat /\ \A j \in 1 .. n : snap.cells[j] \in Saved /\ Upright(snap.cells[j])
  BY LenProperties, ElementOfSeq DEF SnapInv
<1>5. ASSUME NEW j \in 1 .. n PROVE \E i \in slot : i - p.head + 1 = j
  <2>1. p.head + j - 1 \in slot /\ (p.head + j - 1) - p.head + 1 = j
    BY <1>2, <1>4
  <2> QED BY <2>1
<1> HIDE DEF slot, n
<1>6. ASSUME NEW s \in Seqs \ {d}
      PROVE  Holds(p, s) = Holds(c, s) /\ Holds(r, s) = Holds(c, s)
  <2>1. ASSUME NEW i \in Cells
        PROVE  /\ s \in p.seqs[i] <=> s \in e.seqs[i]
               /\ s \in p.seqs[i] => p.pos[i] = e.pos[i] /\ i \notin slot
    <3>1. CASE i \in slot
      <4>1. e.seqs[i] = {}
        BY <1>2, <3>1 DEF Live
      <4> QED BY <1>2, <3>1, <4>1
    <3>2. CASE i \notin slot
      BY <1>2, <3>2
    <3> QED BY <3>1, <3>2
  <2>2. Holds(p, s) = Holds(e, s)
    BY <1>2, <2>1, HoldsSame
  <2>3. Holds(r, s) = Holds(e, s)
    BY <1>2, <1>3, <2>1, HoldsSame
  <2> QED BY <1>1, <2>2, <2>3
<1>7. Holds(r, d) = snap.held[d]
  <2>1. snap.held[d] = {<<snap.cells[j].pos, snap.cells[j].row.tok>> : j \in 1 .. n}
    <3>1. Of(d) = 1 .. n
      BY DEF Of, n
    <3> QED BY <3>1 DEF SnapInv
  <2>2. \A i \in Cells : d \in r.seqs[i] <=> i \in slot
    BY <1>1, <1>2, <1>3
  <2>3. ASSUME NEW i \in slot
        PROVE  /\ i - p.head + 1 \in 1 .. n
               /\ r.pos[i] = snap.cells[i - p.head + 1].pos
               /\ r.row[i].tok = snap.cells[i - p.head + 1].row.tok
    <3>1. i \in Cells
      BY <1>2
    <3> QED BY <1>2, <1>3, <3>1
  <2>4. Holds(r, d) = {<<r.pos[i], r.row[i].tok>> : i \in slot}
    BY <1>2, <2>2 DEF Holds
  <2>5. {<<r.pos[i], r.row[i].tok>> : i \in slot} =
        {<<snap.cells[j].pos, snap.cells[j].row.tok>> : j \in 1 .. n}
    <3> DEFINE F(i) == <<r.pos[i], r.row[i].tok>>
               G(j) == <<snap.cells[j].pos, snap.cells[j].row.tok>>
    <3>1. \A i \in slot : i - p.head + 1 \in 1 .. n /\ F(i) = G(i - p.head + 1)
      BY <2>3
    <3> HIDE DEF F, G
    <3>2. \A j \in 1 .. n : \E i \in slot : F(i) = G(j)
      BY <1>5, <3>1
    <3>3. {F(i) : i \in slot} = {G(j) : j \in 1 .. n}
      BY <3>1, <3>2
    <3> QED BY <3>3 DEF F, G
  <2> QED BY <2>1, <2>4, <2>5
<1>8. Rooted(r)
  <2>1. \A i \in Cells : r.delta[i] = 0 /\ e.delta[i] = 0
    BY <1>1, <1>2, <1>3 DEF Rooted
  <2>2. ASSUME NEW i \in Live(r)
        PROVE  r.row[i].tok \in Toks /\ r.row[i].rot + r.delta[i] = r.pos[i]
    <3>1. i \in Cells
      BY DEF Live
    <3>2. CASE i \in slot
      <4> DEFINE x == snap.cells[i - p.head + 1]
      <4>1. x \in Saved /\ Upright(x) /\ r.row[i] = x.row /\ r.pos[i] = x.pos
        BY <1>2, <1>3, <1>4, <3>1, <3>2
      <4> HIDE DEF x
      <4> QED BY <2>1, <3>1, <4>1 DEF Upright, Saved
    <3>3. CASE i \notin slot
      <4>1. i \in Live(e) /\ r.row[i] = e.row[i] /\ r.pos[i] = e.pos[i] /\ r.delta[i] = e.delta[i]
        BY <1>2, <1>3, <3>1, <3>3
      <4> QED BY <1>1, <4>1 DEF Rooted
    <3> QED BY <3>2, <3>3
  <2> QED BY <2>1, <2>2 DEF Rooted
<1> QED BY <1>2, <1>3, <1>6, <1>7, <1>8

\* No room: the sequence is gone, and nothing else.
LEMMA NotRestored ==
    ASSUME NEW c, Sound(c), Rooted(c), NEW d \in Seqs, NEW k \in Nat \ {0},
           NEW e, e = SeqRm(c, d, -1, -1), ~CanPlace(e, k),
           NEW r, r = SeqRm(Full(e, k), d, -1, -1)
    PROVE  /\ Sound(r) /\ Rooted(r) /\ Holds(r, d) = {}
           /\ \A s \in Seqs \ {d} : Holds(r, s) = Holds(c, s)
<1> DEFINE f == Full(e, k)
<1>1. Sound(e) /\ Rooted(e) /\ \A s \in Seqs \ {d} : Holds(e, s) = Holds(c, s)
  BY RmIs, RmHolds
<1>2. Sound(f) /\ Rooted(f)
  BY <1>1, FullSound
<1>3. f.pos = e.pos /\ f.seqs = e.seqs /\ f.row = e.row
  BY <1>1 DEF Full, Sound, Cache
<1> HIDE DEF f
<1>4. \A s \in Seqs : Holds(f, s) = Holds(e, s)
  BY <1>3 DEF Holds
<1>5. /\ Sound(r) /\ Rooted(r) /\ Holds(r, d) = {}
      /\ \A s \in Seqs \ {d} : Holds(r, s) = Holds(f, s)
  BY <1>2, RmIs, RmHolds DEF f
<1> QED BY <1>1, <1>4, <1>5

-----------------------------------------------------------------------------
(* Restoring the whole cache.                                              *)

LEMMA FilledIs ==
    ASSUME SnapInv, snap.all, Sound(cache), NEW n, n = Len(snap.cells),
           NEW e, e = FilledAll(n)
    PROVE  /\ Sound(e) /\ e.delta = cache.delta /\ e.hasShift = cache.hasShift
           /\ n \in Nat /\ 0 .. n - 1 \subseteq Cells /\ Live(e) = 0 .. n - 1
           /\ \A i \in 0 .. n - 1 : i + 1 \in 1 .. n /\ e.pos[i] = snap.cells[i + 1].pos
                                                     /\ e.seqs[i] = snap.cells[i + 1].seqs
<1> DEFINE c == Clear(cache)
           pos == [i \in Cells |-> IF i < n THEN snap.cells[i + 1].pos ELSE c.pos[i]]
           seqs == [i \in Cells |-> IF i < n THEN snap.cells[i + 1].seqs ELSE c.seqs[i]]
<1>1. n \in Nat /\ n <= Size /\ \A j \in 1 .. n : snap.cells[j] \in Saved /\ snap.cells[j].seqs # {}
  BY LenProperties, ElementOfSeq DEF SnapInv
<1>2. /\ c \in Cache /\ c.delta = cache.delta /\ c.hasShift = cache.hasShift
      /\ \A i \in Cells : c.pos[i] = -1 /\ c.seqs[i] = {}
  <2>1. c \in Cache
    BY ClearSound DEF Sound
  <2>2. \A i \in Cells : c.pos[i] = -1 /\ c.seqs[i] = {}
    BY DEF Clear, Sound, Cache
  <2> QED BY <2>1, <2>2 DEF Clear, Sound, Cache
<1> HIDE DEF c
<1>3. e = [c EXCEPT !.pos = pos, !.seqs = seqs, !.used = n]
  BY <1>2 DEF FilledAll, Filled, c, Cache
<1>4. ASSUME NEW i \in Cells
      PROVE  /\ i < n => /\ i \in 0 .. n - 1 /\ i + 1 \in 1 .. n
                         /\ snap.cells[i + 1].pos \in Nat
                         /\ snap.cells[i + 1].seqs \in (SUBSET Seqs) \ {{}}
             /\ i \in 0 .. n - 1 => i < n
  BY <1>1 DEF Cells, Saved
<1>5. pos \in [Cells -> Int] /\ seqs \in [Cells -> SUBSET Seqs] /\ n \in 0 .. Size
  BY <1>1, <1>2, <1>4, SMTT(60) DEF Cache
<1>6. \A i \in Cells : /\ i < n => pos[i] = snap.cells[i + 1].pos /\ seqs[i] = snap.cells[i + 1].seqs
                       /\ ~(i < n) => pos[i] = -1 /\ seqs[i] = {}
  BY <1>2
<1> HIDE DEF pos, seqs
<1>7. /\ e \in Cache /\ e.pos = pos /\ e.seqs = seqs /\ e.used = n
      /\ e.delta = c.delta /\ e.hasShift = c.hasShift
  BY <1>2, <1>3, <1>5 DEF Cache
<1>8. 0 .. n - 1 \subseteq Cells
  BY <1>1, LayoutAssumption DEF Cells
<1>9. Live(e) = 0 .. n - 1 /\ Taken(e) = 0 .. n - 1
  BY <1>4, <1>6, <1>7, <1>8 DEF Live, Taken
<1>10. Cardinality(0 .. n - 1) = n
  <2>1. 0 \in Int /\ n - 1 \in Int
    BY <1>1
  <2>2. Cardinality(0 .. n - 1) = IF 0 > n - 1 THEN 0 ELSE (n - 1) - 0 + 1
    BY <2>1, FS_Interval
  <2> QED BY <1>1, <2>2
<1>11. \A i \in Cells : e.pos[i] >= -1
  BY <1>4, <1>6, <1>7
<1>12. Sound(e)
  BY <1>7, <1>9, <1>10, <1>11 DEF Sound
<1> QED BY <1>1, <1>2, <1>4, <1>6, <1>7, <1>8, <1>9, <1>12

\* The cache is restored: every sequence holds what it held when it was saved.
LEMMA AllRestored ==
    ASSUME SnapInv, snap.all, Sound(cache), Rooted(cache), ~cache.hasShift,
           NEW r, r = WithRows(FilledAll(Len(snap.cells)), 0)
    PROVE  Sound(r) /\ Rooted(r) /\ \A s \in Seqs : Holds(r, s) = snap.held[s]
<1> DEFINE n == Len(snap.cells)
           e == FilledAll(n)
<1>1. /\ Sound(e) /\ e.delta = cache.delta /\ e.hasShift = cache.hasShift
      /\ n \in Nat /\ 0 .. n - 1 \subseteq Cells /\ Live(e) = 0 .. n - 1
      /\ \A i \in 0 .. n - 1 : i + 1 \in 1 .. n /\ e.pos[i] = snap.cells[i + 1].pos
                                                /\ e.seqs[i] = snap.cells[i + 1].seqs
  BY FilledIs
<1> HIDE DEF e
<1>2. /\ Sound(r) /\ Live(r) = Live(e)
      /\ r.pos = e.pos /\ r.seqs = e.seqs /\ r.delta = e.delta /\ r.hasShift = e.hasShift
      /\ \A i \in 0 .. n - 1 : r.row[i] = snap.cells[i + 1].row
  <2> DEFINE h == 0
  <2>1. h \in Nat /\ r = WithRows(e, h)
    BY DEF e
  <2> HIDE DEF h
  <2>2. RowsPut(e, h, r)
    <3>1. Sound(e)
      BY <1>1
    <3> HIDE DEF n
    <3> QED BY <2>1, <3>1, WithRowsIs
  <2>3. \A i \in 0 .. n - 1 : i \in Cells /\ i \in h .. h + Len(snap.cells) - 1 /\ i - h + 1 = i + 1
    BY <1>1 DEF h
  <2> HIDE DEF n
  <2> QED BY <2>2, <2>3 DEF RowsPut
<1>3. \A j \in 1 .. n : snap.cells[j] \in Saved /\ Upright(snap.cells[j])
  BY LenProperties, ElementOfSeq DEF SnapInv
<1> HIDE DEF n
<1>4. Rooted(r)
  <2>1. \A i \in Cells : r.delta[i] = 0
    BY <1>1, <1>2 DEF Rooted
  <2>2. ASSUME NEW i \in Live(r)
        PROVE  r.row[i].tok \in Toks /\ r.row[i].rot + r.delta[i] = r.pos[i]
    <3> DEFINE x == snap.cells[i + 1]
    <3>1. i \in Cells /\ x \in Saved /\ Upright(x) /\ r.row[i] = x.row /\ r.pos[i] = x.pos
      BY <1>1, <1>2, <1>3
    <3> HIDE DEF x
    <3> QED BY <2>1, <3>1 DEF Upright, Saved
  <2> QED BY <2>1, <2>2 DEF Rooted
<1>5. ASSUME NEW s \in Seqs PROVE Holds(r, s) = snap.held[s]
  <2> DEFINE F(i) == <<r.pos[i], r.row[i].tok>>
             G(j) == <<snap.cells[j].pos, snap.cells[j].row.tok>>
             I == {i \in 0 .. n - 1 : s \in snap.cells[i + 1].seqs}
             J == {j \in 1 .. n : s \in snap.cells[j].seqs}
  <2>1. snap.held[s] = {G(j) : j \in J}
    <3>1. Of(s) = J
      BY DEF Of, n
    <3> QED BY <3>1 DEF SnapInv
  <2>2. Holds(r, s) = {F(i) : i \in I}
    <3>1. {i \in Cells : s \in r.seqs[i]} = I
      <4>1. \A i \in Cells : s \in r.seqs[i] => i \in 0 .. n - 1
        BY <1>1, <1>2 DEF Live
      <4> QED BY <1>1, <1>2, <4>1
    <3> QED BY <3>1 DEF Holds
  <2>3. \A i \in I : i + 1 \in J /\ F(i) = G(i + 1)
    BY <1>1, <1>2
  <2>4. \A j \in J : j - 1 \in I /\ (j - 1) + 1 = j
    BY <1>1
  <2> HIDE DEF F, G, I, J
  <2> QED BY <2>1, <2>2, <2>3, <2>4
<1> QED BY <1>2, <1>4, <1>5

-----------------------------------------------------------------------------
(* The theorems.                                                           *)

\* Only a restore of the whole cache that was cut short leaves a wrong `used`,
\* and only a restore cut short leaves rows that do not fit their cells.
KInv ==
    /\ call \in Seq(Entry)
    /\ Sound(cache) \/ (ended /\ snap.all)
    /\ Rooted(cache) \/ ended
    /\ SnapInv

LEMMA InitKInv == SInit => KInv
<1> SUFFICES ASSUME SInit PROVE KInv
  OBVIOUS
<1>1. IInv
  BY InitIInv DEF SInit
<1>2. snap.all = TRUE /\ snap.cells = <<>> /\ \A s \in Seqs : snap.held[s] = {}
  BY DEF SInit
<1>3. snap.cells \in Seq(Saved) /\ Len(snap.cells) = 0
  BY <1>2, EmptySeq, LenProperties
<1>4. \A s \in Seqs : Of(s) = {}
  BY <1>3 DEF Of
<1>5. \A s \in Seqs : {<<snap.cells[j].pos, snap.cells[j].row.tok>> : j \in Of(s)} = {}
  BY <1>4
<1>6. \A j \in 1 .. Len(snap.cells) : FALSE
  BY <1>3
<1>7. snap.all \in BOOLEAN /\ Len(snap.cells) <= Size
  <2>1. snap.all \in BOOLEAN
    BY <1>2, Zenon
  <2>2. Len(snap.cells) <= Size
    BY <1>3, LayoutAssumption
  <2> QED BY <2>1, <2>2
<1>8. SnapInv
  BY <1>2, <1>3, <1>5, <1>6, <1>7 DEF SnapInv
<1> QED BY <1>1, <1>8 DEF KInv, IInv

\* What a restore of one sequence leaves, however it ends.
LEMMA SeqStep ==
    ASSUME Settled, KInv, NEW d \in Seqs, Restoring(d)
    PROVE  LET e == Emptied(d)
               n == Len(snap.cells)
               p == Placed(e, Tokens(d))
               r == WithRows(p, p.head)
               f == SeqRm(Full(e, n), d, -1, -1)
           IN  /\ Sound(e) /\ Rooted(e) /\ \A s \in Seqs \ {d} : Holds(e, s) = Holds(cache, s)
               /\ snap.cells # <<>> /\ CanPlace(e, n) =>
                    /\ Sound(p) /\ \A s \in Seqs \ {d} : Holds(p, s) = Holds(cache, s)
                    /\ Sound(r) /\ Rooted(r) /\ Holds(r, d) = snap.held[d]
                    /\ \A s \in Seqs \ {d} : Holds(r, s) = Holds(cache, s)
               /\ snap.cells # <<>> /\ ~CanPlace(e, n) =>
                    /\ Sound(f) /\ Rooted(f) /\ Holds(f, d) = {}
                    /\ \A s \in Seqs \ {d} : Holds(f, s) = Holds(cache, s)
<1>1. /\ SnapInv /\ ~snap.all /\ Sound(cache) /\ Rooted(cache) /\ ~cache.hasShift
      /\ Emptied(d) = SeqRm(cache, d, -1, -1)
  BY DEF Restoring, Ready, Alive, KInv, Emptied
<1>2. snap.cells # <<>> => Len(snap.cells) \in Nat \ {0}
  BY <1>1, EmptySeq, LenProperties DEF SnapInv
<1> DEFINE e == Emptied(d)
<1>3. Sound(e) /\ Rooted(e) /\ \A s \in Seqs \ {d} : Holds(e, s) = Holds(cache, s)
  BY <1>1, RmIs, RmHolds
<1>4. e = SeqRm(cache, d, -1, -1)
  BY <1>1
<1> HIDE DEF e
<1>5. ASSUME snap.cells # <<>>, CanPlace(e, Len(snap.cells)),
             NEW p, p = Placed(e, Tokens(d)), NEW r, r = WithRows(p, p.head)
      PROVE  /\ Sound(p) /\ \A s \in Seqs \ {d} : Holds(p, s) = Holds(cache, s)
             /\ Sound(r) /\ Rooted(r) /\ Holds(r, d) = snap.held[d]
             /\ \A s \in Seqs \ {d} : Holds(r, s) = Holds(cache, s)
  BY <1>1, <1>4, <1>5, Restored
<1>6. ASSUME snap.cells # <<>>, ~CanPlace(e, Len(snap.cells)),
             NEW f, f = SeqRm(Full(e, Len(snap.cells)), d, -1, -1)
      PROVE  /\ Sound(f) /\ Rooted(f) /\ Holds(f, d) = {}
             /\ \A s \in Seqs \ {d} : Holds(f, s) = Holds(cache, s)
  BY <1>1, <1>2, <1>4, <1>6, NotRestored
<1> QED BY <1>3, <1>5, <1>6 DEF e

\* What a restore of the whole cache leaves, unless it is cut short.
LEMMA AllStep ==
    ASSUME Settled, KInv, LoadAll
    PROVE  Sound(cache') /\ Rooted(cache') /\ \A s \in Seqs : Holds(cache', s) = snap.held[s]
<1>1. SnapInv /\ snap.all /\ Sound(cache) /\ Rooted(cache) /\ ~cache.hasShift
  BY DEF LoadAll, Ready, Alive, KInv
<1>2. cache' = WithRows(FilledAll(Len(snap.cells)), 0)
  BY DEF LoadAll
<1> QED BY <1>1, <1>2, AllRestored

LEMMA StepKInv == ASSUME Settled, KInv, [SNext]_svars PROVE KInv'
<1>1. SnapInv /\ call \in Seq(Entry)
  BY DEF KInv
<1>2. UNCHANGED snap => SnapInv'
  BY <1>1 DEF SnapInv, Of
<1>3. CASE OtherCall
  <2>1. IInv
    BY <1>3 DEF OtherCall, Alive, KInv, IInv
  <2>2. IInv'
    BY <1>3, <2>1, NextIInv DEF OtherCall
  <2> QED BY <1>2, <1>3, <2>2 DEF OtherCall, KInv, IInv
<1>4. CASE SaveSeq
  <2>1. Sound(cache) /\ Rooted(cache) /\ ~cache.hasShift
    BY <1>4 DEF SaveSeq, Ready, Alive, KInv
  <2>2. SnapInv'
    BY <1>4, <2>1, SaveSeqKeeps
  <2> QED BY <1>1, <1>4, <2>1, <2>2 DEF SaveSeq, KInv
<1>5. CASE SaveAll
  <2>1. Sound(cache) /\ Rooted(cache) /\ ~cache.hasShift
    BY <1>5 DEF SaveAll, Ready, Alive, KInv
  <2>2. SnapInv'
    BY <1>5, <2>1, SaveAllKeeps
  <2> QED BY <1>1, <1>5, <2>1, <2>2 DEF SaveAll, KInv
<1>6. CASE LoadSeq
  <2>1. PICK d \in Seqs :
          /\ Restoring(d) /\ snap.cells # <<>>
          /\ CanPlace(Emptied(d), Len(snap.cells))
          /\ LET c == Placed(Emptied(d), Tokens(d)) IN cache' = WithRows(c, c.head)
    BY <1>6 DEF LoadSeq, Restoring
  <2>2. Sound(cache') /\ Rooted(cache')
    BY <2>1, SeqStep
  <2> QED BY <1>1, <1>2, <1>6, <2>2 DEF LoadSeq, KInv
<1>7. CASE LoadSeqFull
  <2>1. PICK d \in Seqs :
          /\ Restoring(d) /\ snap.cells # <<>>
          /\ ~CanPlace(Emptied(d), Len(snap.cells))
          /\ cache' = SeqRm(Full(Emptied(d), Len(snap.cells)), d, -1, -1)
    BY <1>7 DEF LoadSeqFull, Restoring
  <2>2. Sound(cache') /\ Rooted(cache')
    BY <2>1, SeqStep
  <2> QED BY <1>1, <1>2, <1>7, <2>2 DEF LoadSeqFull, KInv
<1>8. CASE LoadSeqEmpty
  <2>1. PICK d \in Seqs : Restoring(d) /\ cache' = Emptied(d)
    BY <1>8 DEF LoadSeqEmpty, Restoring
  <2>2. Sound(cache') /\ Rooted(cache')
    BY <2>1, SeqStep
  <2> QED BY <1>1, <1>2, <1>8, <2>2 DEF LoadSeqEmpty, KInv
<1>9. CASE LoadSeqCut
  <2>1. PICK d \in Seqs :
          /\ Restoring(d) /\ snap.cells # <<>>
          /\ \/ cache' = Emptied(d)
             \/ /\ CanPlace(Emptied(d), Len(snap.cells))
                /\ cache' = Placed(Emptied(d), Tokens(d))
    BY <1>9 DEF LoadSeqCut, Restoring
  <2>2. Sound(cache')
    BY <2>1, SeqStep
  <2> QED BY <1>1, <1>2, <1>9, <2>2 DEF LoadSeqCut, KInv
<1>10. CASE LoadAll
  <2>1. Sound(cache') /\ Rooted(cache')
    BY <1>10, AllStep
  <2> QED BY <1>1, <1>2, <1>10, <2>1 DEF LoadAll, KInv
<1>11. CASE LoadAllCut
  BY <1>1, <1>2, <1>11 DEF LoadAllCut, KInv
<1>12. CASE UNCHANGED svars
  BY <1>2, <1>12 DEF svars, KInv
<1> QED BY <1>3, <1>4, <1>5, <1>6, <1>7, <1>8, <1>9, <1>10, <1>11, <1>12 DEF SNext

LEMMA Restores == ASSUME Settled PROVE SSpec => []KInv
<1>1. KInv /\ [SNext]_svars => KInv'
  BY StepKInv
<1> QED BY <1>1, InitKInv, PTL DEF SSpec

\* Restores leave a cache that other calls can work on: exact counts, each cell
\* with its row, whichever snapshot is restored when, and wherever it ends; only
\* a restore of the whole cache that is cut short is exempt.
THEOREM RestoresLeaveACache == ASSUME Settled PROVE SSpec => []CacheRestored
<1>1. KInv => CacheRestored
  BY DEF KInv, CacheRestored, RowsRestored, UsedRestored, Sound, Rooted, RowsCoherent, UsedExact
<1> QED BY <1>1, Restores, PTL

\* A restored sequence holds what was saved, one that finds no room is empty, and
\* no other sequence changes, however the restore ends.
THEOREM SequenceRestored == ASSUME Settled PROVE SSpec => RestoresSequence
<1> USE DEF OthersKept
<1>1. ASSUME KInv, LoadSeq PROVE \E d \in Seqs : Holds(cache', d) = snap.held[d] /\ OthersKept(d)
  <2>1. PICK d \in Seqs :
          /\ Restoring(d) /\ snap.cells # <<>>
          /\ CanPlace(Emptied(d), Len(snap.cells))
          /\ LET c == Placed(Emptied(d), Tokens(d)) IN cache' = WithRows(c, c.head)
    BY <1>1 DEF LoadSeq, Restoring
  <2> QED BY <1>1, <2>1, SeqStep
<1>2. ASSUME KInv, LoadSeqFull PROVE \E d \in Seqs : Holds(cache', d) = {} /\ OthersKept(d)
  <2>1. PICK d \in Seqs :
          /\ Restoring(d) /\ snap.cells # <<>>
          /\ ~CanPlace(Emptied(d), Len(snap.cells))
          /\ cache' = SeqRm(Full(Emptied(d), Len(snap.cells)), d, -1, -1)
    BY <1>2 DEF LoadSeqFull, Restoring
  <2> QED BY <1>2, <2>1, SeqStep
<1>3. ASSUME KInv, LoadSeqEmpty \/ LoadSeqCut PROVE \E d \in Seqs : OthersKept(d)
  <2>1. PICK d \in Seqs :
          /\ Restoring(d)
          /\ \/ cache' = Emptied(d)
             \/ /\ snap.cells # <<>> /\ CanPlace(Emptied(d), Len(snap.cells))
                /\ cache' = Placed(Emptied(d), Tokens(d))
    BY <1>3 DEF LoadSeqEmpty, LoadSeqCut, Restoring
  <2> QED BY <1>3, <2>1, SeqStep
<1>4. KInv /\ [SNext]_svars =>
        [/\ LoadSeq => \E d \in Seqs : Holds(cache', d) = snap.held[d] /\ OthersKept(d)
         /\ LoadSeqFull => \E d \in Seqs : Holds(cache', d) = {} /\ OthersKept(d)
         /\ LoadSeqEmpty \/ LoadSeqCut => \E d \in Seqs : OthersKept(d)]_svars
  BY <1>1, <1>2, <1>3
<1> QED BY <1>4, Restores, PTL DEF RestoresSequence, SSpec

\* A restored cache holds for each sequence what it held when it was saved.
THEOREM AllSequencesRestored == ASSUME Settled PROVE SSpec => RestoresAll
<1>1. KInv /\ [SNext]_svars => [LoadAll => \A s \in Seqs : Holds(cache', s) = snap.held[s]]_svars
  BY AllStep
<1> QED BY <1>1, Restores, PTL DEF RestoresAll, SSpec

=============================================================================
