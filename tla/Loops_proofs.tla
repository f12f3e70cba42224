---------------------------- MODULE Loops_proofs ----------------------------
(***************************************************************************)
(* The loops of find_slot and defrag_internal compute what KVLayout says   *)
(* they do, for any number of cells and whatever they hold; the cache of a *)
(* recurrent model keeps the state of each sequence; and each token of a   *)
(* batch finds the row that was computed for it.                           *)
(***************************************************************************)
EXTENDS KVLayout_proofs, FindSlotLoop, DefragLoop, Recurrent, Outputs

(***************************************************************************)
(* The search.                                                             *)
(***************************************************************************)

past == {i + 1 : i \in occ}
turn == IF start = 0 THEN Size ELSE start

\* Up to the end of the cache: no window has been passed.
Onward ==
    /\ start <= head /\ tested = head - start /\ tested < Size
    /\ head = start \/ head \in past
    /\ \A w \in Windows(occ, k) : w >= start => w >= head

\* From the first cell up to where the search began.
Around ==
    /\ head < start /\ tested = Size - start + head
    /\ head = 0 \/ head \in past
    /\ \A w \in Windows(occ, k) : head <= w /\ w < start

\* From the first cell once more, because the turn was not seen to be over:
\* a window of k cells did not fit behind a cell before its end.
Again ==
    /\ head = 0 /\ tested >= Size /\ Windows(occ, k) = {}
    /\ \E e \in past : e < turn /\ e + k > Size

SearchInv ==
    /\ occ \in SUBSET Cells /\ k \in 1 .. Size + 1
    /\ start \in 0 .. Size /\ head \in 0 .. Size /\ tested \in Nat
    /\ out \in {"looking", "found", "full"}
    /\ out = "looking" => IF k > Size THEN head = start /\ tested = 0
                          ELSE Onward \/ Around \/ Again
    /\ SearchIsFirstFit

LEMMA PastIs == \A e : e \in past <=> \E i \in occ : e = i + 1
BY DEF past

\* There is one least element.
LEMMA LeastUnique ==
    ASSUME NEW S, NEW x \in S, S \subseteq Int, \A y \in S : x <= y
    PROVE  Least(S) = x
<1>1. Least(S) \in S /\ \A y \in S : Least(S) <= y
  BY DEF Least
<1>2. Least(S) <= x /\ x <= Least(S) /\ x \in Int /\ Least(S) \in Int
  BY <1>1
<1> QED BY <1>2

LEMMA FindInitInv == FindInit => SearchInv
<1> SUFFICES ASSUME FindInit PROVE SearchInv
  OBVIOUS
<1>1. Onward \/ k > Size
  BY LayoutAssumption DEF FindInit, Onward, Windows, Cells
<1>2. SearchIsFirstFit
  BY DEF FindInit, SearchIsFirstFit, FoundIsFirst, FullMeansFull
<1> QED BY <1>1, <1>2, LayoutAssumption DEF FindInit, SearchInv, Onward

\* The window at head is free: it is the first of those the search may take.
LEMMA TakeInv == SearchInv /\ Take => SearchInv'
<1> SUFFICES ASSUME SearchInv, Take PROVE SearchInv'
  OBVIOUS
<1>1. /\ occ \in SUBSET Cells /\ k \in 1 .. Size /\ start \in 0 .. Size /\ head \in 0 .. Size
      /\ tested \in Nat /\ head + k <= Size /\ (Onward \/ Around \/ Again)
  BY LayoutAssumption DEF SearchInv, Take
<1>2. head \in Windows(occ, k)
  <2>1. \A i \in head .. head + k - 1 : i \notin occ
    BY DEF Take, Window
  <2> QED BY <1>1, <2>1, LayoutAssumption DEF Windows, Fits, Cells
<1>3. Windows(occ, k) \subseteq Int
  BY LayoutAssumption DEF Windows, Cells
<1> DEFINE ahead == {h \in Windows(occ, k) : h >= start}
<1>4. SlotAt(occ, start, k) = Least(IF ahead # {} THEN ahead ELSE Windows(occ, k))
  BY DEF SlotAt
<1>5. head = SlotAt(occ, start, k)
  <2>1. CASE Onward
    <3>1. head \in ahead /\ ahead \subseteq Int /\ \A y \in ahead : head <= y
      BY <2>1, <1>1, <1>2, <1>3 DEF Onward
    <3>2. Least(ahead) = head
      BY <3>1, LeastUnique
    <3> QED BY <3>1, <3>2, <1>4
  <2>2. CASE Around
    <3>1. ahead = {} /\ \A y \in Windows(occ, k) : head <= y
      BY <2>2, <1>1, <1>3 DEF Around
    <3>2. Least(Windows(occ, k)) = head
      BY <3>1, <1>2, <1>3, LeastUnique
    <3> QED BY <3>1, <3>2, <1>4
  <2>3. CASE Again
    BY <2>3, <1>2 DEF Again
  <2> QED BY <1>1, <2>1, <2>2, <2>3
<1>6. SearchIsFirstFit'
  BY <1>2, <1>5 DEF Take, Same, SearchIsFirstFit, FoundIsFirst, FullMeansFull
<1> QED BY <1>6 DEF SearchInv, Take, Same

\* No window is passed where the cache ends, and a second wrap tells that
\* some cell left no room behind it.
LEMMA WrapInv == SearchInv /\ Wrap => SearchInv'
<1> SUFFICES ASSUME SearchInv, Wrap PROVE SearchInv'
  OBVIOUS
<1>1. /\ occ \in SUBSET Cells /\ k \in 1 .. Size /\ start \in 0 .. Size /\ head \in 0 .. Size
      /\ tested \in Nat /\ head + k > Size /\ out = "looking" /\ (Onward \/ Around \/ Again)
  BY LayoutAssumption DEF SearchInv, Wrap
<1>2. \A w \in Windows(occ, k) : w \in 0 .. Size /\ w + k <= Size
  BY LayoutAssumption DEF Windows, Fits, Cells
<1>3. \A w \in Windows(occ, k) : w < head
  BY <1>1, <1>2, LayoutAssumption
<1>4. UNCHANGED <<occ, k, start, out>> /\ head' = 0 /\ tested' = tested + Size - head
  BY DEF Wrap, Same
<1>5. (Onward \/ Around \/ Again)'
  <2>1. CASE Onward /\ start > 0
    <3>1. \A w \in Windows(occ, k) : 0 <= w /\ w < start
      BY <2>1, <1>1, <1>2, <1>3 DEF Onward
    <3> QED BY <3>1, <2>1, <1>1, <1>4, LayoutAssumption DEF Onward, Around
  <2>2. CASE Onward /\ start = 0
    <3>1. Windows(occ, k) = {}
      BY <2>2, <1>1, <1>2, <1>3 DEF Onward
    <3>2. head < Size /\ head # 0 /\ head \in past /\ turn = Size
      BY <2>2, <1>1, LayoutAssumption DEF Onward, turn
    <3>3. tested' = Size
      BY <2>2, <1>1, <1>4, LayoutAssumption DEF Onward
    <3> QED BY <3>1, <3>2, <3>3, <1>1, <1>4, LayoutAssumption DEF Again, past, turn
  <2>3. CASE Around
    <3>1. Windows(occ, k) = {}
      BY <2>3, <1>1, <1>2, <1>3 DEF Around
    <3>2. head # 0 /\ head \in past /\ turn = start /\ head < turn
      BY <2>3, <1>1, LayoutAssumption DEF Around, turn
    <3>3. tested' >= Size
      BY <2>3, <1>1, <1>4, LayoutAssumption DEF Around
    <3> QED BY <3>1, <3>2, <3>3, <1>1, <1>4, LayoutAssumption DEF Again, past, turn
  <2>4. CASE Again
    BY <2>4, <1>1, LayoutAssumption DEF Again
  <2> QED BY <1>1, <2>1, <2>2, <2>3, <2>4, LayoutAssumption
<1>6. tested' \in Nat
  BY <1>1, <1>4, LayoutAssumption
<1>7. SearchIsFirstFit'
  BY <1>1, <1>4 DEF SearchIsFirstFit, FoundIsFirst, FullMeansFull
<1> QED BY <1>1, <1>4, <1>5, <1>6, <1>7, LayoutAssumption DEF SearchInv

\* One past the first taken cell of the window: no window lies between, and
\* after a full turn there is none at all.
LEMMA SkipInv == SearchInv /\ Skip => SearchInv'
<1> SUFFICES ASSUME SearchInv, Skip PROVE SearchInv'
  OBVIOUS
<1>1. /\ occ \in SUBSET Cells /\ k \in 1 .. Size /\ start \in 0 .. Size /\ head \in 0 .. Size
      /\ tested \in Nat /\ head + k <= Size /\ (Onward \/ Around \/ Again)
  BY LayoutAssumption DEF SearchInv, Skip
<1> DEFINE met == Window \cap occ
<1>2. met \subseteq 0 .. Size /\ met # {}
  <2>1. Window \cap occ # {}
    BY DEF Skip
  <2>2. occ \subseteq 0 .. Size
    BY <1>1, LayoutAssumption DEF Cells
  <2> QED BY <2>1, <2>2
<1>3. PICK x \in met : x = Least(met) /\ \A y \in met : x <= y
  BY <1>2, LeastIsLeast, LayoutAssumption
<1>4. x \in occ /\ x \in head .. head + k - 1 /\ x \in 0 .. Size - 1
  BY <1>1, <1>3, LayoutAssumption DEF Window, Cells
<1>5. \A y \in occ : y >= head => x <= y
  <2> SUFFICES ASSUME NEW y \in occ, y >= head PROVE x <= y
    OBVIOUS
  <2>1. y \in Int
    BY <1>1 DEF Cells
  <2>2. CASE y \in head .. head + k - 1
    BY <2>2, <1>3 DEF Window
  <2>3. CASE y > head + k - 1
    BY <2>1, <2>3, <1>1, <1>4
  <2> QED BY <2>1, <2>2, <2>3, <1>1
<1>6. \A w \in Windows(occ, k) : w \in 0 .. Size - 1 /\ w + k <= Size /\ (w < head \/ w > x)
  <2> SUFFICES ASSUME NEW w \in Windows(occ, k), w >= head, w <= x PROVE FALSE
    BY <1>1, <1>4, LayoutAssumption DEF Windows, Fits, Cells
  <2>1. w \in Int /\ x \in w .. w + k - 1
    BY <1>1, <1>4, LayoutAssumption DEF Windows, Cells
  <2> QED BY <2>1, <1>4 DEF Windows, Fits
<1>7. /\ UNCHANGED <<occ, k, start>> /\ head' = x + 1 /\ tested' = tested + (x + 1 - head)
      /\ out' = IF tested' >= Size THEN "full" ELSE "looking"
  <2>1. UNCHANGED <<occ, k, start>> /\ head' = x + 1
    BY <1>3 DEF Skip, Same
  <2>2. tested' = tested + (head' - head)
    BY DEF Skip, Counted
  <2>3. out' = IF tested' >= Size THEN "full" ELSE "looking"
    BY DEF Skip, Turned
  <2>4. tested' = tested + (x + 1 - head)
    BY <2>1, <2>2, <1>1, <1>4
  <2> QED BY <2>1, <2>3, <2>4
<1>8. x + 1 \in past /\ x + 1 \in 1 .. Size
  BY <1>4, LayoutAssumption DEF past
<1>9. \A e \in past : e \in 1 .. Size /\ (e > head => e >= x + 1)
  <2> SUFFICES ASSUME NEW y \in occ PROVE y + 1 \in 1 .. Size /\ (y + 1 > head => y + 1 >= x + 1)
    BY PastIs
  <2>1. y \in 0 .. Size - 1
    BY <1>1 DEF Cells
  <2> QED BY <2>1, <1>1, <1>4, <1>5, LayoutAssumption
<1>10. past' = past /\ turn' = turn /\ Windows(occ, k)' = Windows(occ, k)
  BY <1>7 DEF past, turn
<1>11. CASE out' = "looking"
  <2>1. tested' < Size
    <3>1. tested' \in Int
      BY <1>7, <1>1, <1>4
    <3> QED BY <3>1, <1>11, <1>7, LayoutAssumption
  <2>2. ASSUME Onward PROVE Onward'
    <3>1. \A w \in Windows(occ, k) : w >= start => w >= x + 1
      BY <2>2, <1>1, <1>4, <1>6 DEF Onward
    <3>2. start <= x + 1 /\ tested' = x + 1 - start
      BY <2>2, <1>1, <1>4, <1>7 DEF Onward
    <3>3. start' = start /\ head' = x + 1 /\ head' \in past'
      BY <1>7, <1>8, <1>10
    <3>4. \A w \in Windows(occ, k)' : w >= start' => w >= head'
      BY <3>1, <3>3, <1>10
    <3>5. start' <= head' /\ tested' = head' - start'
      BY <3>2, <3>3, <1>1, <1>4
    <3> QED BY <3>3, <3>4, <3>5, <2>1 DEF Onward
  <2>3. ASSUME Around PROVE Around'
    <3>1. \A w \in Windows(occ, k) : x + 1 <= w /\ w < start
      BY <2>3, <1>1, <1>4, <1>6 DEF Around
    <3>2. x + 1 < start /\ tested' = Size - start + (x + 1)
      BY <2>1, <2>3, <1>1, <1>4, <1>7, LayoutAssumption DEF Around
    <3> QED BY <3>1, <3>2, <1>7, <1>8, <1>10 DEF Around
  <2>4. ASSUME Again PROVE FALSE
    BY <2>1, <2>4, <1>1, <1>4, <1>7, LayoutAssumption DEF Again
  <2>5. (Onward \/ Around \/ Again)'
    BY <1>1, <2>2, <2>3, <2>4
  <2>6. SearchIsFirstFit'
    BY <1>11 DEF SearchIsFirstFit, FoundIsFirst, FullMeansFull
  <2> QED BY <2>5, <2>6, <1>1, <1>4, <1>7, <1>8, <1>11, LayoutAssumption DEF SearchInv
<1>12. CASE out' = "full"
  <2>1. tested' >= Size
    BY <1>12, <1>7
  <2>2. past \subseteq Int /\ turn \in Int
    BY <1>9, <1>1, LayoutAssumption DEF turn
  <2> DEFINE late == {e \in past : e >= turn}
  <2>3. HeadWhenFull(occ, start, k)
          = IF \A e \in past : e < turn => e + k <= Size THEN Least(late) ELSE Least(past)
    BY DEF HeadWhenFull, past, turn
  <2>4. Windows(occ, k) = {} /\ x + 1 = HeadWhenFull(occ, start, k)
    <3>1. CASE Onward
      <4>1. start = 0 /\ x + 1 = Size /\ turn = Size
        BY <2>1, <3>1, <1>1, <1>4, <1>7, LayoutAssumption DEF Onward, turn
      <4>2. Windows(occ, k) = {}
        <5> SUFFICES ASSUME NEW w \in Windows(occ, k) PROVE FALSE
          OBVIOUS
        <5>1. w \in 0 .. Size - 1 /\ w >= head
          BY <4>1, <3>1, <1>6 DEF Onward
        <5> QED BY <5>1, <4>1, <1>1, <1>4, <1>6, LayoutAssumption
      <4>3. \A e \in past : e < turn => e + k <= Size
        BY <4>1, <1>1, <1>9, LayoutAssumption
      <4>4. x + 1 \in late /\ late \subseteq Int /\ \A e \in late : x + 1 <= e
        <5>1. x + 1 \in past /\ x + 1 >= turn
          BY <4>1, <1>8, LayoutAssumption
        <5>2. \A e \in late : x + 1 <= e
          BY <4>1
        <5> QED BY <5>1, <5>2, <2>2
      <4>5. Least(late) = x + 1
        BY <4>4, LeastUnique
      <4> QED BY <4>2, <4>3, <4>5, <2>3
    <3>2. CASE Around
      <4>1. x + 1 >= start /\ turn = start
        BY <2>1, <3>2, <1>1, <1>4, <1>7, LayoutAssumption DEF Around, turn
      <4>2. Windows(occ, k) = {}
        BY <4>1, <3>2, <1>1, <1>4, <1>6, LayoutAssumption DEF Around
      <4>3. \A e \in past : e < turn => e + k <= Size
        <5> SUFFICES ASSUME NEW e \in past, e < turn PROVE e + k <= Size
          OBVIOUS
        <5>1. e \in 1 .. Size /\ e <= head
          BY <4>1, <1>1, <1>4, <1>9
        <5> QED BY <5>1, <1>1, LayoutAssumption
      <4>4. x + 1 \in late /\ late \subseteq Int /\ \A e \in late : x + 1 <= e
        <5>1. \A e \in late : e > head
          BY <4>1, <3>2, <1>1, <1>9 DEF Around
        <5> QED BY <5>1, <4>1, <2>2, <1>8, <1>9
      <4>5. Least(late) = x + 1
        BY <4>4, LeastUnique
      <4> QED BY <4>2, <4>3, <4>5, <2>3
    <3>3. CASE Again
      <4>1. ~ \A e \in past : e < turn => e + k <= Size
        BY <3>3, <2>2, <1>1, LayoutAssumption DEF Again
      <4>2. \A e \in past : x + 1 <= e
        BY <3>3, <1>9 DEF Again
      <4>3. Least(past) = x + 1
        BY <4>2, <2>2, <1>8, LeastUnique
      <4> QED BY <4>1, <4>3, <2>3, <3>3 DEF Again
    <3> QED BY <1>1, <3>1, <3>2, <3>3
  <2>5. SearchIsFirstFit'
    BY <2>4, <1>1, <1>7, <1>12 DEF SearchIsFirstFit, FoundIsFirst, FullMeansFull
  <2> QED BY <2>5, <1>1, <1>4, <1>7, <1>8, <1>12, LayoutAssumption DEF SearchInv
<1> QED BY <1>7, <1>11, <1>12

LEMMA FindNextInv == SearchInv /\ [FindNext]_findvars => SearchInv'
<1> SUFFICES ASSUME SearchInv, [FindNext]_findvars PROVE SearchInv'
  OBVIOUS
<1>1. CASE TooMany
  <2>1. k \in Int /\ Size \in Int /\ head = start
    BY <1>1, LayoutAssumption DEF TooMany, SearchInv
  <2>2. SearchIsFirstFit'
    BY <1>1, <2>1 DEF TooMany, Same, SearchIsFirstFit, FoundIsFirst, FullMeansFull
  <2> QED BY <1>1, <2>2 DEF TooMany, Same, SearchInv
<1>2. CASE UNCHANGED findvars
  BY <1>2 DEF findvars, SearchInv, SearchIsFirstFit, FoundIsFirst, FullMeansFull,
              Onward, Around, Again, past, turn
<1> QED BY <1>1, <1>2, WrapInv, TakeInv, SkipInv DEF FindNext, FindDone

\* The search returns the first free window at or after where it began, or
\* the first of all; it gives up only when there is none, and leaves head as
\* KVLayout says: for any number of cells, tokens, and layout.
THEOREM SearchFindsFirstFit == FindSpec => []SearchIsFirstFit
<1>1. SearchInv => SearchIsFirstFit
  BY DEF SearchInv
<1> QED BY FindInitInv, FindNextInv, <1>1, PTL DEF FindSpec

(***************************************************************************)
(* The plan of a defragmentation.                                          *)
(***************************************************************************)

\* Of two members of a finite set of numbers, the lower has more above it.
LEMMA RankFalls ==
    ASSUME NEW S, IsFiniteSet(S), S \subseteq Int, NEW x \in S, NEW y \in S, x < y
    PROVE  Cardinality({j \in S : j >= y}) < Cardinality({j \in S : j >= x})
<1> DEFINE A == {j \in S : j >= x}
           B == {j \in S : j >= y}
<1>1. B \in SUBSET A /\ x \in A /\ x \notin B
  <2>1. x \in Int /\ y \in Int /\ x >= x /\ ~ x >= y
    OBVIOUS
  <2>2. \A j \in S : j >= y => j >= x
    OBVIOUS
  <2> QED BY <2>1, <2>2
<1>2. IsFiniteSet(A) /\ A \in SUBSET S
  BY FS_Subset
<1> HIDE DEF A, B
<1>3. /\ IsFiniteSet(B) /\ Cardinality(B) <= Cardinality(A)
      /\ Cardinality(A) = Cardinality(B) => A = B
  BY <1>1, <1>2, FS_Subset
<1>4. Cardinality(A) \in Nat /\ Cardinality(B) \in Nat
  BY <1>2, <1>3, FS_CardinalityType
<1>5. Cardinality(B) < Cardinality(A)
  BY <1>1, <1>3, <1>4
<1> QED BY <1>5 DEF A, B

\* One of two sets, the first within the second, has less.
LEMMA SmallerWithin ==
    ASSUME NEW S, IsFiniteSet(S), NEW A \in SUBSET S, NEW B \in SUBSET S,
           A \subseteq B, NEW x \in B, x \notin A
    PROVE  Cardinality(A) < Cardinality(B)
<1>1. IsFiniteSet(B) /\ A \in SUBSET B
  BY FS_Subset
<1>2. IsFiniteSet(A) /\ Cardinality(A) <= Cardinality(B) /\ (Cardinality(B) = Cardinality(A) => B = A)
  BY <1>1, FS_Subset
<1>3. Cardinality(A) \in Nat /\ Cardinality(B) \in Nat
  BY <1>1, <1>2, FS_CardinalityType
<1> QED BY <1>2, <1>3

\* As many cells as there are holes can be paired with them, block by block
\* from the left, each with the last cells not yet taken: each hole and each
\* cell gets the number under which it is filled, and the numbers match.
LEMMA PlanExists ==
    ASSUME NEW d, Cardinality(Holes(d)) = Cardinality(Movers(d))
    PROVE  \E m \in [Holes(d) -> Movers(d)] : Plan(d, m)
<1>1. PICK H : H = Holes(d)
  OBVIOUS
<1>2. PICK M : M = Movers(d)
  OBVIOUS
<1>3. /\ IsFiniteSet(H) /\ IsFiniteSet(M) /\ H \subseteq Int /\ M \subseteq Int
      /\ Cardinality(H) = Cardinality(M)
  <2>1. H \in SUBSET Cells /\ M \in SUBSET Cells
    BY <1>1, <1>2 DEF Holes, Movers
  <2>2. IsFiniteSet(Cells) /\ Cells \subseteq Int
    BY CellsFinite DEF Cells
  <2> QED BY <1>1, <1>2, <2>1, <2>2, FS_Subset
<1>4. PICK n : n = Cardinality(H) /\ n = Cardinality(M) /\ n \in Nat
  BY <1>3, FS_CardinalityType
<1>5. IsFiniteSet(1 .. n) /\ Cardinality(1 .. n) = n
  BY <1>4, FS_Interval
<1> DEFINE Ahead(h) == {g \in H : IF g < h THEN ~ g .. h \subseteq H ELSE h .. g \subseteq H}
           r == [h \in H |-> Cardinality(Ahead(h))]
           Behind(i) == {j \in M : j >= i}
           q == [i \in M |-> Cardinality(Behind(i))]
<1>6. \A h \in H : Ahead(h) \in SUBSET H /\ h \in Ahead(h) /\ r[h] = Cardinality(Ahead(h))
  BY <1>3
<1>7. \A i \in M : Behind(i) \in SUBSET M /\ i \in Behind(i) /\ q[i] = Cardinality(Behind(i))
  BY <1>3
<1>8. r \in [H -> 1 .. n]
  <2> SUFFICES ASSUME NEW h \in H PROVE Cardinality(Ahead(h)) \in 1 .. n
    OBVIOUS
  <2> HIDE DEF Ahead, r
  <2>1. IsFiniteSet(Ahead(h)) /\ Cardinality(Ahead(h)) <= n
    BY <1>3, <1>4, <1>6, FS_Subset
  <2>2. Cardinality(Ahead(h)) \in Nat /\ Cardinality(Ahead(h)) # 0
    BY <1>6, <2>1, FS_CardinalityType, FS_EmptySet
  <2> QED BY <1>4, <2>1, <2>2
<1>9. q \in [M -> 1 .. n]
  <2> SUFFICES ASSUME NEW i \in M PROVE Cardinality(Behind(i)) \in 1 .. n
    OBVIOUS
  <2> HIDE DEF Behind, q
  <2>1. IsFiniteSet(Behind(i)) /\ Cardinality(Behind(i)) <= n
    BY <1>3, <1>4, <1>7, FS_Subset
  <2>2. Cardinality(Behind(i)) \in Nat /\ Cardinality(Behind(i)) # 0
    BY <1>7, <2>1, FS_CardinalityType, FS_EmptySet
  <2> QED BY <1>4, <2>1, <2>2
<1>10. ASSUME NEW h \in H, NEW g \in H, h < g, h .. g \subseteq H PROVE r[g] < r[h]
  <2>1. h \notin Ahead(g)
    BY <1>3, <1>10
  <2>2. Ahead(g) \subseteq Ahead(h)
    <3> SUFFICES ASSUME NEW x \in Ahead(g) PROVE x \in Ahead(h)
      OBVIOUS
    <3>1. x \in H /\ x \in Int /\ g \in Int /\ h \in Int
      BY <1>3
    <3>2. CASE x < g
      <4>1. ~ x .. g \subseteq H
        BY <3>2
      <4>2. x < h
        BY <3>1, <4>1, <1>10
      <4>3. ~ x .. h \subseteq H
        <5> SUFFICES ASSUME x .. h \subseteq H PROVE x .. g \subseteq H
          BY <4>1
        <5>1. \A y \in x .. g : y \in x .. h \/ y \in h .. g
          BY <3>1
        <5> QED BY <5>1, <1>10
      <4> QED BY <3>1, <4>2, <4>3
    <3>3. CASE ~ x < g
      <4>1. g .. x \subseteq H
        BY <3>3
      <4>2. \A y \in h .. x : y \in h .. g \/ y \in g .. x
        BY <3>1
      <4> QED BY <3>1, <3>3, <4>1, <4>2, <1>10
    <3> QED BY <3>2, <3>3
  <2> HIDE DEF Ahead, r
  <2> QED BY <2>1, <2>2, <1>3, <1>6, SmallerWithin
<1>11. ASSUME NEW h \in H, NEW g \in H, h < g, ~ h .. g \subseteq H PROVE r[h] < r[g]
  <2>1. g \notin Ahead(h)
    BY <1>3, <1>11
  <2>2. Ahead(h) \subseteq Ahead(g)
    <3> SUFFICES ASSUME NEW x \in Ahead(h) PROVE x \in Ahead(g)
      OBVIOUS
    <3>1. x \in H /\ x \in Int /\ g \in Int /\ h \in Int
      BY <1>3
    <3>2. CASE x < h
      <4>1. ~ x .. h \subseteq H
        BY <3>2
      <4>2. x .. h \subseteq x .. g /\ x < g
        BY <3>1, <3>2, <1>11
      <4> QED BY <3>1, <4>1, <4>2
    <3>3. CASE ~ x < h
      <4>1. h .. x \subseteq H
        BY <3>3
      <4>2. x < g
        <5> SUFFICES ASSUME x >= g PROVE h .. g \subseteq h .. x
          BY <3>1, <4>1, <1>11
        <5> QED BY <3>1
      <4>3. ~ x .. g \subseteq H
        <5>1. \A y \in h .. g : y \in h .. x \/ y \in x .. g
          BY <3>1
        <5> QED BY <5>1, <4>1, <1>11
      <4> QED BY <3>1, <4>2, <4>3
    <3> QED BY <3>2, <3>3
  <2> HIDE DEF Ahead, r
  <2> QED BY <2>1, <2>2, <1>3, <1>6, SmallerWithin
<1>12. \A i, j \in M : i < j => q[j] < q[i]
  BY <1>3, RankFalls
<1> HIDE DEF Ahead, r, Behind, q
<1>13. \A i, j \in M : q[i] = q[j] => i = j
  <2> SUFFICES ASSUME NEW i \in M, NEW j \in M, q[i] = q[j] PROVE i = j
    OBVIOUS
  <2>1. i \in Int /\ j \in Int /\ q[i] \in Int /\ q[j] \in Int
    BY <1>3, <1>9
  <2>2. ~ i < j /\ ~ j < i
    BY <1>12, <2>1
  <2> QED BY <2>1, <2>2
<1>14. \A h, g \in H : r[h] = r[g] => h = g
  <2> SUFFICES ASSUME NEW h \in H, NEW g \in H, r[h] = r[g] PROVE h = g
    OBVIOUS
  <2>1. h \in Int /\ g \in Int /\ r[h] \in Int /\ r[g] \in Int
    BY <1>3, <1>8
  <2>2. ~ h < g /\ ~ g < h
    BY <1>10, <1>11, <2>1
  <2> QED BY <2>1, <2>2
<1>15. \A x \in 1 .. n : \E i \in M : q[i] = x
  <2>1. q \in Injection(M, 1 .. n)
    BY <1>9, <1>13 DEF Injection, IsInjective
  <2>2. q \in Surjection(M, 1 .. n)
    BY <2>1, <1>4, <1>5, FS_Injection
  <2> QED BY <2>2 DEF Surjection
<1>16. \A x \in 1 .. n : \E h \in H : r[h] = x
  <2>1. r \in Injection(H, 1 .. n)
    BY <1>8, <1>14 DEF Injection, IsInjective
  <2>2. r \in Surjection(H, 1 .. n)
    BY <2>1, <1>4, <1>5, FS_Injection
  <2> QED BY <2>2 DEF Surjection
<1> DEFINE m == [h \in H |-> CHOOSE i \in M : q[i] = r[h]]
<1>17. \A h \in H : m[h] \in M /\ q[m[h]] = r[h]
  BY <1>8, <1>15
<1>18. m \in [H -> M]
  BY <1>17
<1> HIDE DEF m
<1>19. \A h, g \in H : h < g => IF h .. g \subseteq H THEN m[h] < m[g] ELSE m[h] > m[g]
  <2> SUFFICES ASSUME NEW h \in H, NEW g \in H, h < g
               PROVE  IF h .. g \subseteq H THEN m[h] < m[g] ELSE m[h] > m[g]
    OBVIOUS
  <2>1. /\ m[h] \in M /\ m[g] \in M /\ m[h] \in Int /\ m[g] \in Int
        /\ q[m[h]] = r[h] /\ q[m[g]] = r[g] /\ r[h] \in Int /\ r[g] \in Int
    <3>1. m[h] \in M /\ m[g] \in M /\ q[m[h]] = r[h] /\ q[m[g]] = r[g]
      BY <1>17
    <3>2. r[h] \in Int /\ r[g] \in Int
      BY <1>8
    <3> QED BY <1>3, <3>1, <3>2
  <2>2. CASE h .. g \subseteq H
    <3>1. q[m[g]] < q[m[h]]
      BY <2>1, <2>2, <1>10
    <3>2. m[h] # m[g] /\ ~ m[g] < m[h]
      BY <3>1, <2>1, <1>12
    <3> QED BY <2>1, <2>2, <3>2
  <2>3. CASE ~ h .. g \subseteq H
    <3>1. q[m[h]] < q[m[g]]
      BY <2>1, <2>3, <1>11
    <3>2. m[h] # m[g] /\ ~ m[h] < m[g]
      BY <3>1, <2>1, <1>12
    <3> QED BY <2>1, <2>3, <3>2
  <2> QED BY <2>2, <2>3
<1>20. \A i \in M : \E h \in H : m[h] = i
  <2> SUFFICES ASSUME NEW i \in M PROVE \E h \in H : m[h] = i
    OBVIOUS
  <2>1. PICK h \in H : r[h] = q[i]
    BY <1>9, <1>16
  <2>2. m[h] = i
    BY <2>1, <1>13, <1>17
  <2> QED BY <2>2
<1> QED BY <1>1, <1>2, <1>18, <1>19, <1>20 DEF Plan

(***************************************************************************)
(* The defragmentation.  b is the cache on entry, n is n_kv, m the plan.   *)
(***************************************************************************)

\* A field of the cells, z where a token has left.
FieldMoved(f, m, F, z) ==
    [i \in Cells |-> IF i \in F THEN f[m[i]] ELSE IF \E h \in F : m[h] = i THEN z ELSE f[i]]

RowsOf(b, m, D) == [i \in Cells |-> IF i \in D THEN b.row[m[i]] ELSE b.row[i]]

\* The holes of F are filled, and the rows of those of D have followed.
Filled(b, m, F, D) ==
    [pos   |-> FieldMoved(b.pos, m, F, -1),
     delta |-> FieldMoved(b.delta, m, F, 0),
     seqs  |-> FieldMoved(b.seqs, m, F, {}),
     row   |-> RowsOf(b, m, D),
     used  |-> b.used,
     head  |-> IF F = {} THEN b.head ELSE b.used]

Begins(b, m, F) == {h \in F : StartsRun(b, m, h)}
Below(b, top) == {h \in Holes(b) : h < top}

\* The holes of F are filled, and no row is copied yet.
Moved(b, n, m, F) ==
    /\ c = Filled(b, m, F, {})
    /\ moves = Cardinality(Begins(b, m, F)) /\ copies = 0
    /\ ids \in [0 .. n - 1 -> 0 .. n]
    /\ \A h \in F : ids[m[h]] = h
    /\ \A i \in 0 .. n - 1 :
          (\A h \in F : m[h] # i) => ids[i] = IF i < i0 /\ i \notin Holes(b) THEN i ELSE n

Scanning(b, n, m) ==
    /\ pc = "scan" /\ i0 \in 0 .. b.used
    /\ i0 - 1 \in Holes(b) => i0 \notin Holes(b)
    /\ moves < MaxMoves
    /\ Moved(b, n, m, Below(b, i0))

\* i1 is on its way to the cell that fills the next hole of the block.
Filling(b, n, m) ==
    /\ pc = "fill" /\ i0 \in Holes(b) /\ hole \in Nat /\ nf \in 0 .. hole - 1
    /\ i0 .. i0 + hole - 1 \subseteq Holes(b)
    /\ i0 - 1 \notin Holes(b) /\ i0 + hole \notin Holes(b)
    /\ i1 \in m[i0] .. m[i0 + nf]
    /\ nf > 0 => i1 > m[i0 + nf - 1]
    /\ cont = (nf > 0 /\ i1 = m[i0 + nf - 1] + 1)
    /\ moves <= MaxMoves /\ (~cont => moves < MaxMoves)
    /\ Moved(b, n, m, Below(b, i0 + nf))

\* The rows of K, whole runs, are still to be copied.
Copying(b, n, m, K) ==
    /\ pc = "graph" /\ K \subseteq MovedBy(b, m)
    /\ c = Filled(b, m, MovedBy(b, m), MovedBy(b, m) \ K)
    /\ moves <= MaxMoves /\ copies \in Nat /\ copies + Cardinality(Begins(b, m, K)) = moves
    /\ ids \in [0 .. n - 1 -> 0 .. n]
    /\ \A h \in K : ids[m[h]] = h
    /\ \A i \in 0 .. n - 1 :
          (\A h \in K : m[h] # i) => ids[i] = n \/ (ids[i] = i /\ i < b.used)
    /\ \A h \in K : ~StartsRun(b, m, h) => h - 1 \in K

Ended(b, m) ==
    /\ pc = "done" /\ c = Defragged(b, m)
    /\ copies = moves /\ moves <= MaxMoves /\ copies \in Nat

\* What is known of the cache on entry.
Shape(b, n) ==
    /\ b.used \in 0 .. Size /\ n \in 0 .. Size
    /\ Holes(b) \subseteq 0 .. b.used - 1 /\ Movers(b) \subseteq b.used .. n - 1
    /\ IsFiniteSet(Holes(b))
    /\ \A i \in Cells : b.seqs[i] = {} <=> IF i < b.used THEN i \in Holes(b) ELSE i \notin Movers(b)
    /\ \A i \in Cells : i < b.used /\ i \notin Holes(b) => i < n
    /\ b = [pos |-> b.pos, delta |-> b.delta, seqs |-> b.seqs, row |-> b.row,
            used |-> b.used, head |-> b.head]
    /\ b.row = [i \in Cells |-> i]

Planned(b, m) ==
    /\ m \in [Holes(b) -> Movers(b)] /\ Plan(b, m)
    /\ \A g, h \in Holes(b) :
          g < h => IF g .. h \subseteq Holes(b) THEN m[g] < m[h] ELSE m[g] > m[h]
    /\ \A g, h \in Holes(b) : m[g] = m[h] => g = h
    /\ \A i \in Movers(b) : \E h \in Holes(b) : m[h] = i

DefragState(b, n, m) ==
    \/ Scanning(b, n, m) \/ Filling(b, n, m) \/ Ended(b, m)
    \/ \E K \in SUBSET Holes(b) : Copying(b, n, m, K)

DefragInv == \E b, n, m : before = b /\ NKv = n /\ Shape(b, n) /\ Planned(b, m) /\ DefragState(b, n, m)

\* The holes before `used` are as many as the cells with a token from it on,
\* and n_kv is just past the last of those.
LEMMA ShapeIs ==
    ASSUME NEW live \in SUBSET Cells, before = LaidOut(live)
    PROVE  Shape(before, NKv) /\ Cardinality(Holes(before)) = Cardinality(Movers(before))
<1>1. PICK b : b = before
  OBVIOUS
<1>2. b = LaidOut(live)
  BY <1>1
<1>3. /\ b.seqs = [i \in Cells |-> IF i \in live THEN {i} ELSE {}]
      /\ b.row = [i \in Cells |-> i] /\ b.used = Cardinality(live)
      /\ b = [pos |-> b.pos, delta |-> b.delta, seqs |-> b.seqs, row |-> b.row,
              used |-> b.used, head |-> b.head]
  BY <1>2 DEF LaidOut
<1>4. Live(b) = live
  BY <1>3 DEF Live
<1>5. IsFiniteSet(Cells) /\ Cardinality(Cells) = Size
  BY CellsFinite
<1>6. IsFiniteSet(live) /\ b.used \in 0 .. Size
  <2>1. IsFiniteSet(live) /\ Cardinality(live) <= Cardinality(Cells)
    BY <1>5, FS_Subset
  <2>2. Cardinality(live) \in Nat
    BY <2>1, FS_CardinalityType
  <2> QED BY <2>1, <2>2, <1>3, <1>5, LayoutAssumption
<1>7. Cardinality(Holes(b)) = Cardinality(Movers(b))
  BY <1>3, <1>4, <1>6, HolesMatchMovers
<1> DEFINE upto == {i \in Cells : \E j \in live : j >= i}
<1>8. NKv = Cardinality(upto)
  BY <1>1, <1>4 DEF NKv
<1>9. IsFiniteSet(upto) /\ NKv \in 0 .. Size
  <2>1. upto \in SUBSET Cells
    OBVIOUS
  <2>2. IsFiniteSet(upto) /\ Cardinality(upto) <= Cardinality(Cells)
    BY <2>1, <1>5, FS_Subset
  <2>3. Cardinality(upto) \in Nat
    BY <2>2, FS_CardinalityType
  <2> QED BY <2>2, <2>3, <1>5, <1>8, LayoutAssumption
<1>10. ASSUME NEW j \in live PROVE j \in 0 .. NKv - 1
  <2>1. j \in 0 .. Size - 1
    BY DEF Cells
  <2>2. 0 .. j \in SUBSET upto
    BY <2>1, LayoutAssumption DEF Cells
  <2>3. Cardinality(0 .. j) <= Cardinality(upto)
    BY <2>2, <1>9, FS_Subset
  <2>4. Cardinality(0 .. j) = j + 1
    BY <2>1, LayoutAssumption, FS_Interval
  <2> QED BY <2>1, <2>3, <2>4, <1>8, <1>9, LayoutAssumption
<1> HIDE DEF upto
<1>11. \A i \in Cells : b.seqs[i] = {} <=> i \notin live
  BY <1>3
<1>12. \A i \in Cells : /\ i \in Holes(b) <=> i < b.used /\ i \notin live
                        /\ i \in Movers(b) <=> i >= b.used /\ i \in live
  BY <1>11 DEF Holes, Movers
<1>13. Holes(b) \in SUBSET Cells /\ Movers(b) \in SUBSET Cells
  BY DEF Holes, Movers
<1>14. IsFiniteSet(Holes(b))
  BY <1>5, <1>13, FS_Subset
<1>15. Holes(b) \subseteq 0 .. b.used - 1
  BY <1>6, <1>12, <1>13, LayoutAssumption DEF Cells
<1>16. Movers(b) \subseteq b.used .. NKv - 1
  BY <1>6, <1>9, <1>10, <1>12, <1>13, LayoutAssumption DEF Cells
<1>17. \A i \in Cells : b.seqs[i] = {} <=> IF i < b.used THEN i \in Holes(b) ELSE i \notin Movers(b)
  BY <1>6, <1>11, <1>12, LayoutAssumption DEF Cells
<1>18. \A i \in Cells : i < b.used /\ i \notin Holes(b) => i < NKv
  BY <1>6, <1>9, <1>10, <1>12, LayoutAssumption DEF Cells
<1>19. Shape(b, NKv)
  BY <1>3, <1>6, <1>9, <1>14, <1>15, <1>16, <1>17, <1>18 DEF Shape
<1> QED BY <1>1, <1>7, <1>19

LEMMA PlanIs ==
    ASSUME NEW b, NEW n, Shape(b, n), NEW m \in [Holes(b) -> Movers(b)], Plan(b, m)
    PROVE  Planned(b, m)
<1>1. \A g, h \in Holes(b) :
         g < h => IF g .. h \subseteq Holes(b) THEN m[g] < m[h] ELSE m[g] > m[h]
  BY DEF Plan
<1>2. \A g \in Holes(b) : g \in Int /\ m[g] \in Int
  BY LayoutAssumption DEF Shape
<1>3. ASSUME NEW g \in Holes(b), NEW h \in Holes(b), m[g] = m[h] PROVE g = h
  <2>1. ~ g < h
    BY <1>1, <1>2, <1>3
  <2>2. ~ h < g
    BY <1>1, <1>2, <1>3
  <2> QED BY <2>1, <2>2, <1>2
<1>4. \A i \in Movers(b) : \E h \in Holes(b) : m[h] = i
  BY DEF Plan
<1> QED BY <1>1, <1>3, <1>4 DEF Planned

\* Cells, as numbers.
LEMMA PlanCells ==
    ASSUME NEW b, NEW n, Shape(b, n), NEW m, Planned(b, m)
    PROVE  /\ b.used \in Nat /\ n \in Nat
           /\ \A h \in Holes(b) : /\ h \in 0 .. b.used - 1 /\ h \in Cells
                                  /\ m[h] \in b.used .. n - 1 /\ m[h] \in Cells
                                  /\ m[h] \in Movers(b) /\ m[h] \notin Holes(b)
BY LayoutAssumption DEF Shape, Planned, Cells

\* A cell looked at is empty if it was, and was not filled, or if its token
\* has moved away.
LEMMA CellIs ==
    ASSUME NEW b, NEW n, Shape(b, n), NEW m, Planned(b, m),
           NEW F \in SUBSET Holes(b), NEW D, c = Filled(b, m, F, D), NEW i \in Cells, i \notin F
    PROVE  Empty(i) <=> IF i < b.used THEN i \in Holes(b)
                        ELSE i \notin Movers(b) \/ \E h \in F : m[h] = i
<1>1. c.seqs[i] = IF \E h \in F : m[h] = i THEN {} ELSE b.seqs[i]
  BY DEF Filled, FieldMoved
<1>2. (\E h \in F : m[h] = i) => i >= b.used
  BY PlanCells
<1>3. b.used \in Int /\ i \in Int
  BY LayoutAssumption DEF Shape, Cells
<1> QED BY <1>1, <1>2, <1>3 DEF Empty, Shape

\* The block of holes that begins with one: it ends before `used`.
LEMMA BlockIs ==
    ASSUME NEW b, NEW n, Shape(b, n), NEW i \in Holes(b)
    PROVE  \E e \in i + 1 .. b.used :
              /\ e \notin Holes(b) /\ i .. e - 1 \subseteq Holes(b)
              /\ {h \in i .. b.used - 1 : i .. h \subseteq Holes(b)} = i .. e - 1
<1>1. i \in 0 .. b.used - 1 /\ b.used \in Nat /\ \A h \in Holes(b) : h \in 0 .. b.used - 1
  BY LayoutAssumption DEF Shape
<1> DEFINE E == {x \in i + 1 .. b.used : x \notin Holes(b)}
<1>2. b.used \in E
  BY <1>1
<1>3. E \subseteq 0 .. b.used
  BY <1>1
<1>4. PICK e \in E : \A x \in E : e <= x
  BY <1>1, <1>2, <1>3, LeastIsLeast
<1>5. e \in i + 1 .. b.used /\ e \notin Holes(b)
  BY <1>4
<1>6. i .. e - 1 \subseteq Holes(b)
  <2> SUFFICES ASSUME NEW x \in i .. e - 1, x \notin Holes(b) PROVE FALSE
    OBVIOUS
  <2>1. x \in E
    BY <1>1, <1>5
  <2> QED BY <2>1, <1>1, <1>4, <1>5
<1>7. ASSUME NEW h \in i .. b.used - 1 PROVE i .. h \subseteq Holes(b) <=> h \in i .. e - 1
  <2>1. CASE h < e
    <3>1. \A x \in i .. h : x \in i .. e - 1
      BY <2>1, <1>1, <1>5
    <3> QED BY <3>1, <2>1, <1>1, <1>5, <1>6
  <2>2. CASE h >= e
    <3>1. e \in i .. h
      BY <2>2, <1>1, <1>5
    <3> QED BY <3>1, <2>2, <1>1, <1>5
  <2> QED BY <2>1, <2>2, <1>1, <1>5
<1>8. i .. e - 1 \subseteq i .. b.used - 1
  BY <1>1, <1>5
<1>9. {h \in i .. b.used - 1 : i .. h \subseteq Holes(b)} = i .. e - 1
  BY <1>7, <1>8
<1> QED BY <1>5, <1>6, <1>9

-----------------------------------------------------------------------------
(* Scanning.                                                               *)

LEMMA KeepCellInv ==
    ASSUME NEW b, NEW n, Shape(b, n), NEW m, Planned(b, m), before = b, NKv = n,
           Scanning(b, n, m), KeepCell
    PROVE  Scanning(b, n, m)'
<1>1. /\ i0 \in 0 .. b.used - 1 /\ i0 \in Cells /\ c.used = b.used /\ b.used \in Nat /\ n \in Nat
      /\ ~Empty(i0) /\ c = Filled(b, m, Below(b, i0), {}) /\ c' = c
      /\ ids' = [ids EXCEPT ![i0] = i0] /\ i0' = i0 + 1
      /\ UNCHANGED <<moves, copies, pc>>
  BY PlanCells, LayoutAssumption DEF KeepCell, Scanning, Moved, Filled, Shape, Cells
<1>2. Below(b, i0) \in SUBSET Holes(b) /\ i0 \notin Below(b, i0)
  BY <1>1 DEF Below
<1>3. i0 \notin Holes(b) /\ i0 < n
  <2>1. Empty(i0) <=> IF i0 < b.used THEN i0 \in Holes(b)
                      ELSE i0 \notin Movers(b) \/ \E h \in Below(b, i0) : m[h] = i0
    BY <1>1, <1>2, CellIs
  <2>2. i0 \notin Holes(b)
    BY <2>1, <1>1
  <2> QED BY <2>2, <1>1 DEF Shape
<1>4. Below(b, i0 + 1) = Below(b, i0)
  <2>1. \A h \in Holes(b) : h < i0 + 1 <=> h < i0
    BY <1>1, <1>3, PlanCells
  <2> QED BY <2>1 DEF Below
<1>5. PICK F : F = Below(b, i0)
  OBVIOUS
<1>6. /\ F \in SUBSET Holes(b) /\ ids \in [0 .. n - 1 -> 0 .. n] /\ \A h \in F : ids[m[h]] = h
      /\ \A i \in 0 .. n - 1 :
            (\A h \in F : m[h] # i) => ids[i] = IF i < i0 /\ i \notin Holes(b) THEN i ELSE n
  BY <1>2, <1>5 DEF Scanning, Moved
<1>7. ids' \in [0 .. n - 1 -> 0 .. n]
  BY <1>1, <1>3, <1>6
<1>8. \A h \in F : ids'[m[h]] = h
  <2> SUFFICES ASSUME NEW h \in F PROVE ids'[m[h]] = h
    OBVIOUS
  <2>1. m[h] \in 0 .. n - 1 /\ m[h] # i0
    BY <1>1, <1>6, PlanCells, SMTT(30)
  <2> QED BY <2>1, <1>1, <1>6
<1>9. ASSUME NEW i \in 0 .. n - 1, \A h \in F : m[h] # i
      PROVE  ids'[i] = IF i < i0 + 1 /\ i \notin Holes(b) THEN i ELSE n
  <2>1. CASE i = i0
    BY <2>1, <1>1, <1>3, <1>6
  <2>2. CASE i # i0
    <3>1. ids'[i] = ids[i] /\ (i < i0 + 1 <=> i < i0)
      BY <2>2, <1>1, <1>6
    <3> QED BY <3>1, <1>6, <1>9
  <2> QED BY <2>1, <2>2
<1>10. Moved(b, n, m, F)'
  <2>1. moves = Cardinality(Begins(b, m, F)) /\ copies = 0 /\ c = Filled(b, m, F, {})
    BY <1>5 DEF Scanning, Moved
  <2> QED BY <2>1, <1>1, <1>7, <1>8, <1>9 DEF Moved
<1>11. pc' = "scan" /\ i0' \in 0 .. b.used /\ i0' - 1 \notin Holes(b) /\ moves' < MaxMoves
  <2>1. i0' - 1 = i0 /\ i0' \in 0 .. b.used
    BY <1>1
  <2> QED BY <2>1, <1>1, <1>3 DEF Scanning
<1>12. Below(b, i0') = F
  BY <1>1, <1>4, <1>5
<1> QED BY <1>10, <1>11, <1>12 DEF Scanning

\* The cells that can be taken, from the one planned for the hole on, are
\* those planned for its block.
LEMMA TakableIs ==
    ASSUME NEW b, NEW n, Shape(b, n), NEW m, Planned(b, m), before = b, NKv = n,
           Scanning(b, n, m), i0 \in Holes(b)
    PROVE  /\ {j \in Takable : j >= m[i0]} = {m[h] : h \in {h \in i0 .. b.used - 1 : i0 .. h \subseteq Holes(b)}}
           /\ m[i0] \in Takable /\ Takable \in SUBSET Cells
<1>1. PICK F : F = Below(b, i0)
  OBVIOUS
<1>2. /\ F \in SUBSET Holes(b) /\ ids \in [0 .. n - 1 -> 0 .. n] /\ c = Filled(b, m, F, {})
      /\ \A h \in F : ids[m[h]] = h /\ h < i0
      /\ \A h \in Holes(b) : h \notin F => h >= i0
      /\ \A i \in 0 .. n - 1 :
            (\A h \in F : m[h] # i) => ids[i] = IF i < i0 /\ i \notin Holes(b) THEN i ELSE n
  BY <1>1, PlanCells DEF Scanning, Moved, Below
<1>3. i0 \in 0 .. b.used - 1 /\ m[i0] \in b.used .. n - 1 /\ b.used \in 0 .. Size /\ n \in 0 .. Size
  BY PlanCells DEF Shape
<1> DEFINE block == {h \in i0 .. b.used - 1 : i0 .. h \subseteq Holes(b)}
<1>4. Takable = {i \in i0 + 1 .. n - 1 : ~Empty(i) /\ ids[i] = n} /\ Takable \in SUBSET Cells
  BY <1>3, LayoutAssumption DEF Takable, Cells
<1>5. ASSUME NEW h \in block PROVE m[h] \in Takable /\ m[h] >= m[i0]
  <2>1. h \in Holes(b) /\ i0 \in i0 .. h /\ h \in Int /\ h \notin F
    BY <1>2, <1>3
  <2>2. /\ m[h] \in b.used .. n - 1 /\ m[h] \in Cells /\ m[h] \in Movers(b) /\ m[h] \notin F
        /\ \A g \in F : m[g] # m[h]
    BY <2>1, <1>2, PlanCells DEF Planned
  <2>3. m[h] >= m[i0]
    BY <2>1, <2>2, <1>3 DEF Planned
  <2>4. PICK x : x = m[h]
    OBVIOUS
  <2>5. Empty(x) <=> IF x < b.used THEN x \in Holes(b)
                     ELSE x \notin Movers(b) \/ \E g \in F : m[g] = x
    BY <2>2, <2>4, <1>2, CellIs
  <2>6. ~ x < b.used /\ x \in 0 .. n - 1 /\ ~ x < i0
    BY <2>2, <2>4, <1>3
  <2>7. ~Empty(m[h]) /\ ids[m[h]] = n
    BY <2>2, <2>4, <2>5, <2>6, <1>2
  <2> QED BY <2>2, <2>3, <2>7, <1>3, <1>4
<1>6. ASSUME NEW j \in Takable, j >= m[i0] PROVE \E h \in block : j = m[h]
  <2>1. j \in Cells /\ ~Empty(j) /\ ids[j] = n /\ j \in b.used .. n - 1 /\ j \notin F
    <3>1. j \in Cells /\ ~Empty(j) /\ ids[j] = n /\ j \in i0 + 1 .. n - 1
      BY <1>4
    <3>2. j \in b.used .. n - 1
      BY <3>1, <1>3, <1>6
    <3>3. j \notin F
      BY <3>2, <1>2, <1>3
    <3> QED BY <3>1, <3>2, <3>3
  <2>2. j \in Movers(b) /\ \A h \in F : m[h] # j
    <3>1. ~ j < b.used
      BY <2>1, <1>3
    <3>2. Empty(j) <=> IF j < b.used THEN j \in Holes(b)
                       ELSE j \notin Movers(b) \/ \E h \in F : m[h] = j
      BY <2>1, <1>2, CellIs
    <3> QED BY ONLY <2>1, <3>1, <3>2
  <2>3. PICK h \in Holes(b) : m[h] = j
    BY <2>2 DEF Planned
  <2>4. h \in i0 .. b.used - 1 /\ h \in Int /\ j \in Int /\ m[i0] \in Int
    BY <2>1, <2>2, <2>3, <1>2, <1>3, PlanCells, SMTT(30)
  <2>5. i0 .. h \subseteq Holes(b)
    <3>1. CASE h = i0
      BY <3>1, <2>4, <1>3
    <3>2. CASE i0 < h
      BY <3>2, <2>3, <2>4, <1>6 DEF Planned
    <3> QED BY <3>1, <3>2, <2>4, <1>3
  <2> QED BY <2>3, <2>4, <2>5
<1>7. i0 \in block
  BY <1>3
<1>8. {j \in Takable : j >= m[i0]} = {m[h] : h \in block}
  BY <1>5, <1>6, Zenon
<1> QED BY <1>4, <1>5, <1>7, <1>8

LEMMA FindHoleInv ==
    ASSUME NEW b, NEW n, Shape(b, n), NEW m, Planned(b, m), before = b, NKv = n,
           Scanning(b, n, m), FindHole
    PROVE  Filling(b, n, m)'
<1>1. PICK F : F = Below(b, i0)
  OBVIOUS
<1>2. /\ i0 \in 0 .. b.used - 1 /\ i0 \in Cells /\ c.used = b.used /\ b.used \in Nat /\ n \in Nat
      /\ b.used <= Size /\ Empty(i0) /\ c = Filled(b, m, F, {}) /\ F \in SUBSET Holes(b)
      /\ \A h \in F : h < i0
  <2>1. c = Filled(b, m, F, {}) /\ F \in SUBSET Holes(b) /\ \A h \in F : h < i0
    BY <1>1 DEF Scanning, Moved, Below
  <2>2. c.used = b.used /\ b.used \in Nat /\ n \in Nat /\ b.used <= Size
    BY <2>1, PlanCells, LayoutAssumption DEF Filled, Shape
  <2>3. i0 \in 0 .. b.used - 1 /\ Empty(i0)
    BY <2>2 DEF FindHole, Scanning
  <2> QED BY <2>1, <2>2, <2>3, LayoutAssumption DEF Cells
<1>3. \A j \in i0 .. b.used - 1 : Empty(j) <=> j \in Holes(b)
  <2> SUFFICES ASSUME NEW j \in i0 .. b.used - 1 PROVE Empty(j) <=> j \in Holes(b)
    OBVIOUS
  <2>1. j \in Cells /\ j \notin F /\ j < b.used
    BY <1>2, LayoutAssumption DEF Cells
  <2> QED BY <2>1, <1>2, CellIs
<1>4. i0 \in Holes(b)
  BY <1>2, <1>3
<1> DEFINE block == {h \in i0 .. b.used - 1 : i0 .. h \subseteq Holes(b)}
<1>5. PICK e \in i0 + 1 .. b.used :
         e \notin Holes(b) /\ i0 .. e - 1 \subseteq Holes(b) /\ block = i0 .. e - 1
  BY <1>4, BlockIs
<1>6. hole' = Cardinality(block)
  <2>1. {h \in i0 .. c.used - 1 : \A j \in i0 .. h : Empty(j)} = block
    <3> SUFFICES ASSUME NEW h \in i0 .. b.used - 1
                 PROVE  (\A j \in i0 .. h : Empty(j)) <=> i0 .. h \subseteq Holes(b)
      BY <1>2
    <3>1. \A j \in i0 .. h : j \in i0 .. b.used - 1
      BY <1>2
    <3> QED BY <3>1, <1>3
  <2> QED BY <2>1 DEF FindHole
<1>7. hole' = e - i0 /\ hole' \in Nat \ {0}
  <2>1. Cardinality(i0 .. e - 1) = IF i0 > e - 1 THEN 0 ELSE (e - 1) - i0 + 1
    BY <1>2, FS_Interval
  <2> HIDE DEF block
  <2> QED BY <2>1, <1>2, <1>5, <1>6
<1> HIDE DEF block
<1>8. PICK T : T = Takable
  OBVIOUS
<1>9. {j \in T : j >= m[i0]} = {m[h] : h \in block} /\ m[i0] \in T /\ T \in SUBSET Cells
  BY <1>4, <1>8, TakableIs DEF block
<1>10. Cardinality({j \in T : j >= m[i0]}) = hole'
  <2>1. block \in SUBSET Holes(b) /\ m \in [Holes(b) -> Movers(b)] /\ Plan(b, m)
    BY <1>5 DEF Planned
  <2> QED BY <2>1, <1>6, <1>9, MovesPair
<1>11. IsFiniteSet(T) /\ T \subseteq Int
  BY <1>9, CellsFinite, FS_Subset DEF Cells
<1>12. ~ Cardinality(T) < hole'
  <2>1. {j \in T : j >= m[i0]} \in SUBSET T
    OBVIOUS
  <2>2. Cardinality({j \in T : j >= m[i0]}) <= Cardinality(T) /\ Cardinality(T) \in Nat
    BY <2>1, <1>11, FS_Subset, FS_CardinalityType
  <2> QED BY <2>2, <1>7, <1>10
<1>13. /\ i1' = CHOOSE i \in T : Cardinality({j \in T : j >= i}) = hole'
       /\ pc' = "fill" /\ nf' = 0 /\ cont' = FALSE
       /\ UNCHANGED <<before, c, ids, i0, moves, copies>>
  BY <1>8, <1>12 DEF FindHole
<1>14. i1' = m[i0]
  <2>1. PICK y \in T : y = i1' /\ Cardinality({j \in T : j >= y}) = hole'
    BY <1>9, <1>10, <1>13
  <2>2. y \in Int /\ m[i0] \in Int
    BY <1>9, <1>11
  <2>3. ~ y < m[i0]
    <3> SUFFICES ASSUME y < m[i0] PROVE FALSE
      OBVIOUS
    <3>1. Cardinality({j \in T : j >= m[i0]}) < Cardinality({j \in T : j >= y})
      BY <1>9, <1>11, RankFalls
    <3> QED BY <3>1, <2>1, <1>7, <1>10
  <2>4. ~ m[i0] < y
    <3> SUFFICES ASSUME m[i0] < y PROVE FALSE
      OBVIOUS
    <3>1. Cardinality({j \in T : j >= y}) < Cardinality({j \in T : j >= m[i0]})
      BY <1>9, <1>11, RankFalls
    <3> QED BY <3>1, <2>1, <1>7, <1>10
  <2> QED BY <2>1, <2>2, <2>3, <2>4
<1>15. i0 - 1 \notin Holes(b) /\ moves < MaxMoves
  BY <1>4 DEF Scanning
<1>16. i0' = i0 /\ i0 + hole' = e /\ i0 + 0 = i0 /\ i0 + hole' - 1 = e - 1 /\ m[i0] \in m[i0] .. m[i0]
  BY <1>2, <1>4, <1>5, <1>7, <1>13, PlanCells
<1>17. Moved(b, n, m, F)'
  <2>1. Moved(b, n, m, F)
    BY <1>1 DEF Scanning
  <2> QED BY <2>1, <1>13 DEF Moved
<1>18. moves' \in Int /\ moves' < MaxMoves
  <2>1. IsFiniteSet(Begins(b, m, F))
    BY <1>2, FS_Subset DEF Begins, Shape
  <2>2. Cardinality(Begins(b, m, F)) \in Nat
    BY <2>1, FS_CardinalityType
  <2> QED BY <2>2, <1>1, <1>13, <1>15 DEF Scanning, Moved
<1>19. Below(b, i0' + nf') = F
  BY <1>1, <1>13, <1>16
<1>20. i1' \in m[i0'] .. m[i0' + nf'] /\ nf' \in 0 .. hole' - 1
  <2>1. i0' + nf' = i0
    BY <1>13, <1>16
  <2>2. m[i0'] = m[i0] /\ m[i0' + nf'] = m[i0]
    BY <2>1, <1>16
  <2>3. i1' \in m[i0'] .. m[i0' + nf']
    BY <2>2, <1>14, <1>16
  <2> QED BY <2>3, <1>7, <1>13
<1>21. moves' <= MaxMoves /\ cont' = (nf' > 0 /\ i1' = m[i0' + nf' - 1] + 1) /\ ~ nf' > 0
  <2>1. moves' <= MaxMoves
    BY <1>18, LayoutAssumption
  <2>2. ~ nf' > 0
    BY <1>13
  <2> QED BY <2>1, <2>2, <1>13
<1>22. i0' .. i0' + hole' - 1 \subseteq Holes(b) /\ i0' - 1 \notin Holes(b) /\ i0' + hole' \notin Holes(b)
  BY <1>5, <1>15, <1>16
<1>23. pc' = "fill" /\ i0' \in Holes(b) /\ hole' \in Nat /\ m[i0'] = m[i0]
  BY <1>4, <1>7, <1>13, <1>16
<1> QED BY <1>17, <1>18, <1>19, <1>20, <1>21, <1>22, <1>23 DEF Filling

-----------------------------------------------------------------------------
(* Where the runs end.                                                     *)

LEMMA BeginsFinite ==
    ASSUME NEW b, NEW n, Shape(b, n), NEW m, NEW F \in SUBSET Holes(b)
    PROVE  /\ IsFiniteSet(Begins(b, m, F)) /\ Cardinality(Begins(b, m, F)) \in Nat
           /\ Begins(b, m, F) \in SUBSET F /\ IsFiniteSet(F)
<1>1. IsFiniteSet(Holes(b)) /\ Begins(b, m, F) \in SUBSET F /\ Begins(b, m, F) \in SUBSET Holes(b)
  BY DEF Shape, Begins
<1> QED BY <1>1, FS_Subset, FS_CardinalityType

\* The first hole from `top` on begins a run, unless it goes on with a block.
LEMMA NextBegins ==
    ASSUME NEW b, NEW n, Shape(b, n), NEW m, NEW top \in Int,
           ~ (top \in Holes(b) /\ top - 1 \in Holes(b)), NEW h \in Holes(b), h >= top
    PROVE  \E g \in Holes(b) : top <= g /\ g <= h /\ StartsRun(b, m, g)
<1>1. b.used \in Nat /\ Holes(b) \subseteq 0 .. b.used
  BY LayoutAssumption DEF Shape
<1> DEFINE E == {x \in Holes(b) : x >= top}
<1>2. E \subseteq 0 .. b.used /\ h \in E
  BY <1>1
<1>3. PICK g \in E : \A x \in E : g <= x
  BY <1>1, <1>2, LeastIsLeast
<1>4. g \in Holes(b) /\ g \in Int /\ top <= g /\ g <= h
  BY <1>1, <1>2, <1>3
<1>5. g - 1 \notin Holes(b)
  <2> SUFFICES ASSUME g - 1 \in Holes(b) PROVE FALSE
    OBVIOUS
  <2>1. ~ g - 1 >= top
    BY <1>3, <1>4
  <2>2. g = top
    BY <2>1, <1>4
  <2> QED BY <2>2, <1>4
<1> QED BY <1>4, <1>5 DEF StartsRun

\* When as many runs have begun as may, and the next hole would begin one,
\* the holes filled are those of the plan; so they are if none is left.
LEMMA Stops ==
    ASSUME NEW b, NEW n, Shape(b, n), NEW m, Planned(b, m), NEW top \in Int,
           NEW F, F = Below(b, top), Cardinality(Begins(b, m, F)) <= MaxMoves,
           \A h \in Holes(b) : h >= top =>
              /\ Cardinality(Begins(b, m, F)) = MaxMoves
              /\ \E g \in Holes(b) : top <= g /\ g <= h /\ StartsRun(b, m, g)
    PROVE  MovedBy(b, m) = F
<1>1. F \in SUBSET Holes(b) /\ \A h \in Holes(b) : h \in Int /\ (h \in F <=> h < top)
  BY PlanCells DEF Below
<1> DEFINE upto(h) == {x \in Holes(b) : x <= h /\ StartsRun(b, m, x)}
           R == Begins(b, m, F)
<1>2. IsFiniteSet(R) /\ Cardinality(R) \in Nat /\ IsFiniteSet(Holes(b))
  BY <1>1, BeginsFinite DEF Shape
<1>3. ASSUME NEW h \in F PROVE Cardinality(upto(h)) <= MaxMoves
  <2>1. upto(h) \in SUBSET R
    BY <1>1 DEF Begins
  <2>2. Cardinality(upto(h)) <= Cardinality(R) /\ IsFiniteSet(upto(h))
    BY <2>1, <1>2, FS_Subset
  <2>3. Cardinality(upto(h)) \in Nat
    BY <2>2, FS_CardinalityType
  <2> HIDE DEF upto
  <2> QED BY <2>2, <2>3, <1>2, LayoutAssumption
<1>4. ASSUME NEW h \in Holes(b), h \notin F PROVE ~ Cardinality(upto(h)) <= MaxMoves
  <2>1. PICK g \in Holes(b) : top <= g /\ g <= h /\ StartsRun(b, m, g)
    BY <1>1, <1>4
  <2>2. R \in SUBSET Holes(b) /\ upto(h) \in SUBSET Holes(b) /\ g \in upto(h) /\ g \notin R
    BY <2>1, <1>1 DEF Begins
  <2>3. R \subseteq upto(h)
    BY <1>1, <1>4 DEF Begins
  <2> HIDE DEF upto, R
  <2>4. Cardinality(R) < Cardinality(upto(h))
    BY <2>2, <2>3, <1>2, SmallerWithin
  <2>5. Cardinality(upto(h)) \in Nat
    BY <2>2, <1>2, FS_Subset, FS_CardinalityType
  <2>6. Cardinality(R) = MaxMoves
    BY <1>1, <1>4 DEF R
  <2> QED BY <2>4, <2>5, <2>6, LayoutAssumption
<1>5. MovedBy(b, m) = {h \in Holes(b) : Cardinality(upto(h)) <= MaxMoves}
  BY DEF MovedBy
<1> HIDE DEF upto
<1> QED BY <1>1, <1>3, <1>4, <1>5

\* A cache with these fields and no other.
LEMMA FieldsIs ==
    ASSUME NEW b, NEW n, Shape(b, n), NEW p, NEW d, NEW s, NEW r, NEW h
    PROVE  [b EXCEPT !.pos = p, !.delta = d, !.seqs = s, !.row = r, !.head = h]
             = [pos |-> p, delta |-> d, seqs |-> s, row |-> r, used |-> b.used, head |-> h]
<1>1. b \in [pos : {b.pos}, delta : {b.delta}, seqs : {b.seqs}, row : {b.row},
            used : {b.used}, head : {b.head}]
  BY DEF Shape
<1>2. PICK e : e = [b EXCEPT !.pos = p, !.delta = d, !.seqs = s, !.row = r, !.head = h]
  OBVIOUS
<1>3. e \in [pos : {p}, delta : {d}, seqs : {s}, row : {r}, used : {b.used}, head : {h}]
  BY <1>1, <1>2
<1>4. e = [pos |-> e.pos, delta |-> e.delta, seqs |-> e.seqs, row |-> e.row,
           used |-> e.used, head |-> e.head]
  BY <1>3
<1>5. e.pos = p /\ e.delta = d /\ e.seqs = s /\ e.row = r /\ e.used = b.used /\ e.head = h
  BY <1>3
<1> QED BY <1>2, <1>4, <1>5

LEMMA DefraggedIs ==
    ASSUME NEW b, NEW n, Shape(b, n), NEW m
    PROVE  Defragged(b, m) = Filled(b, m, MovedBy(b, m), MovedBy(b, m))
<1>1. PICK F : F = MovedBy(b, m)
  OBVIOUS
<1>2. PICK from : from = {m[h] : h \in F}
  OBVIOUS
<1>3. \A i : i \in from <=> \E h \in F : m[h] = i
  BY <1>2
<1>4. PICK p : p = [i \in Cells |-> IF i \in F THEN b.pos[m[i]]
                                  ELSE IF i \in from THEN -1 ELSE b.pos[i]]
  OBVIOUS
<1>5. PICK d : d = [i \in Cells |-> IF i \in F THEN b.delta[m[i]]
                                  ELSE IF i \in from THEN 0 ELSE b.delta[i]]
  OBVIOUS
<1>6. PICK s : s = [i \in Cells |-> IF i \in F THEN b.seqs[m[i]]
                                  ELSE IF i \in from THEN {} ELSE b.seqs[i]]
  OBVIOUS
<1>7. PICK r : r = RowsMoved(b, F, m)
  OBVIOUS
<1>8. PICK h : h = IF F = {} THEN b.head ELSE b.used
  OBVIOUS
<1>9. Defragged(b, m) = [b EXCEPT !.pos = p, !.delta = d, !.seqs = s, !.row = r, !.head = h]
  BY <1>1, <1>2, <1>4, <1>5, <1>6, <1>7, <1>8 DEF Defragged
<1>10. Defragged(b, m) = [pos |-> p, delta |-> d, seqs |-> s, row |-> r, used |-> b.used, head |-> h]
  BY <1>9, FieldsIs
<1>11. p = FieldMoved(b.pos, m, F, -1)
  BY <1>3, <1>4 DEF FieldMoved
<1>12. d = FieldMoved(b.delta, m, F, 0)
  BY <1>3, <1>5 DEF FieldMoved
<1>13. s = FieldMoved(b.seqs, m, F, {})
  BY <1>3, <1>6 DEF FieldMoved
<1>14. r = RowsOf(b, m, F)
  BY <1>7 DEF RowsMoved, RowsOf
<1>15. Filled(b, m, F, F)
         = [pos |-> p, delta |-> d, seqs |-> s, row |-> r, used |-> b.used, head |-> h]
  BY <1>8, <1>11, <1>12, <1>13, <1>14, Zenon DEF Filled
<1> QED BY <1>1, <1>10, <1>15

\* The graph is built from the cells as they were left.
LEMMA GraphBegins ==
    ASSUME NEW b, NEW n, Shape(b, n), NEW m, Planned(b, m), NEW top, NEW F, F = Below(b, top),
           F = MovedBy(b, m), top \in Int, pc' = "graph", i0' \in 0 .. b.used,
           moves' <= MaxMoves, Moved(b, n, m, F)'
    PROVE  Copying(b, n, m, F)'
<1>1. F \in SUBSET Holes(b) /\ F \ F = {} /\ b.used \in Nat
  BY PlanCells DEF Below
<1>2. Cardinality(Begins(b, m, F)) \in Nat
  BY <1>1, BeginsFinite
<1>3. /\ c' = Filled(b, m, F, {}) /\ moves' = Cardinality(Begins(b, m, F)) /\ copies' = 0
      /\ ids' \in [0 .. n - 1 -> 0 .. n] /\ \A h \in F : ids'[m[h]] = h
      /\ \A i \in 0 .. n - 1 :
            (\A h \in F : m[h] # i) => ids'[i] = IF i < i0' /\ i \notin Holes(b) THEN i ELSE n
  BY DEF Moved
<1>4. ASSUME NEW h \in F, ~StartsRun(b, m, h) PROVE h - 1 \in F
  <2>1. h - 1 \in Holes(b) /\ h \in Int /\ h < top
    BY <1>4, PlanCells DEF StartsRun, Below
  <2> QED BY <2>1 DEF Below
<1>5. ASSUME NEW i \in 0 .. n - 1, \A h \in F : m[h] # i
      PROVE  ids'[i] = n \/ (ids'[i] = i /\ i < b.used)
  <2>1. ids'[i] = IF i < i0' /\ i \notin Holes(b) THEN i ELSE n
    BY <1>3, <1>5
  <2>2. n \in Nat /\ (i < i0' => i < b.used)
    BY <1>1, PlanCells
  <2> QED BY <2>1, <2>2
<1>6. c' = Filled(b, m, F, F \ F)
  BY <1>1, <1>3
<1>7. copies' \in Nat /\ copies' + Cardinality(Begins(b, m, F)) = moves'
  BY <1>2, <1>3
<1>8. PICK K : K = F
  OBVIOUS
<1> QED BY <1>3, <1>4, <1>5, <1>6, <1>7, <1>8 DEF Copying

-----------------------------------------------------------------------------
(* Filling.                                                                *)

\* One field of the cells, after the token of the cell i1 has moved to t.
LEMMA FieldNext ==
    ASSUME NEW b, NEW n, Shape(b, n), NEW m, Planned(b, m), NEW F \in SUBSET Holes(b),
           NEW t \in Holes(b), t \notin F, i1 = m[t], NEW f, NEW z
    PROVE  MoveField(FieldMoved(f, m, F, z), t, z) = FieldMoved(f, m, F \cup {t}, z)
<1>1. PICK u : u = m[t]
  OBVIOUS
<1>2. /\ t \in Cells /\ u \in Cells /\ u \notin Holes(b) /\ u # t /\ u \notin F
      /\ \A h \in F : m[h] # u
  BY <1>1, PlanCells DEF Planned
<1>3. PICK old : old = FieldMoved(f, m, F, z)
  OBVIOUS
<1>4. PICK new : new = [[old EXCEPT ![t] = old[u]] EXCEPT ![u] = z]
  OBVIOUS
<1>5. MoveField(old, t, z) = new
  BY <1>1, <1>4 DEF MoveField
<1>6. /\ old = [i \in Cells |-> old[i]]
      /\ \A i \in Cells : old[i] = IF i \in F THEN f[m[i]]
                                   ELSE IF \E h \in F : m[h] = i THEN z ELSE f[i]
  BY <1>3 DEF FieldMoved
<1>7. new = [i \in Cells |-> new[i]]
  BY <1>4, <1>6
<1>8. old[u] = f[u]
  BY <1>2, <1>6
<1>9. ASSUME NEW i \in Cells
      PROVE  new[i] = IF i \in F \cup {t} THEN f[m[i]]
                      ELSE IF \E h \in F \cup {t} : m[h] = i THEN z ELSE f[i]
  <2>1. CASE i = t
    BY <2>1, <1>1, <1>2, <1>4, <1>6, <1>8
  <2>2. CASE i = u
    BY <2>2, <1>1, <1>2, <1>4, <1>6
  <2>3. CASE i # t /\ i # u
    <3>1. (\E h \in F \cup {t} : m[h] = i) <=> \E h \in F : m[h] = i
      BY <2>3, <1>1
    <3>2. i \in F \cup {t} <=> i \in F
      BY <2>3
    <3>3. new[i] = old[i]
      BY <2>3, <1>4, <1>6
    <3> QED BY <3>1, <3>2, <3>3, <1>6
  <2> QED BY <2>1, <2>2, <2>3
<1>10. new = FieldMoved(f, m, F \cup {t}, z)
  BY <1>7, <1>9, Zenon DEF FieldMoved
<1> QED BY <1>3, <1>5, <1>10

\* A cache with these fields, and the rows and `used` it had.
HasFields(x) ==
    x = [pos |-> x.pos, delta |-> x.delta, seqs |-> x.seqs, row |-> x.row,
         used |-> x.used, head |-> x.head]

LEMMA CellsIs ==
    ASSUME NEW x, HasFields(x), NEW p, NEW d, NEW s, NEW h
    PROVE  [x EXCEPT !.pos = p, !.delta = d, !.seqs = s, !.head = h]
             = [pos |-> p, delta |-> d, seqs |-> s, row |-> x.row, used |-> x.used, head |-> h]
<1>1. x \in [pos : {x.pos}, delta : {x.delta}, seqs : {x.seqs}, row : {x.row},
            used : {x.used}, head : {x.head}]
  BY DEF HasFields
<1>2. PICK e : e = [x EXCEPT !.pos = p, !.delta = d, !.seqs = s, !.head = h]
  OBVIOUS
<1>3. e \in [pos : {p}, delta : {d}, seqs : {s}, row : {x.row}, used : {x.used}, head : {h}]
  BY <1>1, <1>2
<1>4. e = [pos |-> e.pos, delta |-> e.delta, seqs |-> e.seqs, row |-> e.row,
           used |-> e.used, head |-> e.head]
  BY <1>3
<1>5. e.pos = p /\ e.delta = d /\ e.seqs = s /\ e.row = x.row /\ e.used = x.used /\ e.head = h
  BY <1>3
<1> QED BY <1>2, <1>4, <1>5

\* The cache after the cell i1 has moved to t.
MovedTo(t) ==
    [c EXCEPT !.pos = MoveField(@, t, -1), !.delta = MoveField(@, t, 0),
              !.seqs = MoveField(@, t, {}), !.head = c.used]

LEMMA FilledNext ==
    ASSUME NEW b, NEW n, Shape(b, n), NEW m, Planned(b, m), NEW F \in SUBSET Holes(b),
           NEW t \in Holes(b), t \notin F, i1 = m[t], c = Filled(b, m, F, {})
    PROVE  MovedTo(t) = Filled(b, m, F \cup {t}, {})
<1>1. PICK x : x = c
  OBVIOUS
<1>2. HasFields(x)
  BY <1>1 DEF Filled, HasFields
<1>3. /\ x.pos = FieldMoved(b.pos, m, F, -1) /\ x.delta = FieldMoved(b.delta, m, F, 0)
      /\ x.seqs = FieldMoved(b.seqs, m, F, {}) /\ x.used = b.used
      /\ x.row = RowsOf(b, m, {})
  BY <1>1 DEF Filled
<1>4. PICK p : p = MoveField(x.pos, t, -1)
  OBVIOUS
<1>5. PICK d : d = MoveField(x.delta, t, 0)
  OBVIOUS
<1>6. PICK s : s = MoveField(x.seqs, t, {})
  OBVIOUS
<1>7. MovedTo(t) = [x EXCEPT !.pos = p, !.delta = d, !.seqs = s, !.head = x.used]
  BY <1>1, <1>4, <1>5, <1>6 DEF MovedTo
<1>8. PICK G : G = F \cup {t} /\ G # {}
  OBVIOUS
<1>9. /\ p = FieldMoved(b.pos, m, G, -1) /\ d = FieldMoved(b.delta, m, G, 0)
      /\ s = FieldMoved(b.seqs, m, G, {})
  BY <1>3, <1>4, <1>5, <1>6, <1>8, FieldNext
<1>10. PICK h : h = x.used
  OBVIOUS
<1>11. [x EXCEPT !.pos = p, !.delta = d, !.seqs = s, !.head = h]
         = [pos |-> p, delta |-> d, seqs |-> s, row |-> x.row, used |-> x.used, head |-> h]
  BY <1>2, CellsIs
<1>12. Filled(b, m, G, {})
         = [pos |-> p, delta |-> d, seqs |-> s, row |-> x.row, used |-> x.used, head |-> h]
  BY <1>3, <1>8, <1>9, <1>10, Zenon DEF Filled
<1> QED BY <1>7, <1>8, <1>10, <1>11, <1>12

\* The numbers of the inner loop: t is the hole to fill next, and i1 is the
\* cell planned for it exactly when it can be taken.
LEMMA FillingIs ==
    ASSUME NEW b, NEW n, Shape(b, n), NEW m, Planned(b, m), before = b, NKv = n,
           Filling(b, n, m), NEW t, t = i0 + nf, NEW F, F = Below(b, t)
    PROVE  /\ t \in Holes(b) /\ t \in Int /\ t < b.used /\ i0 \in 0 .. t /\ nf = t - i0
           /\ hole \in Nat /\ t < i0 + hole /\ i0 .. i0 + hole - 1 \subseteq Holes(b)
           /\ F \in SUBSET Holes(b) /\ t \notin F /\ Moved(b, n, m, F)
           /\ m[i0] \in Int /\ m[t] \in Int /\ i1 \in m[i0] .. m[t]
           /\ t > i0 => t - 1 \in Holes(b) /\ m[t - 1] \in Int /\ i1 > m[t - 1]
           /\ cont \in BOOLEAN /\ (cont <=> t > i0 /\ i1 = m[t - 1] + 1)
<1>1. /\ i0 \in Holes(b) /\ hole \in Nat /\ nf \in 0 .. hole - 1
      /\ i0 .. i0 + hole - 1 \subseteq Holes(b) /\ i1 \in m[i0] .. m[i0 + nf]
      /\ nf > 0 => i1 > m[i0 + nf - 1]
      /\ cont = (nf > 0 /\ i1 = m[i0 + nf - 1] + 1)
      /\ Moved(b, n, m, Below(b, i0 + nf))
  BY DEF Filling
<1>2. i0 \in Int /\ nf \in Int /\ i0 >= 0
  BY <1>1, PlanCells
<1>3. t \in i0 .. i0 + hole - 1 /\ t \in Int /\ nf = t - i0 /\ (nf > 0 <=> t > i0) /\ i0 \in 0 .. t
  BY <1>1, <1>2
<1>4. t \in Holes(b) /\ (t > i0 => t - 1 \in Holes(b))
  <2>1. t > i0 => t - 1 \in i0 .. i0 + hole - 1
    BY <1>1, <1>2, <1>3
  <2> QED BY <2>1, <1>1, <1>3
<1>5. t < b.used /\ m[i0] \in Int /\ m[t] \in Int /\ (t > i0 => m[t - 1] \in Int)
  BY <1>1, <1>4, PlanCells
<1>6. F \in SUBSET Holes(b) /\ t \notin F
  BY <1>3 DEF Below
<1>7. Moved(b, n, m, F) /\ i1 \in m[i0] .. m[t]
  BY <1>1
<1>8. i0 + nf - 1 = t - 1
  BY <1>2
<1>9. /\ t > i0 => i1 > m[t - 1]
      /\ cont \in BOOLEAN /\ (cont <=> t > i0 /\ i1 = m[t - 1] + 1)
  BY <1>1, <1>3, <1>8
<1>10. t < i0 + hole
  BY <1>1, <1>2, <1>3
<1> QED BY <1>1, <1>3, <1>4, <1>5, <1>6, <1>7, <1>9, <1>10

LEMMA FillingTakes ==
    ASSUME NEW b, NEW n, Shape(b, n), NEW m, Planned(b, m), before = b, NKv = n,
           Filling(b, n, m), NEW t, t = i0 + nf, NEW F, F = Below(b, t)
    PROVE  (~Empty(i1) /\ ids[i1] = n) <=> i1 = m[t]
<1>1. PICK u : u = i1
  OBVIOUS
<1>2. /\ t \in Holes(b) /\ t \in Int /\ t < b.used /\ i0 \in 0 .. t
      /\ F \in SUBSET Holes(b) /\ t \notin F
      /\ m[i0] \in Int /\ m[t] \in Int /\ u \in m[i0] .. m[t] /\ i0 \in Holes(b)
      /\ c = Filled(b, m, F, {})
      /\ \A i \in 0 .. n - 1 :
            (\A h \in F : m[h] # i) => ids[i] = IF i < i0 /\ i \notin Holes(b) THEN i ELSE n
      /\ \A h \in F : ids[m[h]] = h
  <2>1. Moved(b, n, m, F)
    BY FillingIs
  <2>2. /\ c = Filled(b, m, F, {})
        /\ \A i \in 0 .. n - 1 :
              (\A h \in F : m[h] # i) => ids[i] = IF i < i0 /\ i \notin Holes(b) THEN i ELSE n
        /\ \A h \in F : ids[m[h]] = h
    BY <2>1 DEF Moved
  <2>3. i0 \in Holes(b)
    BY DEF Filling
  <2>4. /\ t \in Holes(b) /\ t \in Int /\ t < b.used /\ i0 \in 0 .. t
        /\ F \in SUBSET Holes(b) /\ t \notin F
        /\ m[i0] \in Int /\ m[t] \in Int /\ i1 \in m[i0] .. m[t]
    BY FillingIs
  <2> QED BY <1>1, <2>2, <2>3, <2>4
<1>3. /\ m[i0] \in b.used .. n - 1 /\ m[t] \in b.used .. n - 1 /\ b.used \in Nat /\ n \in Nat
      /\ n <= Size
  BY <1>2, PlanCells, LayoutAssumption DEF Shape
<1>4. u \in b.used .. n - 1 /\ u \in Cells /\ u \notin Holes(b) /\ u \notin F
  <2>1. u \in b.used .. n - 1
    BY <1>2, <1>3
  <2>2. u \notin Holes(b)
    BY <2>1, <1>3, PlanCells
  <2> QED BY <2>1, <2>2, <1>2, <1>3, LayoutAssumption DEF Cells
<1>5. Empty(u) <=> (u \notin Movers(b) \/ \E h \in F : m[h] = u)
  <2>1. Empty(u) <=> IF u < b.used THEN u \in Holes(b)
                     ELSE u \notin Movers(b) \/ \E h \in F : m[h] = u
    BY <1>2, <1>4, CellIs
  <2> QED BY <2>1, <1>3, <1>4
<1>6. ASSUME u = m[t] PROVE ~Empty(u) /\ ids[u] = n
  <2>1. u \in Movers(b) /\ \A h \in F : m[h] # u
    BY <1>2, <1>6, PlanCells DEF Planned
  <2>2. u \in 0 .. n - 1 /\ ~ u < i0
    BY <1>2, <1>3, <1>4
  <2> QED BY <2>1, <2>2, <1>2, <1>5
<1>7. ASSUME ~Empty(u) PROVE u = m[t]
  <2>1. u \in Movers(b) /\ \A h \in F : m[h] # u
    BY <1>5, <1>7
  <2>2. PICK g \in Holes(b) : m[g] = u
    BY <2>1 DEF Planned
  <2>3. g \in Int /\ ~ g < t
    <3>1. g \in Int /\ g \notin F
      BY <2>1, <2>2, PlanCells
    <3> QED BY <3>1 DEF Below
  <2>4. ~ t < g
    <3> SUFFICES ASSUME t < g PROVE FALSE
      OBVIOUS
    <3>1. CASE t .. g \subseteq Holes(b)
      <4>1. m[t] < m[g]
        BY <3>1, <1>2, <2>2 DEF Planned
      <4> QED BY <4>1, <1>2, <2>2
    <3>2. CASE ~ t .. g \subseteq Holes(b)
      <4>1. ~ i0 .. g \subseteq Holes(b) /\ i0 < g
        BY <3>2, <1>2, <2>3
      <4>2. m[i0] > m[g]
        BY <4>1, <1>2, <2>2 DEF Planned
      <4> QED BY <4>2, <1>2, <2>2
    <3> QED BY <3>1, <3>2
  <2> QED BY <2>2, <2>3, <2>4, <1>2
<1> QED BY <1>1, <1>6, <1>7

\* A hole goes on with a run just when the last cell looked at was moved.
LEMMA FillingRun ==
    ASSUME NEW b, NEW n, Shape(b, n), NEW m, Planned(b, m), before = b, NKv = n,
           Filling(b, n, m), NEW t, t = i0 + nf
    PROVE  /\ i1 = m[t] => (cont <=> ~StartsRun(b, m, t))
           /\ cont /\ i1 # m[t] => StartsRun(b, m, t)
<1>1. PICK F : F = Below(b, t)
  OBVIOUS
<1>2. /\ t \in Int /\ i0 \in 0 .. t
      /\ t > i0 => t - 1 \in Holes(b)
      /\ cont <=> t > i0 /\ i1 = m[t - 1] + 1
  BY <1>1, FillingIs
<1>3. ~ t > i0 => t - 1 \notin Holes(b)
  <2>1. ~ t > i0 => t - 1 = i0 - 1
    BY <1>2
  <2> QED BY <2>1 DEF Filling
<1> QED BY <1>2, <1>3 DEF StartsRun

\* The cell i1 has moved to t.
LEMMA MovedNext ==
    ASSUME NEW b, NEW n, Shape(b, n), NEW m, Planned(b, m), before = b, NKv = n,
           Filling(b, n, m), MoveCell, NEW t, t = i0 + nf
    PROVE  /\ i1 = m[t] /\ Moved(b, n, m, Below(b, t + 1))'
           /\ moves' <= MaxMoves
<1>1. PICK F : F = Below(b, t)
  OBVIOUS
<1>2. PICK G : G = F \cup {t}
  OBVIOUS
<1>3. /\ t \in Holes(b) /\ t \in Int /\ t < b.used /\ i0 \in 0 .. t /\ F \in SUBSET Holes(b) /\ t \notin F
      /\ hole \in Nat /\ t < i0 + hole /\ i0 .. i0 + hole - 1 \subseteq Holes(b) /\ Moved(b, n, m, F)
  BY <1>1, FillingIs
<1>4. i1 = m[t]
  <2>1. ~Empty(i1) /\ ids[i1] = n
    BY DEF MoveCell
  <2> QED BY <2>1, <1>1, FillingTakes
<1>5. /\ c = Filled(b, m, F, {}) /\ moves = Cardinality(Begins(b, m, F)) /\ copies = 0
      /\ ids \in [0 .. n - 1 -> 0 .. n] /\ \A h \in F : ids[m[h]] = h
      /\ \A i \in 0 .. n - 1 :
            (\A h \in F : m[h] # i) => ids[i] = IF i < i0 /\ i \notin Holes(b) THEN i ELSE n
  BY <1>3 DEF Moved
<1>6. Below(b, t + 1) = G
  <2>1. \A h \in Holes(b) : h < t + 1 <=> h < t \/ h = t
    BY <1>3, PlanCells
  <2> QED BY <2>1, <1>1, <1>2, <1>3 DEF Below
<1>7. /\ ids' = [ids EXCEPT ![m[t]] = t] /\ copies' = copies
      /\ moves' = IF cont THEN moves ELSE moves + 1
      /\ i0' = i0 \/ i0' = i0 + hole
  BY <1>4 DEF MoveCell, LeaveFill
<1>8. c' = Filled(b, m, G, {})
  <2>1. c' = MovedTo(t)
    BY DEF MoveCell, MovedTo
  <2>2. MovedTo(t) = Filled(b, m, F \cup {t}, {})
    BY <1>3, <1>4, <1>5, FilledNext
  <2> QED BY <2>1, <2>2, <1>2
<1>9. cont \in BOOLEAN /\ (cont <=> ~StartsRun(b, m, t))
  BY <1>1, <1>4, FillingIs, FillingRun
<1>10. /\ IsFiniteSet(Begins(b, m, F)) /\ moves \in Nat
  BY <1>3, <1>5, BeginsFinite
<1>11. moves' = Cardinality(Begins(b, m, G))
  <2>1. CASE StartsRun(b, m, t)
    <3>1. Begins(b, m, G) = Begins(b, m, F) \cup {t} /\ t \notin Begins(b, m, F)
      BY <2>1, <1>2, <1>3 DEF Begins
    <3>2. Cardinality(Begins(b, m, F) \cup {t}) = Cardinality(Begins(b, m, F)) + 1
      BY <3>1, <1>10, FS_AddElement
    <3> QED BY <2>1, <3>1, <3>2, <1>5, <1>7, <1>9
  <2>2. CASE ~StartsRun(b, m, t)
    <3>1. Begins(b, m, G) = Begins(b, m, F)
      BY <2>2, <1>2 DEF Begins
    <3> QED BY <2>2, <3>1, <1>5, <1>7, <1>9
  <2> QED BY <2>1, <2>2
<1>12. m[t] \in 0 .. n - 1 /\ t \in 0 .. n /\ b.used \in Nat /\ n \in Nat
  <2>1. b.used \in Nat /\ n \in Nat /\ m[t] \in b.used .. n - 1
    BY <1>3, PlanCells
  <2> QED BY <2>1, <1>3
<1>13. ids' \in [0 .. n - 1 -> 0 .. n]
  BY <1>5, <1>7, <1>12
<1>14. \A h \in G : ids'[m[h]] = h
  <2> SUFFICES ASSUME NEW h \in G PROVE ids'[m[h]] = h
    OBVIOUS
  <2>1. CASE h = t
    BY <2>1, <1>5, <1>7, <1>12
  <2>2. CASE h # t
    <3>1. h \in F /\ m[h] # m[t] /\ m[h] \in 0 .. n - 1
      <4>1. h \in F /\ h \in Holes(b)
        BY <2>2, <1>2, <1>3
      <4>2. m[h] \in b.used .. n - 1
        BY <4>1, PlanCells
      <4> QED BY <4>1, <4>2, <2>2, <1>3, <1>12 DEF Planned
    <3> QED BY <3>1, <1>5, <1>7
  <2> QED BY <2>1, <2>2
<1>15. ASSUME NEW i \in 0 .. n - 1, \A h \in G : m[h] # i
       PROVE  ids'[i] = IF i < i0' /\ i \notin Holes(b) THEN i ELSE n
  <2>1. i # m[t] /\ \A h \in F : m[h] # i
    BY <1>2, <1>15
  <2>2. ids'[i] = ids[i] /\ ids[i] = IF i < i0 /\ i \notin Holes(b) THEN i ELSE n
    BY <2>1, <1>5, <1>7
  <2>3. i \notin Holes(b) => (i < i0' <=> i < i0)
    <3>1. i \notin Holes(b) => i \notin i0 .. i0 + hole - 1
      BY <1>3
    <3> QED BY <3>1, <1>3, <1>7
  <2> QED BY <2>2, <2>3
<1>16. Moved(b, n, m, G)'
  BY <1>5, <1>7, <1>8, <1>11, <1>13, <1>14, <1>15 DEF Moved
<1>17. moves' <= MaxMoves
  <2>1. moves <= MaxMoves /\ (~cont => moves < MaxMoves)
    BY DEF Filling
  <2> QED BY <2>1, <1>7, <1>9, <1>10, LayoutAssumption
<1> QED BY <1>4, <1>6, <1>16, <1>17

LEMMA MoveCellInv ==
    ASSUME NEW b, NEW n, Shape(b, n), NEW m, Planned(b, m), before = b, NKv = n,
           Filling(b, n, m), MoveCell
    PROVE  Scanning(b, n, m)' \/ Filling(b, n, m)' \/ \E K \in SUBSET Holes(b) : Copying(b, n, m, K)'
<1>1. PICK t : t = i0 + nf
  OBVIOUS
<1>2. PICK G : G = Below(b, t + 1)
  OBVIOUS
<1>3. /\ t \in Holes(b) /\ t \in Int /\ t < b.used /\ i0 \in 0 .. t /\ hole \in Nat
      /\ t < i0 + hole /\ i0 .. i0 + hole - 1 \subseteq Holes(b) /\ nf = t - i0 /\ b.used \in Nat
  BY <1>1, FillingIs, PlanCells
<1>4. i1 = m[t] /\ Moved(b, n, m, G)' /\ moves' <= MaxMoves
  BY <1>1, <1>2, MovedNext
<1>5. /\ nf' = nf + 1 /\ hole' = hole /\ i1' = i1 + 1 /\ cont' = TRUE
      /\ IF nf' = hole THEN LeaveFill(FALSE) ELSE UNCHANGED <<i0, pc>>
  BY DEF MoveCell
<1>6. /\ i0 \in Holes(b) /\ i0 - 1 \notin Holes(b) /\ i0 + hole \notin Holes(b) /\ pc = "fill"
  BY DEF Filling
<1>7. nf' = t + 1 - i0 /\ (nf' = hole <=> t + 1 = i0 + hole)
  BY <1>3, <1>5
<1>8. moves' \in Int
  <2>1. moves' = Cardinality(Begins(b, m, G)) /\ G \in SUBSET Holes(b)
    BY <1>2, <1>4 DEF Moved, Below
  <2> QED BY <2>1, BeginsFinite
<1>9. ASSUME nf' = hole, moves' = MaxMoves PROVE Copying(b, n, m, G)' /\ G \in SUBSET Holes(b)
  <2>1. pc' = "graph" /\ i0' \in 0 .. b.used
    BY <1>3, <1>5, <1>9 DEF LeaveFill
  <2>2. Cardinality(Begins(b, m, G)) = MaxMoves
    BY <1>4, <1>9 DEF Moved
  <2>3. t + 1 \notin Holes(b) /\ t + 1 \in Int
    BY <1>3, <1>6, <1>7, <1>9
  <2>4. \A h \in Holes(b) : h >= t + 1 =>
           \E g \in Holes(b) : t + 1 <= g /\ g <= h /\ StartsRun(b, m, g)
    BY <2>3, NextBegins
  <2>5. Cardinality(Begins(b, m, G)) <= MaxMoves
    BY <2>2, LayoutAssumption
  <2>6. PICK top : top = t + 1
    OBVIOUS
  <2>7. MovedBy(b, m) = G
    BY <2>2, <2>3, <2>4, <2>5, <2>6, <1>2, Stops
  <2>8. Copying(b, n, m, G)'
    BY <2>1, <2>3, <2>6, <2>7, <1>2, <1>4, GraphBegins
  <2> QED BY <2>8, <1>2 DEF Below
<1>10. ASSUME nf' = hole, moves' # MaxMoves PROVE Scanning(b, n, m)'
  <2>1. pc' = "scan" /\ i0' = i0 + hole
    BY <1>5, <1>10 DEF LeaveFill
  <2>2. i0' = t + 1 /\ i0' \in 0 .. b.used /\ i0' \notin Holes(b)
    BY <2>1, <1>3, <1>6, <1>7, <1>10
  <2>3. moves' < MaxMoves
    BY <1>4, <1>8, <1>10, LayoutAssumption
  <2>4. Below(b, i0') = G
    BY <2>2, <1>2
  <2> QED BY <2>1, <2>2, <2>3, <2>4, <1>4 DEF Scanning
<1>11. ASSUME nf' # hole PROVE Filling(b, n, m)'
  <2>1. i0' = i0 /\ pc' = "fill" /\ t + 1 < i0 + hole
    BY <1>3, <1>5, <1>6, <1>7, <1>11
  <2>2. t + 1 \in Holes(b)
    <3>1. t + 1 \in i0 .. i0 + hole - 1
      BY <2>1, <1>3
    <3> QED BY <3>1, <1>3
  <2>3. m[i0] \in Int /\ m[t] \in Int /\ m[t + 1] \in Int /\ m[t] < m[t + 1] /\ m[i0] <= m[t]
    <3>1. m[i0] \in Int /\ m[t] \in Int /\ m[t + 1] \in Int
      BY <2>2, <1>3, <1>6, PlanCells
    <3>2. t .. t + 1 \subseteq Holes(b)
      BY <2>2, <1>3
    <3>3. m[t] < m[t + 1]
      BY <3>2, <2>2, <1>3 DEF Planned
    <3>4. PICK F : F = Below(b, t)
      OBVIOUS
    <3>5. i1 \in m[i0] .. m[t]
      BY <3>4, <1>1, FillingIs
    <3> QED BY <3>1, <3>3, <3>5
  <2>4. i0' + nf' = t + 1 /\ i0' + nf' - 1 = t /\ nf' > 0 /\ nf' \in 0 .. hole' - 1
    BY <2>1, <1>3, <1>5, <1>7
  <2>5. i1' \in m[i0'] .. m[i0' + nf'] /\ i1' > m[i0' + nf' - 1] /\ i1' = m[i0' + nf' - 1] + 1
    <3>1. m[i0'] = m[i0] /\ m[i0' + nf'] = m[t + 1] /\ m[i0' + nf' - 1] = m[t] /\ i1' = m[t] + 1
      BY <2>1, <2>4, <1>4, <1>5
    <3> QED BY <3>1, <2>3
  <2>6. Below(b, i0' + nf') = G
    BY <2>4, <1>2
  <2>7. i0' \in Holes(b) /\ hole' \in Nat /\ i0' .. i0' + hole' - 1 \subseteq Holes(b)
        /\ i0' - 1 \notin Holes(b) /\ i0' + hole' \notin Holes(b)
    BY <2>1, <1>3, <1>5, <1>6
  <2>8. cont' = (nf' > 0 /\ i1' = m[i0' + nf' - 1] + 1) /\ cont'
    BY <2>4, <2>5, <1>5
  <2> QED BY <2>1, <2>4, <2>5, <2>6, <2>7, <2>8, <1>4 DEF Filling
<1> QED BY <1>9, <1>10, <1>11

LEMMA PassCellInv ==
    ASSUME NEW b, NEW n, Shape(b, n), NEW m, Planned(b, m), before = b, NKv = n,
           Filling(b, n, m), PassCell
    PROVE  Filling(b, n, m)' \/ \E K \in SUBSET Holes(b) : Copying(b, n, m, K)'
<1>1. PICK t : t = i0 + nf
  OBVIOUS
<1>2. PICK F : F = Below(b, t)
  OBVIOUS
<1>3. /\ t \in Holes(b) /\ t \in Int /\ t < b.used /\ i0 \in 0 .. t /\ b.used \in Nat
      /\ F \in SUBSET Holes(b) /\ Moved(b, n, m, F)
      /\ m[i0] \in Int /\ m[t] \in Int /\ i1 \in m[i0] .. m[t]
      /\ t > i0 => t - 1 \in Holes(b) /\ m[t - 1] \in Int /\ i1 > m[t - 1]
      /\ nf = t - i0
  BY <1>1, <1>2, FillingIs, PlanCells
<1>4. i1 # m[t]
  <2>1. ~ (~Empty(i1) /\ ids[i1] = n)
    BY DEF PassCell
  <2> QED BY <2>1, <1>1, <1>2, FillingTakes
<1>5. UNCHANGED <<before, c, ids, hole, nf, copies, moves, i0>>
  BY DEF PassCell, LeaveFill
<1>6. Moved(b, n, m, F)'
  BY <1>3, <1>5 DEF Moved
<1>7. moves \in Int /\ moves <= MaxMoves /\ (~cont => moves < MaxMoves)
  <2>1. moves = Cardinality(Begins(b, m, F))
    BY <1>3 DEF Moved
  <2>2. moves \in Nat
    BY <2>1, <1>3, BeginsFinite
  <2> QED BY <2>2 DEF Filling
<1>8. ASSUME moves = MaxMoves PROVE Copying(b, n, m, F)'
  <2>1. pc' = "graph" /\ i0' \in 0 .. b.used /\ moves' <= MaxMoves
    BY <1>3, <1>5, <1>7, <1>8 DEF PassCell, LeaveFill
  <2>2. StartsRun(b, m, t)
    <3>1. cont
      BY <1>7, <1>8
    <3> QED BY <3>1, <1>1, <1>4, FillingRun
  <2>3. Cardinality(Begins(b, m, F)) = MaxMoves /\ Cardinality(Begins(b, m, F)) <= MaxMoves
    BY <1>3, <1>7, <1>8 DEF Moved
  <2>4. \A h \in Holes(b) : h >= t =>
           \E g \in Holes(b) : t <= g /\ g <= h /\ StartsRun(b, m, g)
    BY <2>2, <1>3
  <2>5. MovedBy(b, m) = F
    BY <2>3, <2>4, <1>2, <1>3, Stops
  <2> QED BY <2>1, <2>5, <1>2, <1>3, <1>6, GraphBegins
<1>9. ASSUME moves # MaxMoves PROVE Filling(b, n, m)'
  <2>1. cont' = FALSE /\ i1' = i1 + 1 /\ pc' = "fill"
    BY <1>9 DEF PassCell, Filling
  <2>2. i1 \in Int /\ i1 >= m[i0] /\ i1 + 1 <= m[t]
    BY <1>3, <1>4
  <2>3. /\ i0' = i0 /\ nf' = nf /\ hole' = hole /\ moves' = moves
        /\ i0' + nf' = t /\ i0' + nf' - 1 = t - 1 /\ (nf' > 0 <=> t > i0)
    BY <1>3, <1>5
  <2>4. m[i0'] = m[i0] /\ m[i0' + nf'] = m[t] /\ m[i0' + nf' - 1] = m[t - 1]
    BY <2>3
  <2>5. i1' \in m[i0'] .. m[i0' + nf']
    BY <2>1, <2>2, <2>4, <1>3
  <2>6. nf' > 0 => i1' > m[i0' + nf' - 1] /\ i1' # m[i0' + nf' - 1] + 1
    <3>1. t > i0 => i1 + 1 > m[t - 1] /\ i1 + 1 # m[t - 1] + 1
      BY <2>2, <1>3
    <3> QED BY <3>1, <2>1, <2>3, <2>4
  <2>7. cont' = (nf' > 0 /\ i1' = m[i0' + nf' - 1] + 1)
    BY <2>1, <2>6
  <2>8. moves' <= MaxMoves /\ moves' < MaxMoves
    BY <2>3, <1>7, <1>9, LayoutAssumption
  <2>9. /\ i0' \in Holes(b) /\ hole' \in Nat /\ nf' \in 0 .. hole' - 1
        /\ i0' .. i0' + hole' - 1 \subseteq Holes(b)
        /\ i0' - 1 \notin Holes(b) /\ i0' + hole' \notin Holes(b)
    BY <2>3 DEF Filling
  <2>10. Below(b, i0' + nf') = F
    BY <2>3, <1>2
  <2> QED BY <2>1, <2>5, <2>6, <2>7, <2>8, <2>9, <2>10, <1>6 DEF Filling
<1> QED BY <1>3, <1>8, <1>9

LEMMA EndScanInv ==
    ASSUME NEW b, NEW n, Shape(b, n), NEW m, Planned(b, m), before = b, NKv = n,
           Scanning(b, n, m), EndScan
    PROVE  Ended(b, m)' \/ \E K \in SUBSET Holes(b) : Copying(b, n, m, K)'
<1>1. PICK F : F = Below(b, i0)
  OBVIOUS
<1>2. /\ i0 \in 0 .. b.used /\ b.used \in Nat /\ Moved(b, n, m, F) /\ F \in SUBSET Holes(b)
      /\ moves < MaxMoves
  BY <1>1, PlanCells DEF Scanning, Below
<1>3. c.used = b.used
  BY <1>2 DEF Moved, Filled
<1>4. /\ i0 = b.used /\ pc' = IF moves = 0 THEN "done" ELSE "graph"
      /\ UNCHANGED <<before, c, ids, i0, moves, copies>>
  BY <1>2, <1>3 DEF EndScan
<1>5. F = Holes(b)
  <2>1. \A h \in Holes(b) : h < b.used
    BY <1>2, PlanCells
  <2> QED BY <2>1, <1>1, <1>4 DEF Below
<1>6. /\ Cardinality(Begins(b, m, F)) = moves /\ moves \in Nat
      /\ IsFiniteSet(Begins(b, m, F)) /\ copies = 0 /\ c = Filled(b, m, F, {})
  <2>1. Cardinality(Begins(b, m, F)) = moves /\ copies = 0 /\ c = Filled(b, m, F, {})
    BY <1>2 DEF Moved
  <2> QED BY <2>1, <1>2, BeginsFinite
<1>7. ASSUME moves = 0 PROVE Ended(b, m)'
  <2>1. Begins(b, m, F) = {}
    BY <1>6, <1>7, FS_EmptySet
  <2>2. Holes(b) = {}
    <3> SUFFICES ASSUME NEW h \in Holes(b) PROVE FALSE
      OBVIOUS
    <3>1. PICK top \in Int : top = 0
      OBVIOUS
    <3>2. h >= top /\ top - 1 \notin Holes(b)
      BY <3>1, PlanCells
    <3>3. PICK g \in Holes(b) : top <= g /\ g <= h /\ StartsRun(b, m, g)
      BY <3>1, <3>2, NextBegins
    <3> QED BY <3>3, <2>1, <1>5 DEF Begins
  <2>3. MovedBy(b, m) = {} /\ F = {}
    BY <2>2, <1>5 DEF MovedBy
  <2>4. c' = Defragged(b, m)
    BY <2>3, <1>4, <1>6, DefraggedIs
  <2> QED BY <2>4, <1>4, <1>6, <1>7, LayoutAssumption DEF Ended
<1>8. ASSUME moves # 0 PROVE Copying(b, n, m, F)'
  <2>1. Cardinality(Begins(b, m, F)) <= MaxMoves /\ moves' <= MaxMoves
    BY <1>2, <1>4, <1>6, LayoutAssumption
  <2>2. \A h \in Holes(b) : ~ h >= i0
    BY <1>2, <1>4, PlanCells
  <2>3. i0 \in Int /\ i0' \in 0 .. b.used /\ pc' = "graph"
    BY <1>2, <1>4, <1>8
  <2>4. PICK top : top = i0
    OBVIOUS
  <2>5. MovedBy(b, m) = F
    BY <2>1, <2>2, <2>3, <2>4, <1>1, Stops
  <2>6. Moved(b, n, m, F)'
    BY <1>2, <1>4 DEF Moved
  <2> QED BY <2>1, <2>3, <2>4, <2>5, <2>6, <1>1, GraphBegins
<1> QED BY <1>2, <1>7, <1>8

-----------------------------------------------------------------------------
(* Copying.                                                                *)

\* A cache with these rows, and what else it had.
LEMMA RowsIs ==
    ASSUME NEW x, HasFields(x), NEW r
    PROVE  [x EXCEPT !.row = r]
             = [pos |-> x.pos, delta |-> x.delta, seqs |-> x.seqs, row |-> r,
                used |-> x.used, head |-> x.head]
<1>1. x \in [pos : {x.pos}, delta : {x.delta}, seqs : {x.seqs}, row : {x.row},
            used : {x.used}, head : {x.head}]
  BY DEF HasFields
<1>2. PICK e : e = [x EXCEPT !.row = r]
  OBVIOUS
<1>3. e \in [pos : {x.pos}, delta : {x.delta}, seqs : {x.seqs}, row : {r},
            used : {x.used}, head : {x.head}]
  BY <1>1, <1>2
<1>4. e = [pos |-> e.pos, delta |-> e.delta, seqs |-> e.seqs, row |-> e.row,
           used |-> e.used, head |-> e.head]
  BY <1>3
<1>5. /\ e.pos = x.pos /\ e.delta = x.delta /\ e.seqs = x.seqs /\ e.row = r
      /\ e.used = x.used /\ e.head = x.head
  BY <1>3
<1> QED BY <1>2, <1>4, <1>5

\* The cells that still move are those planned for the holes of K.
LEMMA MovingIs ==
    ASSUME NEW b, NEW n, Shape(b, n), NEW m, Planned(b, m), NKv = n, NEW K, Copying(b, n, m, K)
    PROVE  /\ K \in SUBSET Holes(b) /\ MovedBy(b, m) \in SUBSET Holes(b)
           /\ \A i : Moving(i) <=> \E h \in K : m[h] = i
<1>1. MovedBy(b, m) \in SUBSET Holes(b)
  BY DEF MovedBy
<1>2. /\ K \in SUBSET Holes(b) /\ ids \in [0 .. n - 1 -> 0 .. n] /\ \A h \in K : ids[m[h]] = h
      /\ \A i \in 0 .. n - 1 :
            (\A h \in K : m[h] # i) => ids[i] = n \/ (ids[i] = i /\ i < b.used)
  BY <1>1 DEF Copying
<1>3. ASSUME NEW h \in K PROVE Moving(m[h])
  <2>1. h \in 0 .. b.used - 1 /\ m[h] \in b.used .. n - 1 /\ b.used \in Nat /\ n \in Nat
    BY <1>2, PlanCells
  <2>2. m[h] \in 0 .. n - 1 /\ h # m[h] /\ h # n
    BY <2>1
  <2> QED BY <2>2, <1>2 DEF Moving
<1>4. ASSUME NEW i, Moving(i) PROVE \E h \in K : m[h] = i
  BY <1>2, <1>4 DEF Moving
<1> QED BY <1>1, <1>2, <1>3, <1>4

\* The run from a on: its cells are planned for holes of K that follow g.
LEMMA RunIs ==
    ASSUME NEW b, NEW n, Shape(b, n), NEW m, Planned(b, m), NKv = n, NEW K, Copying(b, n, m, K),
           NEW g \in K, NEW j \in RunFrom(m[g])
    PROVE  /\ ids[j] \in K /\ m[ids[j]] = j /\ ids[j] = g + (j - m[g])
           /\ j \in m[g] .. n - 1 /\ m[g] \in Int
           /\ \A l \in m[g] .. j : l \in RunFrom(m[g])
<1>1. /\ K \in SUBSET Holes(b) /\ ids \in [0 .. n - 1 -> 0 .. n] /\ \A h \in K : ids[m[h]] = h
      /\ \A i \in 0 .. n - 1 :
            (\A h \in K : m[h] # i) => ids[i] = n \/ (ids[i] = i /\ i < b.used)
  BY MovingIs DEF Copying
<1>2. PICK a : a = m[g]
  OBVIOUS
<1>3. g \in 0 .. b.used - 1 /\ a \in b.used .. n - 1 /\ b.used \in Nat /\ n \in Nat /\ ids[a] = g
  BY <1>1, <1>2, PlanCells
<1>4. j \in a .. n - 1 /\ \A l \in a .. j : ids[l] = g + (l - a)
  BY <1>2, <1>3 DEF RunFrom
<1>5. ids[j] = g + (j - a) /\ j \in 0 .. n - 1
  BY <1>3, <1>4
<1>6. \E h \in K : m[h] = j
  <2> SUFFICES ASSUME \A h \in K : m[h] # j PROVE FALSE
    OBVIOUS
  <2>1. ids[j] = n \/ (ids[j] = j /\ j < b.used)
    BY <1>1, <1>5
  <2> QED BY <2>1, <1>3, <1>4, <1>5
<1>7. ids[j] \in K /\ m[ids[j]] = j
  BY <1>1, <1>6
<1>8. ASSUME NEW l \in a .. j PROVE l \in RunFrom(a)
  <2>1. l \in a .. n - 1 /\ \A i \in a .. l : i \in a .. j
    BY <1>3, <1>4
  <2> QED BY <2>1, <1>3, <1>4 DEF RunFrom
<1> QED BY <1>2, <1>3, <1>4, <1>5, <1>7, <1>8

RowsCopied(run) ==
    [r \in Cells |-> IF \E j \in run : ids[j] = r
                     THEN c.row[CHOOSE j \in run : ids[j] = r] ELSE c.row[r]]

\* The rows after the copy of the run: those of the holes it fills follow.
LEMMA RowsNext ==
    ASSUME NEW b, NEW n, Shape(b, n), NEW m, Planned(b, m), NKv = n, NEW K, Copying(b, n, m, K),
           NEW g \in K, NEW run, run = RunFrom(m[g]), NEW Q, Q = {h \in K : m[h] \in run},
           NEW D, D = MovedBy(b, m) \ K
    PROVE  RowsCopied(run) = RowsOf(b, m, D \cup Q)
<1>1. /\ K \in SUBSET Holes(b) /\ D \in SUBSET Holes(b)
      /\ \A j \in run : ids[j] \in K /\ m[ids[j]] = j
      /\ \A h \in K : ids[m[h]] = h
  BY MovingIs, RunIs DEF Copying
<1>2. \A r \in Cells : c.row[r] = IF r \in D THEN b.row[m[r]] ELSE b.row[r]
  BY DEF Copying, Filled, RowsOf
<1>3. \A r : (\E j \in run : ids[j] = r) <=> r \in Q
  BY <1>1
<1>4. \A r \in Q : (CHOOSE j \in run : ids[j] = r) = m[r]
  BY <1>1
<1>5. ASSUME NEW r \in Q PROVE c.row[m[r]] = b.row[m[r]]
  <2>1. m[r] \in Cells /\ m[r] \notin D
    BY <1>1, PlanCells
  <2> QED BY <2>1, <1>2
<1>6. ASSUME NEW r \in Cells
      PROVE  (IF \E j \in run : ids[j] = r THEN c.row[CHOOSE j \in run : ids[j] = r] ELSE c.row[r])
               = IF r \in D \cup Q THEN b.row[m[r]] ELSE b.row[r]
  <2>1. CASE r \in Q
    BY <2>1, <1>3, <1>4, <1>5
  <2>2. CASE r \notin Q
    BY <2>2, <1>2, <1>3
  <2> QED BY <2>1, <2>2
<1> QED BY <1>6, Zenon DEF RowsCopied, RowsOf

\* The copy of a run takes one beginning of a run, the first, off the rest.
LEMMA BeginsNext ==
    ASSUME NEW b, NEW n, Shape(b, n), NEW m, Planned(b, m), NKv = n, NEW K, Copying(b, n, m, K),
           NEW g \in K, \A i : Moving(i) => m[g] <= i,
           NEW run, run = RunFrom(m[g]), NEW L, L = {h \in K : m[h] \notin run}
    PROVE  /\ Begins(b, m, L) = Begins(b, m, K) \ {g} /\ g \in Begins(b, m, K) /\ m[g] \in run
           /\ \A h \in L : ~StartsRun(b, m, h) => h - 1 \in L
<1>1. /\ K \in SUBSET Holes(b) /\ \A h \in K : ids[m[h]] = h /\ Moving(m[h])
      /\ \A h \in K : ~StartsRun(b, m, h) => h - 1 \in K
  BY MovingIs DEF Copying
<1>2. PICK a : a = m[g]
  OBVIOUS
<1>3. /\ g \in 0 .. b.used - 1 /\ a \in b.used .. n - 1 /\ b.used \in Nat /\ n \in Nat /\ ids[a] = g
      /\ \A h \in K : h \in 0 .. b.used - 1 /\ m[h] \in b.used .. n - 1
  BY <1>1, <1>2, PlanCells
<1>4. run = {j \in a .. n - 1 : \A l \in a .. j : ids[l] = g + (l - a)}
  BY <1>2, <1>3 DEF RunFrom
<1>5. a \in run
  <2>1. \A l \in a .. a : ids[l] = g + (l - a)
    BY <1>3
  <2>2. a \in a .. n - 1
    BY <1>3
  <2> QED BY <2>1, <2>2, <1>4
<1>6. StartsRun(b, m, g)
  <2> SUFFICES ASSUME ~StartsRun(b, m, g) PROVE FALSE
    OBVIOUS
  <2>1. g - 1 \in K /\ m[g - 1] + 1 = a
    BY <1>1, <1>2 DEF StartsRun
  <2>2. a <= m[g - 1] /\ m[g - 1] \in Int
    BY <2>1, <1>1, <1>2, <1>3
  <2> QED BY <2>1, <2>2, <1>3
<1>7. ASSUME NEW h \in K, m[h] \in run, h # g PROVE ~StartsRun(b, m, h)
  <2>1. PICK j : j = m[h]
    OBVIOUS
  <2>2. ids[j] = h /\ h = g + (j - a) /\ j \in a .. n - 1 /\ \A l \in a .. j : l \in run
    BY <2>1, <1>1, <1>2, <1>7, RunIs
  <2>3. j - 1 \in a .. j
    BY <2>2, <1>3, <1>7
  <2>4. j - 1 \in run
    BY <2>2, <2>3
  <2>5. PICK l \in run : l = j - 1
    BY <2>4
  <2>6. ids[l] \in K /\ m[ids[l]] = l /\ ids[l] = g + (l - a)
    BY <2>5, <1>2, RunIs
  <2>7. ids[l] = h - 1 /\ l + 1 = j
    BY <2>2, <2>5, <2>6, <1>3
  <2>8. h - 1 \in Holes(b) /\ m[h - 1] + 1 = m[h]
    BY <2>1, <2>6, <2>7, <1>1
  <2> QED BY <2>8 DEF StartsRun
<1>8. ASSUME NEW h \in L, ~StartsRun(b, m, h) PROVE h - 1 \in L
  <2>1. h \in K /\ h - 1 \in K /\ m[h - 1] + 1 = m[h] /\ m[h] \notin run
    BY <1>1, <1>8 DEF StartsRun
  <2> SUFFICES ASSUME m[h - 1] \in run PROVE FALSE
    BY <2>1
  <2>2. PICK j \in run : j = m[h - 1]
    OBVIOUS
  <2>3. /\ j \in a .. n - 1 /\ \A l \in a .. j : ids[l] = g + (l - a)
    BY <1>4
  <2>4. m[h] = j + 1 /\ m[h] \in b.used .. n - 1 /\ ids[m[h]] = h /\ ids[j] = h - 1 /\ h \in Int
    BY <2>1, <2>2, <1>1, <1>3
  <2>5. h - 1 = g + (j - a)
    BY <2>3, <2>4, <1>3
  <2>6. \A l \in a .. j + 1 : l \in a .. j \/ l = j + 1
    BY <2>3, <1>3
  <2>7. ids[j + 1] = g + (j + 1 - a)
    BY <2>3, <2>4, <2>5, <1>3
  <2>8. j + 1 \in a .. n - 1 /\ \A l \in a .. j + 1 : ids[l] = g + (l - a)
    BY <2>3, <2>4, <2>6, <2>7, <1>3
  <2>9. m[h] \in run
    BY <2>4, <2>8, <1>4
  <2> QED BY <2>1, <2>9
<1>9. ASSUME NEW h \in K PROVE (h \in L /\ StartsRun(b, m, h)) <=> (StartsRun(b, m, h) /\ h # g)
  BY <1>2, <1>5, <1>7
<1>10. Begins(b, m, L) = Begins(b, m, K) \ {g}
  <2>1. L \subseteq K
    OBVIOUS
  <2> QED BY <2>1, <1>9 DEF Begins
<1> QED BY <1>2, <1>5, <1>6, <1>8, <1>10 DEF Begins

LEMMA CopyRunInv ==
    ASSUME NEW b, NEW n, Shape(b, n), NEW m, Planned(b, m), before = b, NKv = n,
           NEW K \in SUBSET Holes(b), Copying(b, n, m, K), CopyRun
    PROVE  \E L \in SUBSET Holes(b) : Copying(b, n, m, L)'
<1>1. /\ MovedBy(b, m) \in SUBSET Holes(b) /\ \A i : Moving(i) <=> \E h \in K : m[h] = i
      /\ \A h \in K : m[h] \in Cells
  BY MovingIs, PlanCells
<1> DEFINE S == {j \in Cells : Moving(j)}
<1>2. S # {} /\ S \subseteq 0 .. Size
  BY LayoutAssumption DEF CopyRun, Cells
<1>3. Least(S) \in S /\ \A y \in S : Least(S) <= y
  <2> HIDE DEF S
  <2> QED BY <1>2, LeastIsLeast, LayoutAssumption
<1>4. PICK g \in K : m[g] = Least(S)
  BY <1>1, <1>3
<1>5. \A i : Moving(i) => m[g] <= i
  BY <1>1, <1>3, <1>4
<1>6. PICK run : run = RunFrom(m[g])
  OBVIOUS
<1>7. PICK moved : moved = RowsCopied(run)
  OBVIOUS
<1>8. /\ c' = [c EXCEPT !.row = moved]
      /\ ids' = [j \in DOMAIN ids |-> IF j \in run THEN n ELSE ids[j]]
      /\ copies' = copies + 1 /\ UNCHANGED <<before, i0, moves, pc>>
  BY <1>4, <1>6, <1>7 DEF CopyRun, RowsCopied
<1> HIDE DEF S
<1>9. PICK Q : Q = {h \in K : m[h] \in run}
  OBVIOUS
<1>10. PICK L : L = {h \in K : m[h] \notin run}
  OBVIOUS
<1>11. PICK D : D = MovedBy(b, m) \ K
  OBVIOUS
<1>12. /\ Begins(b, m, L) = Begins(b, m, K) \ {g} /\ g \in Begins(b, m, K)
       /\ \A h \in L : ~StartsRun(b, m, h) => h - 1 \in L
  BY <1>5, <1>6, <1>10, BeginsNext
<1>13. moved = RowsOf(b, m, D \cup Q)
  BY <1>6, <1>7, <1>9, <1>11, RowsNext
<1>14. /\ K \subseteq MovedBy(b, m) /\ pc = "graph" /\ moves <= MaxMoves
       /\ copies \in Nat /\ copies + Cardinality(Begins(b, m, K)) = moves
       /\ ids \in [0 .. n - 1 -> 0 .. n] /\ \A h \in K : ids[m[h]] = h
       /\ \A i \in 0 .. n - 1 :
             (\A h \in K : m[h] # i) => ids[i] = n \/ (ids[i] = i /\ i < b.used)
       /\ c = Filled(b, m, MovedBy(b, m), D)
  BY <1>11 DEF Copying
<1>15. D \cup Q = MovedBy(b, m) \ L /\ L \subseteq MovedBy(b, m) /\ L \in SUBSET Holes(b)
  BY <1>9, <1>10, <1>11, <1>14
<1>16. c' = Filled(b, m, MovedBy(b, m), MovedBy(b, m) \ L)
  <2>1. PICK x : x = c
    OBVIOUS
  <2>2. PICK M : M = MovedBy(b, m)
    OBVIOUS
  <2>3. HasFields(x)
    BY <2>1, <1>14 DEF Filled, HasFields
  <2>4. c' = [pos |-> x.pos, delta |-> x.delta, seqs |-> x.seqs, row |-> moved,
              used |-> x.used, head |-> x.head]
    BY <2>1, <2>3, <1>8, RowsIs
  <2>5. /\ x.pos = FieldMoved(b.pos, m, M, -1) /\ x.delta = FieldMoved(b.delta, m, M, 0)
        /\ x.seqs = FieldMoved(b.seqs, m, M, {}) /\ x.used = b.used
        /\ x.head = IF M = {} THEN b.head ELSE b.used
    BY <2>1, <2>2, <1>14 DEF Filled
  <2>6. Filled(b, m, M, D \cup Q)
          = [pos |-> x.pos, delta |-> x.delta, seqs |-> x.seqs, row |-> moved,
             used |-> x.used, head |-> x.head]
    BY <2>5, <1>13, Zenon DEF Filled
  <2> QED BY <2>2, <2>4, <2>6, <1>15
<1>17. copies' \in Nat /\ copies' + Cardinality(Begins(b, m, L)) = moves'
  <2>1. IsFiniteSet(Begins(b, m, K)) /\ Cardinality(Begins(b, m, K)) \in Nat
    BY BeginsFinite
  <2>2. Cardinality(Begins(b, m, K) \ {g}) = Cardinality(Begins(b, m, K)) - 1
    BY <2>1, <1>12, FS_RemoveElement
  <2> QED BY <2>1, <2>2, <1>8, <1>12, <1>14
<1>18. n \in Nat /\ ids' \in [0 .. n - 1 -> 0 .. n]
  <2>1. n \in Nat
    BY PlanCells
  <2>2. n \in 0 .. n
    BY <2>1
  <2> QED BY <2>1, <2>2, <1>8, <1>14
<1>19. ASSUME NEW i \in 0 .. n - 1 PROVE ids'[i] = IF i \in run THEN n ELSE ids[i]
  BY <1>8, <1>14
<1>20. \A h \in L : ids'[m[h]] = h
  <2> SUFFICES ASSUME NEW h \in L PROVE ids'[m[h]] = h
    OBVIOUS
  <2>1. h \in K /\ m[h] \notin run /\ h \in Holes(b)
    BY <1>10
  <2>2. m[h] \in b.used .. n - 1 /\ b.used \in Nat
    BY <2>1, PlanCells
  <2>3. m[h] \in 0 .. n - 1
    BY <2>2, <1>18
  <2> QED BY <2>1, <2>3, <1>14, <1>19
<1>21. ASSUME NEW i \in 0 .. n - 1, \A h \in L : m[h] # i
       PROVE  ids'[i] = n \/ (ids'[i] = i /\ i < b.used)
  <2>1. CASE i \in run
    BY <2>1, <1>19
  <2>2. CASE i \notin run
    <3>1. \A h \in K : m[h] # i
      BY <2>2, <1>10, <1>21
    <3> QED BY <2>2, <3>1, <1>14, <1>19
  <2> QED BY <2>1, <2>2
<1>22. Copying(b, n, m, L)'
  BY <1>8, <1>12, <1>14, <1>15, <1>16, <1>17, <1>18, <1>20, <1>21 DEF Copying
<1> QED BY <1>15, <1>22

LEMMA EndGraphInv ==
    ASSUME NEW b, NEW n, Shape(b, n), NEW m, Planned(b, m), before = b, NKv = n,
           NEW K \in SUBSET Holes(b), Copying(b, n, m, K), EndGraph
    PROVE  Ended(b, m)'
<1>1. K = {}
  <2>1. ASSUME NEW h \in K PROVE FALSE
    <3>1. Moving(m[h]) /\ m[h] \in Cells
      BY MovingIs, PlanCells
    <3> QED BY <3>1 DEF EndGraph
  <2> QED BY <2>1
<1>2. Begins(b, m, K) = {} /\ Cardinality(Begins(b, m, K)) = 0
  <2>1. Begins(b, m, K) = {}
    BY <1>1 DEF Begins
  <2> QED BY <2>1, FS_EmptySet
<1>3. copies = moves /\ copies \in Nat /\ moves <= MaxMoves
  BY <1>2 DEF Copying
<1>4. MovedBy(b, m) \ K = MovedBy(b, m)
  BY <1>1
<1>5. c = Filled(b, m, MovedBy(b, m), MovedBy(b, m))
  BY <1>4 DEF Copying
<1>6. c = Defragged(b, m)
  BY <1>5, DefraggedIs
<1> QED BY <1>3, <1>6 DEF Ended, EndGraph

-----------------------------------------------------------------------------
(* From every layout, and through every step.                              *)

LEMMA InitDefragInv == ASSUME DefragInit PROVE DefragInv
<1>1. PICK live \in SUBSET Cells : before = LaidOut(live)
  BY DEF DefragInit
<1>2. PICK b : b = before
  OBVIOUS
<1>3. PICK n : n = NKv
  OBVIOUS
<1>4. Shape(b, n) /\ Cardinality(Holes(b)) = Cardinality(Movers(b))
  BY <1>1, <1>2, <1>3, ShapeIs
<1>5. PICK m \in [Holes(b) -> Movers(b)] : Plan(b, m)
  <2>1. Holes(b) \in SUBSET Cells /\ Movers(b) \in SUBSET Cells
    BY DEF Holes, Movers
  <2> QED BY <2>1, <1>4, PlanExists
<1>6. Planned(b, m)
  BY <1>4, <1>5, PlanIs
<1>7. b.used \in 0 .. Size /\ n \in 0 .. Size /\ HasFields(b) /\ b.row = [i \in Cells |-> i]
  BY <1>4 DEF Shape, HasFields
<1>8. Below(b, 0) = {}
  <2>1. \A h \in Holes(b) : ~ h < 0
    BY <1>4, <1>6, PlanCells
  <2> QED BY <2>1 DEF Below
<1>9. Begins(b, m, {}) = {} /\ Cardinality(Begins(b, m, {})) = 0
  <2>1. Begins(b, m, {}) = {}
    BY DEF Begins
  <2> QED BY <2>1, FS_EmptySet
<1>10. b = Filled(b, m, {}, {})
  <2>1. LaidOut(live) = b
    BY <1>1, <1>2
  <2>2. /\ b.pos = [i \in Cells |-> b.pos[i]] /\ b.delta = [i \in Cells |-> b.delta[i]]
        /\ b.seqs = [i \in Cells |-> b.seqs[i]] /\ b.row = [i \in Cells |-> b.row[i]]
    BY <2>1 DEF LaidOut
  <2>3. FieldMoved(b.pos, m, {}, -1) = b.pos
    <3>1. FieldMoved(b.pos, m, {}, -1) = [i \in Cells |-> b.pos[i]]
      BY DEF FieldMoved
    <3> QED BY <3>1, <2>2
  <2>4. FieldMoved(b.delta, m, {}, 0) = b.delta
    <3>1. FieldMoved(b.delta, m, {}, 0) = [i \in Cells |-> b.delta[i]]
      BY DEF FieldMoved
    <3> QED BY <3>1, <2>2
  <2>5. FieldMoved(b.seqs, m, {}, {}) = b.seqs
    <3>1. FieldMoved(b.seqs, m, {}, {}) = [i \in Cells |-> b.seqs[i]]
      BY DEF FieldMoved
    <3> QED BY <3>1, <2>2
  <2>6. RowsOf(b, m, {}) = b.row
    <3>1. RowsOf(b, m, {}) = [i \in Cells |-> b.row[i]]
      BY DEF RowsOf
    <3> QED BY <3>1, <2>2
  <2>7. Filled(b, m, {}, {}) = [pos |-> b.pos, delta |-> b.delta, seqs |-> b.seqs, row |-> b.row,
                                used |-> b.used, head |-> b.head]
    BY <2>3, <2>4, <2>5, <2>6 DEF Filled
  <2> QED BY <2>7, <1>7 DEF HasFields
<1>11. /\ pc = "scan" /\ i0 = 0 /\ moves = 0 /\ copies = 0 /\ c = b
       /\ ids = [i \in 0 .. n - 1 |-> n]
  BY <1>2, <1>3 DEF DefragInit
<1>12. 0 - 1 \notin Holes(b) /\ 0 \in 0 .. b.used /\ 0 < MaxMoves /\ n \in 0 .. n
  BY <1>4, <1>6, <1>7, PlanCells, LayoutAssumption
<1>13. ids \in [0 .. n - 1 -> 0 .. n] /\ \A i \in 0 .. n - 1 : ids[i] = n /\ ~ i < 0
  BY <1>7, <1>11, <1>12, LayoutAssumption
<1>14. Moved(b, n, m, {})
  BY <1>9, <1>10, <1>11, <1>13 DEF Moved
<1>15. Scanning(b, n, m)
  BY <1>8, <1>11, <1>12, <1>14 DEF Scanning
<1> QED BY <1>2, <1>3, <1>4, <1>6, <1>15 DEF DefragInv, DefragState

LEMMA NextDefragInv == ASSUME DefragInv, [DefragNext]_defragvars PROVE DefragInv'
<1>1. PICK b, n, m : before = b /\ NKv = n /\ Shape(b, n) /\ Planned(b, m) /\ DefragState(b, n, m)
  BY DEF DefragInv
<1>2. before' = before
  BY DEF DefragNext, defragvars, KeepCell, FindHole, PassCell, MoveCell, EndScan, CopyRun,
         EndGraph, DefragDone
<1>3. NKv' = NKv
  BY <1>2 DEF NKv
<1> SUFFICES DefragState(b, n, m)'
  BY <1>1, <1>2, <1>3 DEF DefragInv
<1>4. CASE Scanning(b, n, m)
  <2>1. CASE KeepCell
    BY <2>1, <1>1, <1>4, KeepCellInv DEF DefragState
  <2>2. CASE FindHole
    BY <2>2, <1>1, <1>4, FindHoleInv DEF DefragState
  <2>3. CASE EndScan
    BY <2>3, <1>1, <1>4, EndScanInv DEF DefragState
  <2>4. CASE UNCHANGED defragvars
    BY <2>4, <1>4 DEF DefragState, Scanning, Moved, defragvars
  <2>5. pc = "scan"
    BY <1>4 DEF Scanning
  <2> QED BY <2>1, <2>2, <2>3, <2>4, <2>5
          DEF DefragNext, PassCell, MoveCell, CopyRun, EndGraph, DefragDone
<1>5. CASE Filling(b, n, m)
  <2>1. CASE PassCell
    BY <2>1, <1>1, <1>5, PassCellInv DEF DefragState
  <2>2. CASE MoveCell
    BY <2>2, <1>1, <1>5, MoveCellInv DEF DefragState
  <2>3. CASE UNCHANGED defragvars
    BY <2>3, <1>5 DEF DefragState, Filling, Moved, defragvars
  <2>4. pc = "fill"
    BY <1>5 DEF Filling
  <2> QED BY <2>1, <2>2, <2>3, <2>4
          DEF DefragNext, KeepCell, FindHole, EndScan, CopyRun, EndGraph, DefragDone
<1>6. ASSUME NEW K \in SUBSET Holes(b), Copying(b, n, m, K) PROVE DefragState(b, n, m)'
  <2>1. CASE CopyRun
    BY <2>1, <1>1, <1>6, CopyRunInv DEF DefragState
  <2>2. CASE EndGraph
    BY <2>2, <1>1, <1>6, EndGraphInv DEF DefragState
  <2>3. CASE UNCHANGED defragvars
    <3>1. Copying(b, n, m, K)'
      BY <2>3, <1>6 DEF Copying, defragvars
    <3> QED BY <3>1 DEF DefragState
  <2>4. pc = "graph"
    BY <1>6 DEF Copying
  <2> QED BY <2>1, <2>2, <2>3, <2>4
          DEF DefragNext, KeepCell, FindHole, PassCell, MoveCell, EndScan, DefragDone
<1>7. CASE Ended(b, m)
  <2>1. pc = "done"
    BY <1>7 DEF Ended
  <2>2. UNCHANGED defragvars
    BY <2>1 DEF DefragNext, KeepCell, FindHole, PassCell, MoveCell, EndScan, CopyRun,
                EndGraph, DefragDone
  <2> QED BY <2>2, <1>7 DEF DefragState, Ended, defragvars
<1> QED BY <1>1, <1>4, <1>5, <1>6, <1>7 DEF DefragState

LEMMA DefragInvFollowsPlan == ASSUME DefragInv PROVE DefragFollowsPlan
<1>1. PICK b, n, m : before = b /\ NKv = n /\ Shape(b, n) /\ Planned(b, m) /\ DefragState(b, n, m)
  BY DEF DefragInv
<1>2. NeverAborts
  BY <1>1 DEF DefragState, Scanning, Filling, Copying, Ended, NeverAborts
<1>3. EndsAsPlanned
  BY <1>1 DEF DefragState, Scanning, Filling, Copying, Ended, EndsAsPlanned, Planned
<1>4. GraphFits
  <2>1. CASE Scanning(b, n, m) \/ Filling(b, n, m)
    BY <2>1, LayoutAssumption DEF Scanning, Filling, Moved, GraphFits
  <2>2. ASSUME NEW K \in SUBSET Holes(b), Copying(b, n, m, K) PROVE GraphFits
    <3>1. Cardinality(Begins(b, m, K)) \in Nat
      BY <1>1, BeginsFinite
    <3> QED BY <3>1, <2>2, LayoutAssumption DEF Copying, GraphFits
  <2>3. CASE Ended(b, m)
    BY <2>3, LayoutAssumption DEF Ended, GraphFits
  <2> QED BY <2>1, <2>2, <2>3, <1>1 DEF DefragState
<1> QED BY <1>2, <1>3, <1>4 DEF DefragFollowsPlan

\* From every layout of every cache, the loops of the defragmentation never
\* run into their assertion, end with cells, rows and head as in the plan,
\* and leave a graph of no more copies than it was sized for.
THEOREM DefragLoopFollowsPlan == DefragSpec => []DefragFollowsPlan
<1>1. DefragInit => DefragInv
  BY InitDefragInv
<1>2. DefragInv /\ [DefragNext]_defragvars => DefragInv'
  BY NextDefragInv
<1>3. DefragInv => DefragFollowsPlan
  BY DefragInvFollowsPlan
<1> QED BY <1>1, <1>2, <1>3, PTL DEF DefragSpec

-----------------------------------------------------------------------------
(***************************************************************************)
(* The cache of a recurrent model.                                         *)
(***************************************************************************)

\* Tokens of which every sequence has a cell.
Held == [tok : Tokens, seqs : Seq(Seqs)]

Origin == [from : Seqs, toks : Seq(Tokens)]

LEMMA MembersHeld ==
    ASSUME NEW t \in Held
    PROVE  /\ Members(t) \subseteq Seqs
           /\ Members(t) # {} => t.seqs[1] \in Members(t)
<1>1. t.seqs \in Seq(Seqs)
  BY DEF Held
<1>2. \A l \in DOMAIN t.seqs : t.seqs[l] \in Seqs /\ 1 \in DOMAIN t.seqs
  BY <1>1
<1> QED BY <1>2 DEF Members

LEMMA JoinedIs ==
    ASSUME NEW g \in [Seqs -> Origin], NEW t \in Held
    PROVE  /\ Joined(g, t) \in [Seqs -> Origin]
           /\ \A s \in Members(t) : /\ Joined(g, t)[s].from = g[t.seqs[1]].from
                                    /\ Joined(g, t)[s].toks # <<>>
           /\ \A s \in Seqs \ Members(t) : Joined(g, t)[s] = g[s]
<1>1. ASSUME NEW s \in Seqs, s \in Members(t)
      PROVE  /\ g[t.seqs[1]] \in Origin
             /\ Append(g[t.seqs[1]].toks, t.tok) \in Seq(Tokens)
             /\ Append(g[t.seqs[1]].toks, t.tok) # <<>>
  <2>1. t.seqs[1] \in Seqs
    BY <1>1, MembersHeld
  <2>2. g[t.seqs[1]] \in Origin
    BY <2>1
  <2>3. PICK q \in Seq(Tokens) : q = g[t.seqs[1]].toks
    BY <2>2 DEF Origin
  <2>4. t.tok \in Tokens
    BY DEF Held
  <2>5. Append(q, t.tok) \in Seq(Tokens) /\ Append(q, t.tok) # <<>>
    BY <2>3, <2>4, AppendProperties
  <2> QED BY <2>2, <2>3, <2>5
<1>2. \A s \in Seqs : s \in Members(t) =>
         [from |-> g[t.seqs[1]].from, toks |-> Append(g[t.seqs[1]].toks, t.tok)] \in Origin
  BY <1>1 DEF Origin
<1>3. Joined(g, t) \in [Seqs -> Origin]
  BY <1>2 DEF Joined
<1>4. Members(t) \subseteq Seqs
  BY MembersHeld
<1> QED BY <1>1, <1>3, <1>4 DEF Joined

\* The function Trace is defined with, over the first j tokens of a batch.
Traces(b, g, j) ==
    /\ g = [i \in 0 .. j |-> g[i]]
    /\ g[0] = Apart
    /\ \A i \in 1 .. j : g[i] = Joined(g[i-1], b[i])

\* It exists: a shortest front of the batch without one could be continued
\* from the front before.
LEMMA TracesExist ==
    ASSUME NEW b, NEW n \in Nat
    PROVE  \E g : Traces(b, g, n)
<1> DEFINE Bad == {j \in 0 .. n : ~ \E g : Traces(b, g, j)}
<1>1. SUFFICES ASSUME Bad # {} PROVE FALSE
  <2>1. n \in 0 .. n
    OBVIOUS
  <2> QED BY <2>1
<1>2. PICK m : m \in Bad /\ \A j \in Bad : m <= j
  <2>1. Bad \subseteq 0 .. n
    OBVIOUS
  <2> HIDE DEF Bad
  <2> QED BY <1>1, <2>1, LeastIsLeast
<1>3. m \in 0 .. n /\ ~ \E g : Traces(b, g, m)
  BY <1>2
<1>4. CASE m = 0
  <2>1. PICK g : g = [i \in 0 .. 0 |-> Apart]
    OBVIOUS
  <2>2. Traces(b, g, 0)
    BY <2>1 DEF Traces
  <2> QED BY <1>3, <1>4, <2>2
<1>5. CASE m # 0
  <2>1. m - 1 \in 0 .. n /\ m \in 1 .. n /\ m \in Nat /\ ~ m <= m - 1
    BY <1>3, <1>5
  <2>2. m - 1 \notin Bad
    BY <1>2, <2>1
  <2>3. PICK f : Traces(b, f, m - 1)
    BY <2>1, <2>2
  <2>4. PICK g : g = [i \in 0 .. m |-> IF i = m THEN Joined(f[m - 1], b[m]) ELSE f[i]]
    OBVIOUS
  <2>5. g[m] = Joined(f[m - 1], b[m]) /\ \A i \in 0 .. m - 1 : g[i] = f[i]
    BY <2>1, <2>4
  <2>6. g = [i \in 0 .. m |-> g[i]]
    BY <2>4
  <2>7. g[0] = Apart
    BY <2>1, <2>3, <2>5 DEF Traces
  <2>8. ASSUME NEW i \in 1 .. m PROVE g[i] = Joined(g[i - 1], b[i])
    <3>1. i - 1 \in 0 .. m - 1 /\ (i = m \/ (i \in 1 .. m - 1 /\ i \in 0 .. m - 1))
      BY <2>1
    <3>2. CASE i = m
      BY <3>1, <3>2, <2>5
    <3>3. CASE i # m
      BY <3>1, <3>3, <2>3, <2>5 DEF Traces
    <3> QED BY <3>2, <3>3
  <2>9. Traces(b, g, m)
    BY <2>6, <2>7, <2>8 DEF Traces
  <2> QED BY <1>3, <2>9
<1> QED BY <1>4, <1>5

LEMMA TraceIs ==
    ASSUME NEW b, Len(b) \in Nat
    PROVE  \E g : Traces(b, g, Len(b)) /\ Trace(b) = g[Len(b)]
<1> DEFINE F(g) == [j \in 0 .. Len(b) |-> IF j = 0 THEN Apart ELSE Joined(g[j-1], b[j])]
           G == CHOOSE g : g = F(g)
<1>1. PICK f : Traces(b, f, Len(b))
  BY TracesExist
<1>2. f = F(f)
  <2>1. \A j \in 0 .. Len(b) : j = 0 \/ j \in 1 .. Len(b)
    OBVIOUS
  <2>2. \A j \in 0 .. Len(b) : f[j] = IF j = 0 THEN Apart ELSE Joined(f[j-1], b[j])
    BY <1>1, <2>1 DEF Traces
  <2> QED BY <1>1, <2>2 DEF Traces
<1>3. G = F(G)
  BY <1>2
<1>4. Trace(b) = G[Len(b)]
  BY DEF Trace
<1>5. Traces(b, G, Len(b))
  <2> HIDE DEF G
  <2>1. /\ \A j \in 1 .. Len(b) : j \in 0 .. Len(b) /\ j # 0
        /\ 0 \in 0 .. Len(b)
    OBVIOUS
  <2>2. G[0] = Apart /\ \A j \in 1 .. Len(b) : G[j] = Joined(G[j-1], b[j])
    BY <1>3, <2>1
  <2>3. G = [j \in 0 .. Len(b) |-> G[j]]
    BY <1>3
  <2> QED BY <2>2, <2>3 DEF Traces
<1> QED BY <1>4, <1>5

\* After j tokens, sequences out of the batch are as they were, those of the
\* batch continue one of the batch, and those of a token by a token at least.
Continues(b, g, j) ==
    /\ g[j] \in [Seqs -> Origin]
    /\ \A s \in Seqs \ SeqsOf(b) : g[j][s].from = s /\ g[j][s].toks = <<>>
    /\ \A s \in SeqsOf(b) : g[j][s].from \in SeqsOf(b)
    /\ \A i \in 1 .. j : \A s \in Members(b[i]) : g[j][s].toks # <<>>

LEMMA TraceContinues ==
    ASSUME NEW b \in Seq(Held), NEW g, Traces(b, g, Len(b)), NEW n \in 0 .. Len(b)
    PROVE  Continues(b, g, n)
<1> DEFINE Bad == {j \in 0 .. Len(b) : ~Continues(b, g, j)}
<1>1. SUFFICES ASSUME Bad # {} PROVE FALSE
  OBVIOUS
<1>2. Len(b) \in Nat /\ DOMAIN b = 1 .. Len(b) /\ \A i \in 1 .. Len(b) : b[i] \in Held
  OBVIOUS
<1>3. PICK m : m \in Bad /\ \A j \in Bad : m <= j
  <2>1. Bad \subseteq 0 .. Len(b)
    OBVIOUS
  <2> HIDE DEF Bad
  <2> QED BY <1>1, <1>2, <2>1, LeastIsLeast
<1>4. m \in 0 .. Len(b) /\ ~Continues(b, g, m)
  BY <1>3
<1>5. \A i \in 1 .. Len(b) : Members(b[i]) \subseteq SeqsOf(b) /\ Members(b[i]) \subseteq Seqs
  BY <1>2, MembersHeld DEF SeqsOf
<1>6. SeqsOf(b) \subseteq Seqs
  BY <1>2, <1>5 DEF SeqsOf
<1>7. CASE m = 0
  <2>1. g[0] = Apart
    BY DEF Traces
  <2>2. <<>> \in Seq(Tokens)
    OBVIOUS
  <2>3. Apart \in [Seqs -> Origin] /\ \A s \in Seqs : Apart[s].from = s /\ Apart[s].toks = <<>>
    BY <2>2 DEF Apart, Origin
  <2>4. Continues(b, g, 0)
    BY <1>6, <2>1, <2>3 DEF Continues
  <2> QED BY <1>4, <1>7, <2>4
<1>8. CASE m # 0
  <2>1. m - 1 \in 0 .. Len(b) /\ m \in 1 .. Len(b) /\ m \in Nat /\ ~ m <= m - 1
    BY <1>2, <1>4, <1>8
  <2>2. Continues(b, g, m - 1)
    BY <1>3, <2>1
  <2>3. PICK f : f = g[m - 1]
    OBVIOUS
  <2>4. PICK t : t = b[m]
    OBVIOUS
  <2>5. /\ f \in [Seqs -> Origin]
        /\ \A s \in Seqs \ SeqsOf(b) : f[s].from = s /\ f[s].toks = <<>>
        /\ \A s \in SeqsOf(b) : f[s].from \in SeqsOf(b)
        /\ \A i \in 1 .. m - 1 : \A s \in Members(b[i]) : f[s].toks # <<>>
    BY <2>2, <2>3 DEF Continues
  <2>6. t \in Held /\ Members(t) \subseteq SeqsOf(b) /\ Members(t) \subseteq Seqs
    BY <2>1, <2>4, <1>2, <1>5
  <2>7. g[m] = Joined(f, t)
    BY <2>1, <2>3, <2>4 DEF Traces
  <2>8. /\ g[m] \in [Seqs -> Origin]
        /\ \A s \in Members(t) : g[m][s].from = f[t.seqs[1]].from /\ g[m][s].toks # <<>>
        /\ \A s \in Seqs \ Members(t) : g[m][s] = f[s]
    BY <2>5, <2>6, <2>7, JoinedIs
  <2>9. \A s \in Seqs \ SeqsOf(b) : g[m][s].from = s /\ g[m][s].toks = <<>>
    BY <2>5, <2>6, <2>8
  <2>10. \A s \in SeqsOf(b) : g[m][s].from \in SeqsOf(b)
    <3> SUFFICES ASSUME NEW s \in SeqsOf(b) PROVE g[m][s].from \in SeqsOf(b)
      OBVIOUS
    <3>1. CASE s \in Members(t)
      <4>1. t.seqs[1] \in SeqsOf(b)
        BY <3>1, <2>6, MembersHeld
      <4> QED BY <3>1, <4>1, <2>5, <2>8
    <3>2. CASE s \notin Members(t)
      BY <3>2, <1>6, <2>5, <2>8
    <3> QED BY <3>1, <3>2
  <2>11. ASSUME NEW i \in 1 .. m, NEW s \in Members(b[i]) PROVE g[m][s].toks # <<>>
    <3>1. s \in Seqs
      BY <1>5, <2>1
    <3>2. CASE s \in Members(t)
      BY <3>2, <2>8
    <3>3. CASE s \notin Members(t)
      <4>1. i \in 1 .. m - 1
        BY <3>3, <2>1, <2>4
      <4> QED BY <3>1, <3>3, <4>1, <2>5, <2>8
    <3> QED BY <3>2, <3>3
  <2>12. Continues(b, g, m)
    BY <2>8, <2>9, <2>10, <2>11 DEF Continues
  <2> QED BY <1>4, <2>12
<1> QED BY <1>7, <1>8

\* What a batch leaves of the sequences: those it does not name are as they
\* were, and those it names continue one that it names by a token at least.
LEMMA TraceOfBatch ==
    ASSUME NEW b \in Seq(Held)
    PROVE  /\ Trace(b) \in [Seqs -> Origin]
           /\ SeqsOf(b) \subseteq Seqs
           /\ \A s \in Seqs \ SeqsOf(b) : Trace(b)[s].from = s /\ Trace(b)[s].toks = <<>>
           /\ \A s \in SeqsOf(b) : Trace(b)[s].from \in SeqsOf(b) /\ Trace(b)[s].toks # <<>>
<1>1. Len(b) \in Nat /\ Len(b) \in 0 .. Len(b) /\ DOMAIN b = 1 .. Len(b)
      /\ \A i \in 1 .. Len(b) : b[i] \in Held
  OBVIOUS
<1>2. PICK g : Traces(b, g, Len(b)) /\ Trace(b) = g[Len(b)]
  BY <1>1, TraceIs
<1>3. Continues(b, g, Len(b))
  BY <1>1, <1>2, TraceContinues
<1>4. \A s \in SeqsOf(b) : \E i \in 1 .. Len(b) : s \in Members(b[i])
  BY <1>1 DEF SeqsOf
<1>5. SeqsOf(b) \subseteq Seqs
  BY <1>1, <1>4, MembersHeld
<1> QED BY <1>2, <1>3, <1>4, <1>5 DEF Continues

(***************************************************************************)
(* The calls.                                                              *)
(***************************************************************************)

RTypeOK ==
    /\ pos \in [Seqs -> -1 .. MaxPos] /\ has \in [Seqs -> BOOLEAN]
    /\ src \in [Seqs -> Seqs] /\ do_copy \in BOOLEAN
    /\ rows \in [Seqs -> Seq(Tokens)] /\ hist \in [Seqs -> Seq(Tokens)]

\* A cell that holds its sequence has a position, so a batch that passes over
\* it, and does not clear it, can continue it; and without copies to come
\* every state is where it belongs.
RecurrentInv ==
    /\ RTypeOK
    /\ \A s \in Seqs : has[s] => pos[s] >= 0
    /\ ~do_copy => \A s \in Seqs : src[s] = s
    /\ StatesFollow

\* The states as the next graph finds them.
Current == IF do_copy THEN Updated ELSE rows

LEMMA CurrentIs ==
    ASSUME RecurrentInv
    PROVE  /\ Current \in [Seqs -> Seq(Tokens)]
           /\ \A s \in Seqs : hist[s] = IF has[s] THEN Current[s] ELSE <<>>
<1>1. \A s \in Seqs : src[s] \in Seqs /\ rows[src[s]] \in Seq(Tokens)
  BY DEF RecurrentInv, RTypeOK
<1>2. \A s \in Seqs : Current[s] = rows[src[s]]
  BY <1>1 DEF Current, Updated, RecurrentInv
<1>3. Current \in [Seqs -> Seq(Tokens)]
  BY <1>1 DEF Current, Updated, RecurrentInv, RTypeOK
<1> QED BY <1>2, <1>3 DEF RecurrentInv, StatesFollow, State

\* After an update every state is in its cell.
LEMMA UpdatedFollow ==
    ASSUME RecurrentInv, rows' = Current, Copied, UNCHANGED <<has, hist>>,
           pos' \in [Seqs -> -1 .. MaxPos], \A s \in Seqs : has[s] => pos'[s] >= 0
    PROVE  RecurrentInv'
<1>1. src' \in [Seqs -> Seqs] /\ do_copy' = FALSE /\ \A s \in Seqs : src'[s] = s
  BY DEF Copied
<1>2. RTypeOK'
  BY <1>1, CurrentIs DEF RecurrentInv, RTypeOK
<1>3. StatesFollow'
  BY <1>1, CurrentIs DEF StatesFollow, State
<1> QED BY <1>1, <1>2, <1>3 DEF RecurrentInv

LEMMA PlacedIs ==
    ASSUME RTypeOK, NEW b \in Seq(Held)
    PROVE  /\ Placed(b) \in [Seqs -> Int]
           /\ \A s \in Seqs : Placed(b)[s] >= -1
           /\ \A s \in SeqsOf(b) : Placed(b)[s] >= 0
           /\ \A s \in Seqs \ SeqsOf(b) : Placed(b)[s] = pos[s]
<1>1. \A s \in Seqs : Trace(b)[s].from \in Seqs /\ Trace(b)[s].toks \in Seq(Tokens)
  BY TraceOfBatch DEF Origin
<1>2. \A s \in Seqs : pos[s] \in Int /\ pos[s] >= -1 /\ pos[s] <= MaxPos
  BY RecurrentAssumption DEF RTypeOK
<1>3. \A s \in Seqs : Len(Trace(b)[s].toks) \in Nat
                      /\ (Len(Trace(b)[s].toks) = 0 <=> Trace(b)[s].toks = <<>>)
  BY <1>1, EmptySeq, LenProperties
<1>4. \A s \in Seqs : Placed(b)[s] = pos[Trace(b)[s].from] + Len(Trace(b)[s].toks)
  BY DEF Placed
<1>5. Placed(b) \in [Seqs -> Int]
  BY <1>1, <1>2, <1>3 DEF Placed
<1>6. \A s \in Seqs : Placed(b)[s] >= -1
  BY <1>1, <1>2, <1>3, <1>4
<1>7. ASSUME NEW s \in SeqsOf(b) PROVE Placed(b)[s] >= 0
  <2>1. s \in Seqs /\ Trace(b)[s].toks # <<>>
    BY TraceOfBatch
  <2> QED BY <2>1, <1>1, <1>2, <1>3, <1>4
<1>8. ASSUME NEW s \in Seqs \ SeqsOf(b) PROVE Placed(b)[s] = pos[s]
  <2>1. Trace(b)[s].from = s /\ Trace(b)[s].toks = <<>>
    BY TraceOfBatch
  <2> QED BY <2>1, <1>2, <1>3, <1>4
<1> QED BY <1>5, <1>6, <1>7, <1>8

LEMMA FedIs ==
    ASSUME NEW f \in [Seqs -> Seq(Tokens)], NEW b \in Seq(Held)
    PROVE  /\ Fed(f, b) \in [Seqs -> Seq(Tokens)]
           /\ \A s \in Seqs \ SeqsOf(b) : Fed(f, b)[s] = f[s]
<1>1. \A s \in Seqs : Trace(b)[s].from \in Seqs /\ Trace(b)[s].toks \in Seq(Tokens)
  BY TraceOfBatch DEF Origin
<1>2. \A s \in Seqs : f[Trace(b)[s].from] \o Trace(b)[s].toks \in Seq(Tokens)
  BY <1>1, ConcatProperties
<1>3. \A s \in Seqs \ SeqsOf(b) : f[s] \o <<>> = f[s]
  BY ConcatEmptySeq
<1> QED BY <1>2, <1>3, TraceOfBatch DEF Fed

\* A sequence whose elements are in T.
LEMMA SeqInto ==
    ASSUME NEW S, NEW T, NEW u \in Seq(S), \A i \in 1 .. Len(u) : u[i] \in T
    PROVE  u \in Seq(T)
<1>1. Len(u) \in Nat /\ u = [i \in 1 .. Len(u) |-> u[i]]
  BY LenProperties
<1>2. u \in [1 .. Len(u) -> T]
  BY <1>1
<1> QED BY <1>1, <1>2 DEF Seq

\* A token is of sequences that have a cell, or find_slot refuses it.
LEMMA BatchHeld ==
    ASSUME NEW b \in Batches, SeqsOf(b) \subseteq Seqs
    PROVE  b \in Seq(Held)
<1>1. b \in Seq([tok : Tokens, seqs : Seq(Nat)])
  BY RecurrentAssumption
<1>2. DOMAIN b = 1 .. Len(b) /\ \A j \in 1 .. Len(b) : b[j] \in [tok : Tokens, seqs : Seq(Nat)]
  BY <1>1, LenProperties
<1>3. ASSUME NEW j \in 1 .. Len(b) PROVE b[j] \in Held
  <2>1. b[j].seqs \in Seq(Nat) /\ DOMAIN b[j].seqs = 1 .. Len(b[j].seqs)
    BY <1>2, LenProperties
  <2>2. \A l \in 1 .. Len(b[j].seqs) : b[j].seqs[l] \in Seqs
    BY <1>2, <2>1 DEF SeqsOf, Members
  <2>3. b[j].seqs \in Seq(Seqs)
    BY <2>1, <2>2, SeqInto
  <2> QED BY <1>2, <2>3 DEF Held
<1> QED BY <1>1, <1>3, SeqInto

LEMMA DecodeFollows ==
    ASSUME RecurrentInv, NEW b \in Batches, Decode(b)
    PROVE  RecurrentInv'
<1>1. b \in Seq(Held)
  BY BatchHeld DEF Decode
<1>2. PICK R : R = Current
  OBVIOUS
<1>3. /\ R \in [Seqs -> Seq(Tokens)]
      /\ \A s \in Seqs : hist[s] = IF has[s] THEN R[s] ELSE <<>>
  BY <1>2, CurrentIs
<1>4. PICK M : M = Masked(R, b)
  OBVIOUS
<1>5. /\ M \in [Seqs -> Seq(Tokens)]
      /\ \A s \in Seqs : M[s] = IF s \in Covered(b) /\ ~has[s] THEN <<>> ELSE R[s]
  BY <1>3, <1>4 DEF Masked
<1>6. /\ pos' = Placed(b) /\ rows' = Fed(M, b) /\ hist' = Fed(hist, b)
      /\ has' = [s \in Seqs |-> has[s] \/ (s \in Covered(b) /\ pos'[s] >= 0)]
      /\ \A s \in Seqs : Placed(b)[s] <= MaxPos
      /\ do_copy' = FALSE /\ src' = [s \in Seqs |-> s]
  BY <1>2, <1>4 DEF Decode, Copied, Current
<1>7. hist \in [Seqs -> Seq(Tokens)] /\ has \in [Seqs -> BOOLEAN]
  BY DEF RecurrentInv, RTypeOK
<1>8. SeqsOf(b) \subseteq Covered(b)
  <2>1. \A s \in SeqsOf(b) : s \in Seqs /\ s <= s
    BY <1>1, TraceOfBatch DEF Seqs
  <2> QED BY <2>1 DEF Covered
<1>9. RTypeOK'
  <2>1. pos' \in [Seqs -> -1 .. MaxPos]
    <3>1. \A s \in Seqs : Placed(b)[s] \in -1 .. MaxPos
      BY <1>1, <1>6, PlacedIs, RecurrentAssumption DEF RecurrentInv
    <3> QED BY <3>1, <1>1, <1>6, PlacedIs DEF RecurrentInv
  <2>2. rows' \in [Seqs -> Seq(Tokens)] /\ hist' \in [Seqs -> Seq(Tokens)]
    BY <1>1, <1>5, <1>6, <1>7, FedIs
  <2>3. has' \in [Seqs -> BOOLEAN] /\ src' \in [Seqs -> Seqs]
    BY <1>6, <1>7
  <2> QED BY <2>1, <2>2, <2>3, <1>6 DEF RTypeOK
<1>10. ASSUME NEW s \in Seqs, has'[s] PROVE pos'[s] >= 0
  <2>1. CASE s \in SeqsOf(b)
    BY <2>1, <1>1, <1>6, PlacedIs DEF RecurrentInv
  <2>2. CASE s \notin SeqsOf(b)
    <3>1. pos'[s] = pos[s]
      BY <2>2, <1>1, <1>6, PlacedIs DEF RecurrentInv
    <3>2. has[s] => pos[s] >= 0
      BY DEF RecurrentInv
    <3> QED BY <3>1, <3>2, <1>6, <1>10
  <2> QED BY <2>1, <2>2
<1>11. ASSUME NEW s \in Seqs
       PROVE  hist'[s] = IF has'[s] THEN rows'[s] ELSE <<>>
  <2>1. CASE s \in SeqsOf(b)
    <3>1. has'[s]
      BY <2>1, <1>1, <1>6, <1>8, PlacedIs DEF RecurrentInv
    <3>2. PICK q : q = Trace(b)[s].from
      OBVIOUS
    <3>3. q \in SeqsOf(b) /\ q \in Seqs
      BY <2>1, <3>2, <1>1, TraceOfBatch
    <3>4. M[q] = hist[q]
      BY <3>3, <1>3, <1>5, <1>8
    <3>5. rows'[s] = M[q] \o Trace(b)[s].toks /\ hist'[s] = hist[q] \o Trace(b)[s].toks
      BY <3>2, <1>6 DEF Fed
    <3> QED BY <3>1, <3>4, <3>5
  <2>2. CASE s \notin SeqsOf(b)
    <3>1. rows'[s] = M[s] /\ hist'[s] = hist[s]
      <4>1. Fed(M, b)[s] = M[s]
        BY <2>2, <1>1, <1>5, FedIs
      <4>2. Fed(hist, b)[s] = hist[s]
        BY <2>2, <1>1, <1>7, FedIs
      <4> QED BY <1>6, <4>1, <4>2, Zenon
    <3>2. has'[s] <=> has[s] \/ (s \in Covered(b) /\ pos'[s] >= 0)
      BY <1>6
    <3> QED BY <3>1, <3>2, <1>3, <1>5
  <2> QED BY <2>1, <2>2
<1>12. StatesFollow'
  <2>1. \A s \in Seqs : src'[s] = s
    BY <1>6
  <2> QED BY <2>1, <1>11 DEF StatesFollow, State
<1> QED BY <1>6, <1>9, <1>10, <1>12 DEF RecurrentInv

\* What is left of a batch that is refused is of sequences that have a cell.
LEMMA BegunHeld ==
    ASSUME NEW b \in Batches, ~ SeqsOf(b) \subseteq Seqs
    PROVE  Begun(b) \in Seq(Held)
<1>1. b \in Seq([tok : Tokens, seqs : Seq(Nat)])
  BY RecurrentAssumption
<1>2. /\ Len(b) \in Nat /\ DOMAIN b = 1 .. Len(b)
      /\ \A j \in 1 .. Len(b) : b[j] \in [tok : Tokens, seqs : Seq(Nat)]
  BY <1>1, LenProperties
<1> DEFINE Bads == {j \in 1 .. Len(b) : ~ Members(b[j]) \subseteq Seqs}
           First(j) == /\ ~ Members(b[j]) \subseteq Seqs
                       /\ SeqsOf(SubSeq(b, 1, j - 1)) \subseteq Seqs
<1>3. \E j \in DOMAIN b : First(j)
  <2>1. Bads # {} /\ Bads \subseteq 0 .. Len(b)
    BY <1>2 DEF SeqsOf
  <2>2. PICK j : j \in Bads /\ \A i \in Bads : j <= i
    <3> HIDE DEF Bads
    <3> QED BY <1>2, <2>1, LeastIsLeast
  <2>3. j \in 1 .. Len(b) /\ \A i \in 1 .. j - 1 : i \in 1 .. Len(b) /\ i \notin Bads
    BY <1>2, <2>2
  <2>4. PICK u : u = SubSeq(b, 1, j - 1)
    OBVIOUS
  <2>5. DOMAIN u = 1 .. j - 1 /\ \A i \in 1 .. j - 1 : u[i] = b[i]
    BY <1>1, <2>3, <2>4, SubSeqProperties
  <2>6. SeqsOf(u) \subseteq Seqs
    BY <2>3, <2>5 DEF SeqsOf
  <2> QED BY <1>2, <2>2, <2>3, <2>4, <2>6
<1>4. PICK bad : bad = CHOOSE j \in DOMAIN b : First(j)
  OBVIOUS
<1>5. bad \in 1 .. Len(b) /\ First(bad)
  BY <1>2, <1>3, <1>4
<1>6. PICK t : t = b[bad]
  OBVIOUS
<1>7. /\ t \in [tok : Tokens, seqs : Seq(Nat)]
      /\ t.seqs \in Seq(Nat) /\ Len(t.seqs) \in Nat /\ DOMAIN t.seqs = 1 .. Len(t.seqs)
  BY <1>2, <1>5, <1>6, LenProperties
<1>8. PICK l : l = FirstBad(t)
  OBVIOUS
<1>9. l \in 1 .. Len(t.seqs) /\ \A m \in 1 .. l - 1 : t.seqs[m] \in Seqs
  <2> DEFINE Out == {m \in 1 .. Len(t.seqs) : t.seqs[m] \notin Seqs}
  <2>1. Out # {} /\ Out \subseteq 0 .. Len(t.seqs)
    BY <1>5, <1>6, <1>7 DEF Members
  <2>2. PICK x : x \in Out /\ \A i \in Out : x <= i
    <3> HIDE DEF Out
    <3> QED BY <1>7, <2>1, LeastIsLeast
  <2>3. /\ x \in DOMAIN t.seqs /\ t.seqs[x] \notin Seqs
        /\ \A m \in 1 .. x - 1 : t.seqs[m] \in Seqs
    BY <1>7, <2>2
  <2> QED BY <1>7, <1>8, <2>3 DEF FirstBad
<1>10. PICK cut : cut = [t EXCEPT !.seqs = SubSeq(@, 1, FirstBad(t) - 1)]
  OBVIOUS
<1>11. cut \in Held
  <2>1. PICK u : u = SubSeq(t.seqs, 1, l - 1)
    OBVIOUS
  <2>2. u \in Seq(Nat) /\ Len(u) = l - 1 /\ \A m \in 1 .. l - 1 : u[m] = t.seqs[m]
    BY <1>7, <1>9, <2>1, SubSeqProperties
  <2>3. u \in Seq(Seqs)
    BY <1>9, <2>2, SeqInto
  <2>4. cut = [t EXCEPT !.seqs = u]
    BY <1>8, <1>10, <2>1
  <2> QED BY <1>7, <2>3, <2>4 DEF Held
<1>12. Begun(b) = [j \in 1 .. bad |-> IF j < bad THEN b[j] ELSE cut]
  <2>1. Begun(b) = [j \in 1 .. bad |->
                      IF j < bad THEN b[j]
                      ELSE [b[j] EXCEPT !.seqs = SubSeq(@, 1, FirstBad(b[j]) - 1)]]
    BY <1>4 DEF Begun
  <2>2. \A j \in 1 .. bad : j < bad \/ j = bad
    BY <1>2, <1>5
  <2> QED BY <2>1, <2>2, <1>6, <1>10
<1>13. ASSUME NEW j \in 1 .. bad, j < bad PROVE b[j] \in Held
  <2>1. PICK u : u = SubSeq(b, 1, bad - 1)
    OBVIOUS
  <2>2. j \in 1 .. bad - 1 /\ j \in 1 .. Len(b)
    BY <1>2, <1>5, <1>13
  <2>3. DOMAIN u = 1 .. bad - 1 /\ u[j] = b[j]
    BY <1>1, <1>2, <1>5, <2>1, <2>2, SubSeqProperties
  <2>4. Members(b[j]) \subseteq Seqs
    BY <1>5, <2>1, <2>2, <2>3 DEF SeqsOf
  <2>5. b[j].seqs \in Seq(Nat) /\ DOMAIN b[j].seqs = 1 .. Len(b[j].seqs)
    BY <1>2, <2>2, LenProperties
  <2>6. b[j].seqs \in Seq(Seqs)
    <3>1. \A x \in 1 .. Len(b[j].seqs) : b[j].seqs[x] \in Seqs
      BY <2>4, <2>5 DEF Members
    <3> QED BY <3>1, <2>5, SeqInto
  <2> QED BY <1>2, <2>2, <2>6 DEF Held
<1>14. Begun(b) \in [1 .. bad -> Held] /\ bad \in Nat
  BY <1>2, <1>5, <1>11, <1>12, <1>13
<1> QED BY <1>14

LEMMA DecodeTooBigFollows ==
    ASSUME RecurrentInv, NEW b \in Batches, DecodeTooBig(b)
    PROVE  RecurrentInv'
<1>1. Begun(b) \in Seq(Held)
  BY BegunHeld DEF DecodeTooBig
<1>2. PICK u : u = Begun(b)
  OBVIOUS
<1>3. /\ pos' = Placed(u) /\ rows' = Current /\ Copied /\ UNCHANGED <<has, hist>>
      /\ \A s \in Seqs : Placed(u)[s] <= MaxPos
  BY <1>2 DEF DecodeTooBig, Current
<1>4. /\ Placed(u) \in [Seqs -> Int]
      /\ \A s \in Seqs : Placed(u)[s] >= -1
      /\ \A s \in SeqsOf(u) : Placed(u)[s] >= 0
      /\ \A s \in Seqs \ SeqsOf(u) : Placed(u)[s] = pos[s]
  BY <1>1, <1>2, PlacedIs DEF RecurrentInv
<1>5. pos' \in [Seqs -> -1 .. MaxPos]
  <2>1. \A s \in Seqs : Placed(u)[s] \in -1 .. MaxPos
    BY <1>3, <1>4, RecurrentAssumption
  <2> QED BY <2>1, <1>3, <1>4
<1>6. \A s \in Seqs : has[s] => pos'[s] >= 0
  BY <1>3, <1>4 DEF RecurrentInv
<1> QED BY <1>3, <1>5, <1>6, UpdatedFollow

\* A removal that clears the cell takes all the tokens of the sequence: the
\* part of a state cannot be removed.
LEMMA SeqRmFollows ==
    ASSUME RecurrentInv, NEW s \in Seqs, NEW p0 \in Int, NEW p1 \in Int, SeqRm(s, p0, p1)
    PROVE  RecurrentInv'
<1>1. PICK S : S = IF has[s] /\ From(p0) <= pos[s] /\ pos[s] < To(p1) THEN {s} ELSE {}
  OBVIOUS
<1>2. /\ has' = [q \in Seqs |-> has[q] /\ q \notin S]
      /\ pos' = [q \in Seqs |-> IF q \in S THEN -1 ELSE pos[q]]
      /\ UNCHANGED <<src, do_copy, rows>>
      /\ hist' = [hist EXCEPT ![s] = IF From(p0) = 0 /\ To(p1) > 0 THEN <<>> ELSE @]
      /\ ~Partly(s, p0, p1)
  BY <1>1 DEF SeqRm, Erase
<1>3. RTypeOK
  BY DEF RecurrentInv
<1>4. RTypeOK'
  <2>1. <<>> \in Seq(Tokens)
    OBVIOUS
  <2>2. has' \in [Seqs -> BOOLEAN] /\ hist' \in [Seqs -> Seq(Tokens)]
    BY <2>1, <1>2, <1>3 DEF RTypeOK
  <2>3. pos' \in [Seqs -> -1 .. MaxPos]
    BY <1>2, <1>3, RecurrentAssumption DEF RTypeOK
  <2> QED BY <2>2, <2>3, <1>2, <1>3 DEF RTypeOK
<1>5. \A q \in Seqs : has'[q] => pos'[q] >= 0
  BY <1>2 DEF RecurrentInv
<1>6. ASSUME NEW q \in Seqs PROVE State(q)' = hist'[q]
  <2>1. State(q) = hist[q] /\ src[q] \in Seqs
    BY <1>3 DEF RecurrentInv, StatesFollow, RTypeOK
  <2>2. /\ State(q)' = IF has[q] /\ q \notin S THEN rows[src[q]] ELSE <<>>
        /\ State(q) = IF has[q] THEN rows[src[q]] ELSE <<>>
    BY <1>2 DEF State
  <2>3. CASE q # s
    BY <2>1, <2>2, <2>3, <1>1, <1>2, <1>3 DEF RTypeOK
  <2>4. CASE q = s
    <3>1. hist'[s] = IF From(p0) = 0 /\ To(p1) > 0 THEN <<>> ELSE hist[s]
      BY <1>2, <1>3 DEF RTypeOK
    <3>2. /\ pos[s] \in Int /\ pos[s] <= MaxPos /\ (has[s] => pos[s] >= 0)
          /\ has[s] \in BOOLEAN
      BY <1>3, RecurrentAssumption DEF RTypeOK, RecurrentInv
    <3>3. ~(0 < p0 /\ p0 <= pos[s]) /\ ~(0 < p1 /\ p1 <= pos[s])
      BY <1>2 DEF Partly
    <3>4. CASE ~has[s]
      BY <3>1, <3>4, <2>1, <2>2, <2>4
    <3>5. CASE has[s]
      <4>1. From(p0) <= pos[s] /\ pos[s] < To(p1) <=> From(p0) = 0 /\ To(p1) > 0
        BY <3>2, <3>3, <3>5, RecurrentAssumption DEF From, To
      <4>2. s \in S <=> From(p0) = 0 /\ To(p1) > 0
        BY <3>5, <4>1, <1>1
      <4> QED BY <3>1, <3>5, <4>2, <2>1, <2>2, <2>4
    <3> QED BY <3>4, <3>5
  <2> QED BY <2>3, <2>4
<1>7. ~do_copy' => \A q \in Seqs : src'[q] = q
  BY <1>2 DEF RecurrentInv
<1> QED BY <1>4, <1>5, <1>6, <1>7 DEF RecurrentInv, StatesFollow

\* A sequence is copied together with the place its state comes from; as that
\* place still says whether there is a state, so does the copy.
LEMMA SeqCpFollows ==
    ASSUME RecurrentInv, ~AnyChain, NEW s \in Seqs, NEW d \in Seqs, SeqCp(s, d)
    PROVE  RecurrentInv'
<1>1. PICK o : o = src[s]
  OBVIOUS
<1>2. RTypeOK /\ o \in Seqs
  BY <1>1 DEF RecurrentInv, RTypeOK
<1>3. /\ src' = [src EXCEPT ![d] = o] /\ do_copy' = TRUE
      /\ has' = [has EXCEPT ![d] = has[o]] /\ pos' = [pos EXCEPT ![d] = pos[o]]
      /\ hist' = [hist EXCEPT ![d] = hist[s]] /\ rows' = rows
      /\ has[o] = has[s]
  BY <1>1 DEF SeqCp, Source, Linked
<1>4. RTypeOK'
  BY <1>2, <1>3 DEF RTypeOK
<1>5. ASSUME NEW q \in Seqs PROVE has'[q] => pos'[q] >= 0
  BY <1>2, <1>3 DEF RTypeOK, RecurrentInv
<1>6. ASSUME NEW q \in Seqs PROVE State(q)' = hist'[q]
  <2>1. State(q) = hist[q] /\ State(s) = hist[s]
    BY DEF RecurrentInv, StatesFollow
  <2>2. State(q)' = IF has'[q] THEN rows[src'[q]] ELSE <<>>
    BY <1>3 DEF State
  <2>3. CASE q = d
    BY <2>1, <2>2, <2>3, <1>1, <1>2, <1>3 DEF State, RTypeOK
  <2>4. CASE q # d
    BY <2>1, <2>2, <2>4, <1>2, <1>3 DEF State, RTypeOK
  <2> QED BY <2>3, <2>4
<1> QED BY <1>3, <1>4, <1>5, <1>6 DEF RecurrentInv, StatesFollow

\* Cells are cleared for good, with their sequences.
LEMMA EraseFollows ==
    ASSUME RecurrentInv, NEW S, Erase(S),
           hist' = [q \in Seqs |-> IF has[q] /\ q \notin S THEN hist[q] ELSE <<>>]
    PROVE  RecurrentInv'
<1>1. /\ has' = [q \in Seqs |-> has[q] /\ q \notin S]
      /\ pos' = [q \in Seqs |-> IF q \in S THEN -1 ELSE pos[q]]
      /\ UNCHANGED <<src, do_copy, rows>>
  BY DEF Erase
<1>2. RTypeOK
  BY DEF RecurrentInv
<1>3. RTypeOK'
  <2>1. <<>> \in Seq(Tokens)
    OBVIOUS
  <2>2. has' \in [Seqs -> BOOLEAN] /\ hist' \in [Seqs -> Seq(Tokens)]
    BY <2>1, <1>1, <1>2 DEF RTypeOK
  <2>3. pos' \in [Seqs -> -1 .. MaxPos]
    BY <1>1, <1>2, RecurrentAssumption DEF RTypeOK
  <2> QED BY <2>2, <2>3, <1>1, <1>2 DEF RTypeOK
<1>4. \A q \in Seqs : has'[q] => pos'[q] >= 0
  BY <1>1 DEF RecurrentInv
<1>5. \A q \in Seqs : State(q)' = hist'[q]
  BY <1>1 DEF State, StatesFollow, RecurrentInv
<1>6. ~do_copy' => \A q \in Seqs : src'[q] = q
  BY <1>1 DEF RecurrentInv
<1> QED BY <1>3, <1>4, <1>5, <1>6 DEF RecurrentInv, StatesFollow

\* Positions are shifted, the states are not.
LEMMA ShiftFollows ==
    ASSUME RecurrentInv, NEW s \in Seqs, NEW p \in 0 .. MaxPos,
           pos' = [pos EXCEPT ![s] = p], UNCHANGED <<has, src, do_copy, rows, hist>>
    PROVE  RecurrentInv'
<1>1. RTypeOK
  BY DEF RecurrentInv
<1>2. RTypeOK' /\ \A q \in Seqs : has'[q] => pos'[q] >= 0
  BY <1>1, RecurrentAssumption DEF RTypeOK, RecurrentInv
<1> QED BY <1>2 DEF RecurrentInv, StatesFollow, State

LEMMA InitRecurrentInv == RInit => RecurrentInv
<1> SUFFICES ASSUME RInit PROVE RecurrentInv
  OBVIOUS
<1>1. <<>> \in Seq(Tokens)
  OBVIOUS
<1>2. RTypeOK
  <2>1. -1 \in -1 .. MaxPos
    BY RecurrentAssumption
  <2>2. pos \in [Seqs -> -1 .. MaxPos] /\ has \in [Seqs -> BOOLEAN] /\ src \in [Seqs -> Seqs]
    BY <2>1 DEF RInit
  <2>3. rows \in [Seqs -> Seq(Tokens)] /\ hist \in [Seqs -> Seq(Tokens)]
    BY <1>1 DEF RInit
  <2> QED BY <2>2, <2>3 DEF RInit, RTypeOK
<1> QED BY <1>2 DEF RInit, RecurrentInv, StatesFollow, State

LEMMA NextRecurrentInv == ASSUME ~AnyChain PROVE RecurrentInv /\ [RNext]_rvars => RecurrentInv'
<1> SUFFICES ASSUME RecurrentInv, [RNext]_rvars PROVE RecurrentInv'
  OBVIOUS
<1>1. RTypeOK /\ \A q \in Seqs : has[q] => pos[q] >= 0
  BY DEF RecurrentInv
<1>2. \A q \in Seqs : ~has[q] => hist[q] = <<>>
  BY DEF RecurrentInv, StatesFollow, State
<1>3. CASE Update
  <2>1. rows' = Current /\ Copied /\ UNCHANGED <<pos, has, hist>>
    BY <1>3 DEF Update, Current
  <2> QED BY <1>1, <2>1, UpdatedFollow DEF RTypeOK
<1>4. CASE RmAll
  <2>1. PICK S : S = {q \in Seqs : pos[q] >= 0}
    OBVIOUS
  <2>2. hist' = [q \in Seqs |-> IF has[q] /\ q \notin S THEN hist[q] ELSE <<>>]
    BY <1>1, <1>4, <2>1 DEF RmAll
  <2> QED BY <1>4, <2>1, <2>2, EraseFollows DEF RmAll
<1>5. CASE Clear
  <2>1. <<>> \in Seq(Tokens)
    OBVIOUS
  <2>2. RTypeOK'
    BY <1>1, <1>5, <2>1, RecurrentAssumption DEF Clear, RTypeOK
  <2>3. StatesFollow' /\ \A q \in Seqs : ~has'[q]
    BY <1>5 DEF Clear, StatesFollow, State
  <2>4. ~do_copy' => \A q \in Seqs : src'[q] = q
    BY <1>5 DEF Clear, RecurrentInv
  <2> QED BY <2>2, <2>3, <2>4 DEF RecurrentInv
<1>6. ASSUME NEW b \in Batches, Decode(b) \/ DecodeTooBig(b) PROVE RecurrentInv'
  BY <1>6, DecodeFollows, DecodeTooBigFollows
<1>7. ASSUME NEW s \in Seqs, NEW r \in Ranges, SeqRm(s, r[1], r[2]) PROVE RecurrentInv'
  <2>1. r[1] \in Int /\ r[2] \in Int
    BY RecurrentAssumption
  <2> QED BY <1>7, <2>1, SeqRmFollows
<1>8. ASSUME NEW s \in Seqs, NEW d \in Seqs, SeqCp(s, d) PROVE RecurrentInv'
  BY <1>8, SeqCpFollows
<1>9. ASSUME NEW s \in Seqs, SeqKeep(s) PROVE RecurrentInv'
  <2>1. PICK S : S = {q \in Seqs : ~(has[q] /\ q = s)}
    OBVIOUS
  <2>2. Erase(S) /\ hist' = [q \in Seqs |-> IF q = s THEN hist[s] ELSE <<>>]
    BY <1>9, <2>1 DEF SeqKeep
  <2>3. \A q \in Seqs : (IF q = s THEN hist[s] ELSE <<>>)
                        = IF has[q] /\ q \notin S THEN hist[q] ELSE <<>>
    BY <1>2, <2>1
  <2>4. hist' = [q \in Seqs |-> IF has[q] /\ q \notin S THEN hist[q] ELSE <<>>]
    BY <2>2, <2>3
  <2> QED BY <2>2, <2>4, EraseFollows
<1>10. ASSUME NEW s \in Seqs, NEW delta \in {-1, 1}, SeqAdd(s, delta) PROVE RecurrentInv'
  <2>1. PICK p \in 0 .. MaxPos : p = pos[s] + delta
    BY <1>10 DEF SeqAdd
  <2>2. pos' = [pos EXCEPT ![s] = p] /\ UNCHANGED <<has, src, do_copy, rows, hist>>
    BY <1>10, <2>1 DEF SeqAdd
  <2> QED BY <2>2, ShiftFollows
<1>11. ASSUME NEW s \in Seqs, SeqDiv(s, 2) PROVE RecurrentInv'
  <2>1. pos[s] \in 0 .. MaxPos
    BY <1>1, <1>11, RecurrentAssumption DEF SeqDiv, RTypeOK
  <2>2. pos[s] \div 2 \in 0 .. MaxPos
    BY <2>1, RecurrentAssumption
  <2>3. PICK p \in 0 .. MaxPos : p = pos[s] \div 2
    BY <2>2
  <2>4. pos' = [pos EXCEPT ![s] = p] /\ UNCHANGED <<has, src, do_copy, rows, hist>>
    BY <1>11, <2>3 DEF SeqDiv
  <2> QED BY <2>4, ShiftFollows
<1>12. CASE UNCHANGED rvars
  BY <1>12 DEF rvars, RecurrentInv, RTypeOK, StatesFollow, State
<1>13. CASE RNext
  BY <1>3, <1>4, <1>5, <1>6, <1>7, <1>8, <1>9, <1>10, <1>11, <1>13 DEF RNext
<1> QED BY <1>12, <1>13

\* For any sequences, batches and ranges, through pending copies and chains of
\* them whose source stays as it is, removals in between, batches that pass
\* over sequences and batches that find_slot refuses, each sequence of a
\* recurrent model continues from the tokens it was given.
THEOREM SequencesContinue == ~AnyChain => (RSpec => []StatesFollow)
<1> SUFFICES ASSUME ~AnyChain PROVE RSpec => []StatesFollow
  OBVIOUS
<1>1. RInit => RecurrentInv
  BY InitRecurrentInv
<1>2. RecurrentInv /\ [RNext]_rvars => RecurrentInv'
  BY NextRecurrentInv
<1>3. RecurrentInv => StatesFollow
  BY DEF RecurrentInv
<1> QED BY <1>1, <1>2, <1>3, PTL DEF RSpec

-----------------------------------------------------------------------------
(***************************************************************************)
(* The outputs of a batch.                                                 *)
(***************************************************************************)

\* How many of a set of tokens come before a token.
Rank(S, x) == Cardinality({j \in S : j < x})

\* A is the tokens of S in their order.
Numbers(A, S) ==
    /\ A \in [1 .. Cardinality(S) -> S]
    /\ \A x \in S : Rank(S, x) + 1 \in 1 .. Cardinality(S) /\ A[Rank(S, x) + 1] = x
    /\ \A n \in 1 .. Cardinality(S) : Rank(S, A[n]) = n - 1

LEMMA RankRises ==
    ASSUME NEW S, IsFiniteSet(S), S \subseteq Int, NEW x \in S
    PROVE  /\ Rank(S, x) \in Nat /\ Rank(S, x) < Cardinality(S)
           /\ \A y \in S : x < y => Rank(S, x) < Rank(S, y)
<1>1. IsFiniteSet({j \in S : j < x})
  BY FS_Subset
<1>2. Cardinality({j \in S : j < x}) < Cardinality(S)
  <2>1. x \notin {j \in S : j < x}
    OBVIOUS
  <2> QED BY <2>1, SmallerWithin
<1>3. ASSUME NEW y \in S, x < y
      PROVE  Cardinality({j \in S : j < x}) < Cardinality({j \in S : j < y})
  <2>1. x \in Int /\ y \in Int /\ \A j \in S : j \in Int
    OBVIOUS
  <2>2. \A j \in S : j < x => j < y
    BY <1>3, <2>1
  <2>3. x \in {j \in S : j < y} /\ x \notin {j \in S : j < x}
    BY <1>3, <2>1
  <2>4. {j \in S : j < x} \subseteq {j \in S : j < y}
    BY <2>2
  <2> QED BY <2>3, <2>4, SmallerWithin
<1> QED BY <1>1, <1>2, <1>3, FS_CardinalityType DEF Rank

\* A finite set has an order: ranks are different, and no more than there is
\* room for.
LEMMA OrderedNumbers ==
    ASSUME NEW S, IsFiniteSet(S), S \subseteq Int
    PROVE  Numbers(Ordered(S), S)
<1>1. PICK N \in Nat : N = Cardinality(S)
  BY FS_CardinalityType
<1>2. PICK f : f = [x \in S |-> Rank(S, x) + 1]
  OBVIOUS
<1>3. \A x \in S : /\ Rank(S, x) \in Nat /\ Rank(S, x) < N
                   /\ \A y \in S : x < y => Rank(S, x) < Rank(S, y)
  BY <1>1, RankRises
<1>4. f \in [S -> 1 .. N]
  BY <1>2, <1>3
<1>5. \A x, y \in S : Rank(S, x) = Rank(S, y) => x = y
  <2>1. \A x, y \in S : x < y \/ y < x \/ x = y
    OBVIOUS
  <2> QED BY <2>1, <1>3
<1>6. \A x, y \in S : f[x] = f[y] => x = y
  BY <1>2, <1>3, <1>5
<1>7. IsFiniteSet(1 .. N) /\ Cardinality(1 .. N) = N
  BY FS_Interval
<1>8. f \in Injection(S, 1 .. N)
  BY <1>4, <1>6 DEF Injection, IsInjective
<1>9. f \in Surjection(S, 1 .. N)
  BY <1>1, <1>7, <1>8, FS_Injection
<1>10. ASSUME NEW n \in 1 .. N PROVE \E x \in S : Rank(S, x) = n - 1
  <2>1. PICK x \in S : f[x] = n
    BY <1>9 DEF Surjection
  <2> QED BY <2>1, <1>2, <1>3
<1>11. Ordered(S) = [n \in 1 .. N |-> CHOOSE i \in S : Rank(S, i) = n - 1]
  BY <1>1 DEF Ordered, Rank
<1>12. \A n \in 1 .. N : Ordered(S)[n] \in S /\ Rank(S, Ordered(S)[n]) = n - 1
  BY <1>10, <1>11
<1>13. ASSUME NEW x \in S
       PROVE  Rank(S, x) + 1 \in 1 .. N /\ Ordered(S)[Rank(S, x) + 1] = x
  <2>1. PICK n \in 1 .. N : n = Rank(S, x) + 1
    BY <1>3
  <2>2. Rank(S, x) = n - 1
    BY <2>1, <1>3
  <2>3. Ordered(S)[n] \in S /\ Rank(S, Ordered(S)[n]) = Rank(S, x)
    BY <2>2, <1>12
  <2> QED BY <2>1, <2>3, <1>5
<1> QED BY <1>1, <1>11, <1>12, <1>13 DEF Numbers

\* The tokens of a batch whose outputs are asked for.
Wanted(b) ==
    IF b.logits # <<>> THEN Flagged(b, 0, b.n - 1)
    ELSE IF logits_all THEN 0 .. b.n - 1 ELSE {b.n - 1}

LEMMA BatchIs ==
    ASSUME NEW b \in OutBatches
    PROVE  /\ b.n \in 1 .. n_batch /\ b.n \in Nat
           /\ b.logits # <<>> => b.logits \in [1 .. b.n -> BOOLEAN]
BY OutputsAssumption DEF OutBatches

LEMMA WantedIs ==
    ASSUME NEW b \in OutBatches, logits_all \in BOOLEAN
    PROVE  /\ Wanted(b) \subseteq 0 .. b.n - 1 /\ IsFiniteSet(Wanted(b))
           /\ Cardinality(Wanted(b)) = Total(b) /\ Total(b) \in Nat
           /\ Numbers(Asked(b), Wanted(b))
<1>1. b.n \in Nat /\ b.n >= 1
  BY BatchIs
<1>2. IsFiniteSet(0 .. b.n - 1) /\ Cardinality(0 .. b.n - 1) = b.n
  BY <1>1, FS_Interval
<1>3. Wanted(b) \subseteq 0 .. b.n - 1
  BY <1>1 DEF Wanted, Flagged
<1>4. IsFiniteSet(Wanted(b)) /\ Wanted(b) \subseteq Int
  <2>1. PICK S : S = 0 .. b.n - 1
    OBVIOUS
  <2>2. IsFiniteSet(Wanted(b))
    BY <2>1, <1>2, <1>3, FS_Subset
  <2> QED BY <2>2, <1>3
<1>5. CASE b.logits # <<>>
  <2>1. Wanted(b) = Flagged(b, 0, b.n - 1)
    BY <1>5 DEF Wanted
  <2>2. Cardinality(Wanted(b)) = Total(b) /\ Asked(b) = Ordered(Wanted(b))
    BY <1>5, <2>1 DEF Total, Asked
  <2> QED BY <2>2, <1>3, <1>4, OrderedNumbers, FS_CardinalityType
<1>6. CASE b.logits = <<>> /\ logits_all
  <2>1. Wanted(b) = 0 .. b.n - 1 /\ Total(b) = b.n /\ Asked(b) = [n \in 1 .. b.n |-> n - 1]
    BY <1>6 DEF Wanted, Total, Asked
  <2>2. ASSUME NEW x \in 0 .. b.n - 1 PROVE Rank(0 .. b.n - 1, x) = x
    <3>1. {j \in 0 .. b.n - 1 : j < x} = 0 .. x - 1
      BY <1>1
    <3>2. Cardinality(0 .. x - 1) = x
      BY <1>1, FS_Interval
    <3> QED BY <3>1, <3>2 DEF Rank
  <2>3. Numbers(Asked(b), 0 .. b.n - 1)
    BY <2>1, <2>2, <1>1, <1>2 DEF Numbers
  <2> QED BY <2>1, <2>3, <1>1, <1>2
<1>7. CASE b.logits = <<>> /\ ~logits_all
  <2>1. PICK x \in Nat : x = b.n - 1
    BY <1>1
  <2>2. Wanted(b) = {x} /\ Total(b) = 1 /\ Asked(b) = <<x>>
    BY <1>7, <2>1 DEF Wanted, Total, Asked
  <2>3. IsFiniteSet({x}) /\ Cardinality({x}) = 1
    BY FS_Singleton
  <2>4. Rank({x}, x) = 0
    <3>1. {j \in {x} : j < x} = {}
      BY <2>1
    <3> QED BY <3>1, FS_EmptySet DEF Rank
  <2>5. Numbers(<<x>>, {x})
    <3>1. DOMAIN <<x>> = 1 .. 1 /\ <<x>>[1] = x /\ <<x>> \in [1 .. 1 -> {x}]
      OBVIOUS
    <3>2. \A n \in 1 .. 1 : n = 1
      OBVIOUS
    <3>3. 0 + 1 = 1 /\ 1 - 1 = 0 /\ 1 \in 1 .. 1
      OBVIOUS
    <3>4. PICK A : A = <<x>>
      OBVIOUS
    <3>5. PICK S : S = {x}
      OBVIOUS
    <3>6. /\ A \in [1 .. 1 -> S] /\ A[1] = x /\ Cardinality(S) = 1 /\ Rank(S, x) = 0
          /\ \A y \in S : y = x
      BY <2>3, <2>4, <3>1, <3>4, <3>5
    <3>7. \A y \in S : Rank(S, y) + 1 \in 1 .. 1 /\ A[Rank(S, y) + 1] = y
      BY <3>3, <3>6
    <3>8. \A n \in 1 .. 1 : Rank(S, A[n]) = n - 1
      BY <3>2, <3>3, <3>6
    <3> QED BY <3>4, <3>5, <3>6, <3>7, <3>8, Zenon DEF Numbers
  <2> QED BY <2>2, <2>3, <2>5, <1>3
<1> QED BY <1>5, <1>6, <1>7

\* A token's number is its rank, but that without flags the last one is
\* number 0: where the number n - 1 is noted.
Place(b) == [n \in 1 .. Total(b) |-> IF b.logits # <<>> THEN Asked(b)[n] ELSE n - 1]

LEMMA MappedIs ==
    ASSUME NEW b \in OutBatches, logits_all \in BOOLEAN
    PROVE  /\ \A n \in 1 .. Total(b) :
                 Place(b)[n] \in 0 .. n_batch - 1 /\ Mapped(b)[Place(b)[n]] = n - 1
           /\ \A i \in 0 .. n_batch - 1 :
                 \/ Mapped(b)[i] = -1 /\ \A n \in 1 .. Total(b) : Place(b)[n] # i
                 \/ Mapped(b)[i] + 1 \in 1 .. Total(b) /\ Place(b)[Mapped(b)[i] + 1] = i
<1>1. b.n \in Nat /\ b.n >= 1 /\ b.n <= n_batch /\ n_batch \in Nat
  BY BatchIs, OutputsAssumption
<1>2. PICK W : W = Wanted(b)
  OBVIOUS
<1>3. PICK A : A = Asked(b)
  OBVIOUS
<1>4. PICK N \in Nat : N = Total(b) /\ N = Cardinality(W)
  BY <1>2, WantedIs
<1>5. /\ W \subseteq 0 .. b.n - 1 /\ A \in [1 .. N -> W]
      /\ \A x \in W : Rank(W, x) + 1 \in 1 .. N /\ A[Rank(W, x) + 1] = x
      /\ \A n \in 1 .. N : Rank(W, A[n]) = n - 1
      /\ IsFiniteSet(W)
  BY <1>2, <1>3, <1>4, WantedIs DEF Numbers
<1>6. CASE b.logits # <<>>
  <2>1. W = {j \in 0 .. b.n - 1 : b.logits[j + 1]}
    BY <1>2, <1>6 DEF Wanted, Flagged
  <2>2. ASSUME NEW i \in 0 .. n_batch - 1
        PROVE  Mapped(b)[i] = IF i \in W THEN Rank(W, i) ELSE -1
    <3>1. i \in W <=> i < b.n /\ b.logits[i + 1]
      BY <2>1, <1>1
    <3>2. CASE i \in W
      <4>1. Flagged(b, 0, i - 1) = {j \in W : j < i}
        BY <3>2, <2>1, <1>1 DEF Flagged
      <4> QED BY <3>1, <3>2, <4>1, <1>6 DEF Mapped, Rank
    <3>3. CASE i \notin W
      BY <3>1, <3>3, <1>6 DEF Mapped
    <3> QED BY <3>2, <3>3
  <2>3. \A n \in 1 .. N : Place(b)[n] = A[n]
    BY <1>3, <1>4, <1>6 DEF Place
  <2>4. \A x \in W : x \in 0 .. n_batch - 1
    BY <1>1, <1>5
  <2>5. ASSUME NEW n \in 1 .. N
        PROVE  Place(b)[n] \in 0 .. n_batch - 1 /\ Mapped(b)[Place(b)[n]] = n - 1
    <3>1. PICK x \in W : x = A[n]
      BY <1>5
    <3>2. Rank(W, x) = n - 1
      BY <3>1, <1>5
    <3> QED BY <3>1, <3>2, <2>2, <2>3, <2>4
  <2>6. ASSUME NEW i \in 0 .. n_batch - 1
        PROVE  \/ Mapped(b)[i] = -1 /\ \A n \in 1 .. N : Place(b)[n] # i
               \/ Mapped(b)[i] + 1 \in 1 .. N /\ Place(b)[Mapped(b)[i] + 1] = i
    <3>1. CASE i \in W
      <4>1. PICK n \in 1 .. N : n = Rank(W, i) + 1
        BY <3>1, <1>5
      <4>2. A[n] = i
        BY <3>1, <4>1, <1>5
      <4> QED BY <3>1, <4>1, <4>2, <2>2, <2>3
    <3>2. CASE i \notin W
      BY <3>2, <1>5, <2>2, <2>3
    <3> QED BY <3>1, <3>2
  <2> QED BY <2>5, <2>6, <1>4
<1>7. CASE b.logits = <<>>
  <2>1. N <= n_batch
    BY <1>1, <1>4, <1>7 DEF Total
  <2>2. \A i \in 0 .. n_batch - 1 : Mapped(b)[i] = IF i < N THEN i ELSE -1
    BY <1>4, <1>7 DEF Mapped
  <2>3. \A n \in 1 .. N : Place(b)[n] = n - 1
    BY <1>4, <1>7 DEF Place
  <2>4. ASSUME NEW n \in 1 .. N
        PROVE  Place(b)[n] \in 0 .. n_batch - 1 /\ Mapped(b)[Place(b)[n]] = n - 1
    BY <1>1, <2>1, <2>2, <2>3
  <2>5. ASSUME NEW i \in 0 .. n_batch - 1
        PROVE  \/ Mapped(b)[i] = -1 /\ \A n \in 1 .. N : Place(b)[n] # i
               \/ Mapped(b)[i] + 1 \in 1 .. N /\ Place(b)[Mapped(b)[i] + 1] = i
    <3>1. CASE i < N
      <4>1. i + 1 \in 1 .. N
        BY <3>1
      <4> QED BY <3>1, <4>1, <2>2, <2>3
    <3>2. CASE ~ i < N
      BY <3>2, <2>2, <2>3
    <3> QED BY <3>1, <3>2
  <2> QED BY <2>4, <2>5, <1>4
<1> QED BY <1>6, <1>7

\* The rows of a batch that is computed.
Rows(b, r) == [n \in 1 .. Total(b) |-> <<r, Asked(b)[n]>>]

\* What is saved of it.
Snapshot(b, r) ==
    [pos |-> Place(b), rows |-> Rows(b, r), batch |-> b, round |-> r, status |-> "ok"]

\* While a batch is computed, the rows of the tokens before cur_token are in
\* place, and there are as many of them as n_outputs_prev says.
Gathering ==
    /\ cur_token \in Nat
    /\ n_outputs_prev = Rank(Wanted(batch), cur_token)
    /\ DOMAIN out_rows = 1 .. Total(batch)
    /\ out_rows = [n \in DOMAIN out_rows |-> out_rows[n]]
    /\ \A n \in 1 .. n_outputs_prev : out_rows[n] = <<round, Asked(batch)[n]>>
    /\ output_ids = Mapped(batch)

OutInv ==
    /\ logits_all \in BOOLEAN /\ batch \in OutBatches
    /\ DOMAIN output_ids = 0 .. n_batch - 1
    /\ decoded \in {"ok", "busy", "full"}
    /\ decoded = "busy" => Gathering
    /\ decoded = "ok" => /\ n_outputs = Total(batch) /\ output_ids = Mapped(batch)
                         /\ out_rows = Rows(batch, round)
    /\ saved # <<>> => \E b \in OutBatches, r \in {0, 1} : saved = <<Snapshot(b, r)>>
    /\ round \in {0, 1}

LEMMA InitOutInv == OInit => OutInv
<1> SUFFICES ASSUME OInit PROVE OutInv
  OBVIOUS
<1>0. PICK no \in BOOLEAN : no = FALSE
  OBVIOUS
<1>1. PICK b : b = [n |-> 1, logits |-> <<no>>]
  OBVIOUS
<1>2. b.n = 1 /\ b.logits = <<no>> /\ b.logits # <<>> /\ b.logits[0 + 1] = no
  BY <1>1
<1>3. b \in OutBatches
  <2>1. 1 \in 1 .. n_batch /\ <<no>> \in [1 .. 1 -> BOOLEAN]
    BY OutputsAssumption
  <2>2. b \in [n : {1}, logits : {<<>>} \cup [1 .. 1 -> BOOLEAN]]
    BY <2>1, <1>1
  <2> QED BY <2>1, <2>2 DEF OutBatches
<1>4. Flagged(b, 0, 0) = {}
  <2>1. \A j \in 0 .. 0 : j = 0
    OBVIOUS
  <2> QED BY <2>1, <1>0, <1>2 DEF Flagged
<1>5. Total(b) = 0
  BY <1>2, <1>4, FS_EmptySet DEF Total
<1>6. Mapped(b) = [i \in 0 .. n_batch - 1 |-> -1]
  <2>1. \A i \in 0 .. n_batch - 1 : i < 1 => i = 0
    OBVIOUS
  <2> QED BY <2>1, <1>0, <1>2 DEF Mapped
<1>7. Rows(b, 0) = <<>>
  BY <1>5 DEF Rows
<1>8. batch = b
  BY <1>0, <1>1 DEF OInit
<1> QED BY <1>3, <1>5, <1>6, <1>7, <1>8 DEF OInit, OutInv

LEMMA BeginFills ==
    ASSUME OutInv, NEW b \in OutBatches, Begin(b)
    PROVE  OutInv'
<1>1. /\ batch' = b /\ round' = 1 - round /\ decoded' = "busy"
      /\ out_rows' = [n \in 1 .. Total(b) |-> Zero]
      /\ output_ids' = Mapped(b) /\ cur_token' = 0 /\ n_outputs_prev' = 0
      /\ logits_all' = logits_all /\ saved' = saved
  BY DEF Begin
<1>2. logits_all \in BOOLEAN /\ round \in {0, 1}
  BY DEF OutInv
<1>3. Rank(Wanted(b), 0) = 0
  <2>1. Wanted(b) \subseteq Nat
    BY <1>2, WantedIs
  <2>2. {j \in Wanted(b) : j < 0} = {}
    BY <2>1
  <2> QED BY <2>2, FS_EmptySet DEF Rank
<1>4. Total(b)' = Total(b) /\ Wanted(b)' = Wanted(b) /\ Mapped(b)' = Mapped(b)
  BY <1>1 DEF Total, Wanted, Mapped
<1>5. Gathering'
  <2>1. Wanted(batch)' = Wanted(b) /\ Total(batch)' = Total(b) /\ Mapped(batch)' = Mapped(b)
    BY <1>1 DEF Total, Wanted, Mapped
  <2> QED BY <2>1, <1>1, <1>3 DEF Gathering
<1>6. DOMAIN output_ids' = 0 .. n_batch - 1
  BY <1>1 DEF Mapped
<1>7. saved' # <<>> => \E x \in OutBatches, r \in {0, 1} : saved' = <<Snapshot(x, r)'>>
  <2>1. \A x, r : Snapshot(x, r)' = Snapshot(x, r)
    BY <1>1 DEF Snapshot, Place, Rows, Total, Asked
  <2> QED BY <2>1, <1>1 DEF OutInv
<1> QED BY <1>1, <1>2, <1>5, <1>6, <1>7 DEF OutInv

\* The tokens of a range in their order.
LEMMA RangeNumbers ==
    ASSUME NEW a \in Int, NEW N \in Nat, NEW A, A = [n \in 1 .. N |-> a + n - 1]
    PROVE  Numbers(A, a .. a + N - 1)
<1>1. PICK S : S = a .. a + N - 1
  OBVIOUS
<1>2. Cardinality(S) = N
  <2>1. a + N - 1 \in Int /\ (a > a + N - 1 <=> N = 0)
    OBVIOUS
  <2>2. Cardinality(a .. a + N - 1) = IF a > a + N - 1 THEN 0 ELSE a + N - 1 - a + 1
    BY <2>1, FS_Interval
  <2> QED BY <2>1, <2>2, <1>1
<1>3. ASSUME NEW x \in S PROVE Rank(S, x) = x - a
  <2>1. {j \in S : j < x} = a .. x - 1
    BY <1>1
  <2>2. x - 1 \in Int /\ x \in Int /\ a <= x
    BY <1>1
  <2>3. Cardinality(a .. x - 1) = IF a > x - 1 THEN 0 ELSE x - 1 - a + 1
    BY <2>2, FS_Interval
  <2>4. (a > x - 1 <=> x = a) /\ x - 1 - a + 1 = x - a
    BY <2>2
  <2>5. Rank(S, x) = Cardinality(a .. x - 1)
    BY <2>1 DEF Rank
  <2> QED BY <2>2, <2>3, <2>4, <2>5
<1>4. A \in [1 .. N -> S]
  BY <1>1
<1>5. \A x \in S : x - a + 1 \in 1 .. N /\ A[x - a + 1] = x
  BY <1>1
<1>6. \A n \in 1 .. N : A[n] - a = n - 1
  OBVIOUS
<1> QED BY <1>1, <1>2, <1>3, <1>4, <1>5, <1>6 DEF Numbers

\* The tokens of a set from one on follow those before it.
Within(S, a, e) == {j \in S : a <= j /\ j < e}

Following(A, S, a, e, R) ==
    /\ Rank(S, a) \in Nat /\ IsFiniteSet(R) /\ Cardinality(R) \in Nat
    /\ Rank(S, e) = Rank(S, a) + Cardinality(R)
    /\ \A B : Numbers(B, R) => \A n \in 1 .. Cardinality(R) : A[Rank(S, a) + n] = B[n]

LEMMA NumbersFrom ==
    ASSUME NEW S, IsFiniteSet(S), S \subseteq Int, NEW A, Numbers(A, S),
           NEW a \in Int, NEW e \in Int, a <= e,
           NEW R, R = Within(S, a, e)
    PROVE  Following(A, S, a, e, R)
<1>0. R = {j \in S : a <= j /\ j < e}
  BY DEF Within
<1>1. /\ IsFiniteSet({j \in S : j < a}) /\ IsFiniteSet(R)
      /\ \A x : IsFiniteSet({j \in R : j < x})
  <2>1. R \subseteq S /\ {j \in S : j < a} \subseteq S /\ \A x : {j \in R : j < x} \subseteq R
    BY <1>0
  <2> QED BY <2>1, FS_Subset
<1>2. /\ Rank(S, a) \in Nat /\ Cardinality(R) \in Nat
      /\ \A x : Rank(R, x) \in Nat
  BY <1>1, FS_CardinalityType DEF Rank
<1>3. Rank(S, e) = Rank(S, a) + Cardinality(R)
  <2>1. {j \in S : j < e} = {j \in S : j < a} \cup R /\ {j \in S : j < a} \cap R = {}
    <3>1. \A j \in S : j \in Int
      OBVIOUS
    <3>2. \A j \in S : j < e <=> (j < a \/ (a <= j /\ j < e))
      BY <3>1
    <3>3. \A j \in S : ~ (j < a /\ a <= j)
      BY <3>1
    <3> QED BY <3>2, <3>3, <1>0
  <2>2. PICK L : L = {j \in S : j < a}
    OBVIOUS
  <2>3. Cardinality(L \cup R) = Cardinality(L) + Cardinality(R) - Cardinality(L \cap R)
    BY <1>1, <2>2, FS_Union
  <2>4. Rank(S, a) = Cardinality(L) /\ Rank(S, e) = Cardinality(L \cup R)
    BY <2>1, <2>2 DEF Rank
  <2>5. Cardinality(L \cap R) = 0
    BY <2>1, <2>2, FS_EmptySet
  <2> QED BY <2>3, <2>4, <2>5, <1>2
<1>4. ASSUME NEW x \in R PROVE Rank(S, x) = Rank(S, a) + Rank(R, x)
  <2>1. {j \in S : j < x} = {j \in S : j < a} \cup {j \in R : j < x}
        /\ {j \in S : j < a} \cap {j \in R : j < x} = {}
    <3>1. x \in Int /\ a <= x /\ x < e /\ \A j \in S : j \in Int
      BY <1>0
    <3>2. \A j \in S : j < x <=> (j < a \/ (a <= j /\ j < e /\ j < x))
      BY <3>1
    <3>3. \A j \in S : ~ (j < a /\ a <= j)
      BY <3>1
    <3> QED BY <3>2, <3>3, <1>0
  <2>2. PICK L : L = {j \in S : j < a}
    OBVIOUS
  <2>3. PICK M : M = {j \in R : j < x}
    OBVIOUS
  <2>4. Cardinality(L \cup M) = Cardinality(L) + Cardinality(M) - Cardinality(L \cap M)
    BY <1>1, <2>2, <2>3, FS_Union
  <2>5. /\ Rank(S, a) = Cardinality(L) /\ Rank(R, x) = Cardinality(M)
        /\ Rank(S, x) = Cardinality(L \cup M)
    BY <2>1, <2>2, <2>3 DEF Rank
  <2>6. Cardinality(L \cap M) = 0
    BY <2>1, <2>2, <2>3, FS_EmptySet
  <2> QED BY <2>4, <2>5, <2>6, <1>2
<1>5. ASSUME NEW B, Numbers(B, R), NEW n \in 1 .. Cardinality(R)
      PROVE  A[Rank(S, a) + n] = B[n]
  <2>1. PICK x \in R : x = B[n]
    BY <1>5 DEF Numbers
  <2>2. Rank(R, x) = n - 1
    BY <1>5, <2>1 DEF Numbers
  <2>3. Rank(S, x) + 1 = Rank(S, a) + n
    BY <2>2, <1>2, <1>4
  <2>4. A[Rank(S, x) + 1] = x
    BY <1>0 DEF Numbers
  <2> QED BY <2>1, <2>3, <2>4
<1> QED BY <1>1, <1>2, <1>3, <1>5 DEF Following

\* The rows of a ubatch are those of the tokens that are wanted next.
LEMMA UbatchGives ==
    ASSUME OutInv, decoded = "busy", cur_token < batch.n
    PROVE  /\ New \in Nat
           /\ Rank(Wanted(batch), cur_token + n_ubatch) = n_outputs_prev + New
           /\ \A n \in 1 .. New : OutIds[n] = Asked(batch)[n_outputs_prev + n]
<1>1. PICK b \in OutBatches : b = batch
  BY DEF OutInv
<1>2. PICK W : W = Wanted(b)
  OBVIOUS
<1>3. PICK A : A = Asked(b)
  OBVIOUS
<1>4. PICK a \in Nat : a = cur_token
  BY DEF OutInv, Gathering
<1>5. n_outputs_prev = Rank(W, a) /\ logits_all \in BOOLEAN
  BY <1>1, <1>2, <1>4 DEF OutInv, Gathering
<1>6. b.n \in Nat /\ a < b.n /\ n_ubatch \in Nat /\ n_ubatch >= 1
  BY <1>1, <1>4, BatchIs, OutputsAssumption
<1>7. PICK e \in Int : e = IF b.n <= a + n_ubatch THEN b.n ELSE a + n_ubatch
  BY <1>6
<1>8. UbatchEnd = e - 1
  <2>1. \A x, y \in Int : Min({x, y}) = IF x <= y THEN x ELSE y
    BY DEF Min
  <2> QED BY <2>1, <1>1, <1>4, <1>6, <1>7 DEF UbatchEnd
<1>9. a < e /\ e <= b.n /\ e <= a + n_ubatch
  BY <1>6, <1>7
<1>10. /\ W \subseteq 0 .. b.n - 1 /\ IsFiniteSet(W) /\ W \subseteq Int
       /\ Numbers(A, W)
  BY <1>2, <1>3, <1>5, WantedIs
<1>11. PICK R : R = {j \in W : a <= j /\ j < e}
  OBVIOUS
<1>12. /\ IsFiniteSet(R) /\ Cardinality(R) \in Nat /\ Rank(W, a) \in Nat
       /\ Rank(W, e) = Rank(W, a) + Cardinality(R)
       /\ \A B : Numbers(B, R) =>
             \A n \in 1 .. Cardinality(R) : A[Rank(W, a) + n] = B[n]
  <2>1. a \in Int /\ e \in Int /\ a <= e /\ R = Within(W, a, e)
    BY <1>9, <1>11 DEF Within
  <2>2. IsFiniteSet(W) /\ W \subseteq Int /\ Numbers(A, W)
    BY <1>10
  <2>3. Following(A, W, a, e, R)
    BY ONLY <2>1, <2>2, NumbersFrom
  <2> QED BY <2>3 DEF Following
<1>13. Rank(W, a + n_ubatch) = Rank(W, e)
  <2>1. \A j \in W : j \in Int /\ j < b.n
    BY <1>6, <1>10
  <2>2. \A j \in W : j < a + n_ubatch <=> j < e
    BY <2>1, <1>6, <1>7
  <2>3. {j \in W : j < a + n_ubatch} = {j \in W : j < e}
    BY <2>2
  <2> QED BY <2>3 DEF Rank
<1>14. R \subseteq a .. e - 1
  <2>1. \A j \in R : j \in Int /\ a <= j /\ j < e
    BY <1>10, <1>11
  <2> QED BY <2>1
<1>15. b.logits # <<>> => R = Flagged(b, a, e - 1)
  <2> SUFFICES ASSUME b.logits # <<>> PROVE R = Flagged(b, a, e - 1)
    OBVIOUS
  <2>1. W = {j \in 0 .. b.n - 1 : b.logits[j + 1]}
    BY <1>2 DEF Wanted, Flagged
  <2>2. \A j \in a .. e - 1 : j \in 0 .. b.n - 1 /\ a <= j /\ j < e
    BY <1>6, <1>9
  <2>3. \A j \in R : j \in a .. e - 1
    BY <1>14
  <2> QED BY <2>1, <2>2, <2>3, <1>11 DEF Flagged
<1>16. b.logits = <<>> /\ logits_all => R = a .. e - 1
  <2> SUFFICES ASSUME b.logits = <<>>, logits_all PROVE R = a .. e - 1
    OBVIOUS
  <2>1. W = 0 .. b.n - 1
    BY <1>2 DEF Wanted
  <2> QED BY <2>1, <1>6, <1>9, <1>11
<1>17. b.logits = <<>> /\ ~logits_all => R = IF e = b.n THEN {b.n - 1} ELSE {}
  <2> SUFFICES ASSUME b.logits = <<>>, ~logits_all
               PROVE  R = IF e = b.n THEN {b.n - 1} ELSE {}
    OBVIOUS
  <2>1. W = {b.n - 1}
    BY <1>2 DEF Wanted
  <2> QED BY <2>1, <1>6, <1>9, <1>11
<1>18. Cardinality(a .. e - 1) = e - a /\ IsFiniteSet(a .. e - 1)
  <2>1. e - 1 \in Int /\ ~ a > e - 1 /\ e - 1 - a + 1 = e - a
    BY <1>9
  <2> QED BY <2>1, FS_Interval
<1>19. New = Cardinality(R)
  <2>1. CASE b.logits # <<>>
    BY <2>1, <1>1, <1>4, <1>8, <1>15 DEF New
  <2>2. CASE b.logits = <<>> /\ logits_all
    <3>1. Total(b) = b.n
      BY <2>2 DEF Total
    <3> QED BY <2>2, <3>1, <1>1, <1>4, <1>8, <1>9, <1>16, <1>18 DEF New
  <2>3. CASE b.logits = <<>> /\ ~logits_all
    <3>1. Total(b) = 1
      BY <2>3 DEF Total
    <3>2. New = IF b.n = 1 THEN e - a ELSE IF e = b.n THEN 1 ELSE 0
      <4>1. e - 1 - a + 1 = e - a /\ (e - 1 = b.n - 1 <=> e = b.n) /\ (1 = b.n <=> b.n = 1)
        BY <1>6
      <4> QED BY <2>3, <3>1, <4>1, <1>1, <1>4, <1>8 DEF New
    <3>3. b.n = 1 => e = b.n /\ e - a = 1
      BY <1>6, <1>9
    <3>4. Cardinality(R) = IF e = b.n THEN 1 ELSE 0
      BY <2>3, <1>17, FS_Singleton, FS_EmptySet
    <3> QED BY <3>2, <3>3, <3>4
  <2> QED BY <2>1, <2>2, <2>3
<1>20. PICK N \in Nat : N = New /\ N = Cardinality(R)
  BY <1>12, <1>19
<1>21. \A n \in 1 .. N : OutIds[n] = A[Rank(W, a) + n]
  <2>1. CASE N = e - a
    <3>1. R = a .. e - 1
      BY <2>1, <1>14, <1>18, <1>20, FS_Subset
    <3>2. New = UbatchEnd - cur_token + 1
      BY <2>1, <1>4, <1>8, <1>20
    <3>3. OutIds = [n \in 1 .. N |-> a + n - 1]
      BY <3>2, <1>4, <1>20 DEF OutIds
    <3>4. a + N - 1 = e - 1 /\ a \in Int
      BY <2>1
    <3>5. PICK B : B = OutIds
      OBVIOUS
    <3>6. Numbers(B, a .. a + N - 1)
      BY <3>3, <3>4, <3>5, RangeNumbers
    <3>7. Numbers(OutIds, R)
      BY <3>1, <3>4, <3>5, <3>6
    <3> QED BY <3>7, <1>12, <1>20
  <2>2. CASE N # e - a /\ b.logits # <<>>
    <3>1. New # UbatchEnd - cur_token + 1
      BY <2>2, <1>4, <1>8, <1>20
    <3>2. OutIds = Ordered(R)
      BY <2>2, <3>1, <1>1, <1>4, <1>8, <1>15 DEF OutIds
    <3>3. R \subseteq Int
      BY <1>10, <1>11
    <3>4. Numbers(OutIds, R)
      BY <3>2, <3>3, <1>12, OrderedNumbers
    <3> QED BY <3>4, <1>12, <1>20
  <2>3. CASE N # e - a /\ b.logits = <<>>
    <3>1. ~logits_all
      BY <2>3, <1>16, <1>18, <1>20
    <3>2. New # UbatchEnd - cur_token + 1
      BY <2>3, <1>4, <1>8, <1>20
    <3>3. OutIds = [n \in 1 .. N |-> e - 1]
      BY <2>3, <3>2, <1>1, <1>8, <1>20 DEF OutIds
    <3>4. CASE e = b.n
      <4>1. R = {e - 1} /\ N = 1
        BY <2>3, <3>1, <3>4, <1>17, <1>20, FS_Singleton
      <4>2. e - 1 .. e - 1 + N - 1 = {e - 1} /\ e - 1 \in Int
        BY <4>1
      <4>3. OutIds = [n \in 1 .. N |-> e - 1 + n - 1]
        BY <3>3, <4>1
      <4>4. Numbers(OutIds, R)
        BY <4>1, <4>2, <4>3, RangeNumbers
      <4> QED BY <4>4, <1>12, <1>20
    <3>5. CASE e # b.n
      <4>1. N = 0
        BY <2>3, <3>1, <3>5, <1>17, <1>20, FS_EmptySet
      <4> QED BY <4>1
    <3> QED BY <3>4, <3>5
  <2> QED BY <2>1, <2>2, <2>3
<1> QED BY <1>1, <1>2, <1>3, <1>4, <1>5, <1>12, <1>13, <1>19, <1>20, <1>21


\* Nothing asked for changes while the batch stays.
LEMMA BatchStays ==
    ASSUME logits_all' = logits_all
    PROVE  /\ \A b : Total(b)' = Total(b) /\ Wanted(b)' = Wanted(b) /\ Mapped(b)' = Mapped(b)
                     /\ Asked(b)' = Asked(b)
           /\ \A b, r : Rows(b, r)' = Rows(b, r) /\ Snapshot(b, r)' = Snapshot(b, r)
BY DEF Total, Wanted, Mapped, Asked, Rows, Snapshot, Place

LEMMA UbatchFills ==
    ASSUME OutInv, Ubatch
    PROVE  OutInv'
<1>1. PICK b \in OutBatches : b = batch
  BY DEF OutInv
<1>2. /\ decoded = "busy" /\ cur_token < b.n
      /\ logits_all' = logits_all /\ batch' = b /\ round' = round /\ decoded' = "busy"
      /\ output_ids' = output_ids /\ saved' = saved
      /\ n_outputs_prev' = n_outputs_prev + New /\ cur_token' = cur_token + n_ubatch
      /\ out_rows' = [k0 \in DOMAIN out_rows |->
                        IF k0 - n_outputs_prev \in 1 .. New
                        THEN <<round, OutIds[k0 - n_outputs_prev]>> ELSE out_rows[k0]]
  BY <1>1 DEF Ubatch, Offset
<1>3. PICK p : p = n_outputs_prev
  OBVIOUS
<1>4. PICK N \in Nat : N = New
  BY <1>1, <1>2, UbatchGives
<1>5. /\ Rank(Wanted(b), cur_token + n_ubatch) = p + N
      /\ \A n \in 1 .. N : OutIds[n] = Asked(b)[p + n]
  BY <1>1, <1>2, <1>3, <1>4, UbatchGives
<1>6. /\ logits_all \in BOOLEAN /\ cur_token \in Nat /\ p = Rank(Wanted(b), cur_token)
      /\ DOMAIN out_rows = 1 .. Total(b)
      /\ \A n \in 1 .. p : out_rows[n] = <<round, Asked(b)[n]>>
      /\ output_ids = Mapped(b)
  BY <1>1, <1>2, <1>3 DEF OutInv, Gathering
<1>7. PICK T \in Nat : T = Total(b)
  BY <1>6, WantedIs
<1>8. p \in Nat /\ p + N <= T
  <2>1. IsFiniteSet(Wanted(b)) /\ Cardinality(Wanted(b)) = T
    BY <1>6, <1>7, WantedIs
  <2>2. \A x : Rank(Wanted(b), x) \in Nat /\ Rank(Wanted(b), x) <= T
    <3>1. \A x : {j \in Wanted(b) : j < x} \subseteq Wanted(b)
      OBVIOUS
    <3> QED BY <2>1, <3>1, FS_Subset, FS_CardinalityType DEF Rank
  <2> QED BY <2>2, <1>5, <1>6
<1>9. \A n \in 1 .. p + N : out_rows'[n] = <<round, Asked(b)[n]>>
  <2> SUFFICES ASSUME NEW n \in 1 .. p + N PROVE out_rows'[n] = <<round, Asked(b)[n]>>
    OBVIOUS
  <2>1. n \in DOMAIN out_rows
    BY <1>6, <1>7, <1>8
  <2>2. CASE n <= p
    <3>1. n \in 1 .. p /\ n - p \notin 1 .. N
      BY <2>2, <1>8
    <3> QED BY <2>1, <3>1, <1>2, <1>3, <1>4, <1>6
  <2>3. CASE ~ n <= p
    <3>1. PICK m \in 1 .. N : m = n - p
      BY <2>3, <1>8
    <3>2. p + m = n
      BY <3>1, <1>8
    <3>3. out_rows'[n] = <<round, OutIds[m]>>
      BY <2>1, <3>1, <1>2, <1>3, <1>4
    <3> QED BY <3>2, <3>3, <1>5
  <2> QED BY <2>2, <2>3
<1>10. /\ Wanted(batch)' = Wanted(b) /\ Total(batch)' = Total(b) /\ Mapped(batch)' = Mapped(b)
       /\ Asked(batch)' = Asked(b)
  BY <1>2 DEF Wanted, Total, Mapped, Asked
<1>11. DOMAIN out_rows' = 1 .. Total(b) /\ out_rows' = [n \in DOMAIN out_rows' |-> out_rows'[n]]
  BY <1>2, <1>6
<1>12. cur_token' \in Nat /\ n_outputs_prev' = p + N
  BY <1>2, <1>3, <1>4, <1>6, OutputsAssumption
<1>13. Rank(Wanted(batch), cur_token)' = p + N
  <2>1. PICK W : W = Wanted(b)
    OBVIOUS
  <2>2. Rank(Wanted(batch), cur_token)' = Cardinality({j \in W : j < cur_token + n_ubatch})
    BY <2>1, <1>2, <1>10 DEF Rank
  <2> QED BY <2>1, <2>2, <1>5 DEF Rank
<1>14. Gathering'
  BY <1>2, <1>6, <1>9, <1>10, <1>11, <1>12, <1>13 DEF Gathering
<1>15. saved' # <<>> => \E x \in OutBatches, r \in {0, 1} : saved' = <<Snapshot(x, r)'>>
  BY <1>2, BatchStays DEF OutInv
<1> QED BY <1>2, <1>14, <1>15 DEF OutInv

LEMMA NoSlotKeeps ==
    ASSUME OutInv, NoSlot
    PROVE  OutInv'
<1>1. /\ logits_all' = logits_all /\ batch' = batch /\ round' = round /\ decoded' = "full"
      /\ output_ids' = output_ids /\ saved' = saved
  BY DEF NoSlot
<1>2. saved' # <<>> => \E x \in OutBatches, r \in {0, 1} : saved' = <<Snapshot(x, r)'>>
  BY <1>1, BatchStays DEF OutInv
<1> QED BY <1>1, <1>2 DEF OutInv

\* Past the end of the batch all rows are in place.
LEMMA DecodedFills ==
    ASSUME OutInv, Decoded
    PROVE  OutInv'
<1>1. PICK b \in OutBatches : b = batch
  BY DEF OutInv
<1>2. /\ decoded = "busy" /\ cur_token >= b.n
      /\ logits_all' = logits_all /\ batch' = b /\ round' = round /\ decoded' = "ok"
      /\ output_ids' = output_ids /\ saved' = saved /\ out_rows' = out_rows
      /\ n_outputs' = Total(b)
  BY <1>1 DEF Decoded
<1>3. /\ logits_all \in BOOLEAN /\ cur_token \in Nat /\ n_outputs_prev = Rank(Wanted(b), cur_token)
      /\ DOMAIN out_rows = 1 .. Total(b) /\ out_rows = [n \in DOMAIN out_rows |-> out_rows[n]]
      /\ \A n \in 1 .. n_outputs_prev : out_rows[n] = <<round, Asked(b)[n]>>
      /\ output_ids = Mapped(b)
  BY <1>1, <1>2 DEF OutInv, Gathering
<1>4. Rank(Wanted(b), cur_token) = Total(b)
  <2>1. Wanted(b) \subseteq 0 .. b.n - 1 /\ Cardinality(Wanted(b)) = Total(b) /\ b.n \in Nat
    BY <1>3, WantedIs, BatchIs
  <2>2. \A j \in Wanted(b) : j < cur_token
    BY <2>1, <1>2, <1>3
  <2>3. {j \in Wanted(b) : j < cur_token} = Wanted(b)
    BY <2>2
  <2> QED BY <2>1, <2>3 DEF Rank
<1>5. out_rows = Rows(b, round)
  BY <1>3, <1>4 DEF Rows
<1>6. /\ Total(batch)' = Total(b) /\ Mapped(batch)' = Mapped(b)
      /\ Rows(batch, round)' = Rows(b, round)
  BY <1>2 DEF Total, Mapped, Rows, Asked
<1>7. saved' # <<>> => \E x \in OutBatches, r \in {0, 1} : saved' = <<Snapshot(x, r)'>>
  BY <1>2, BatchStays DEF OutInv
<1> QED BY <1>2, <1>3, <1>5, <1>6, <1>7 DEF OutInv


\* A token has an integer for its number.
LEMMA MappedInt ==
    ASSUME NEW b \in OutBatches, logits_all \in BOOLEAN, NEW i \in 0 .. n_batch - 1
    PROVE  Mapped(b)[i] \in Int
<1>1. Cardinality(Flagged(b, 0, i - 1)) \in Nat
  <2>1. IsFiniteSet(0 .. i - 1)
    BY FS_Interval
  <2>2. Flagged(b, 0, i - 1) \subseteq 0 .. i - 1
    BY DEF Flagged
  <2> QED BY <2>1, <2>2, FS_Subset, FS_CardinalityType
<1> QED BY <1>1 DEF Mapped

\* What write_output_ids looks for: the place of each number.
LEMMA SavesPlaces ==
    ASSUME NEW b \in OutBatches, logits_all \in BOOLEAN, output_ids = Mapped(b)
    PROVE  /\ \A i \in Ids : output_ids[i] < Total(b)
           /\ \A n \in 1 .. Total(b) :
                 Place(b)[n] = CHOOSE i \in DOMAIN output_ids :
                                 \/ output_ids[i] = n - 1
                                 \/ i = 0 /\ \A x \in Ids : output_ids[x] # n - 1
<1>1. PICK T \in Nat : T = Total(b)
  BY WantedIs
<1>2. PICK P : P = Place(b)
  OBVIOUS
<1>3. PICK D : D = 0 .. n_batch - 1
  OBVIOUS
<1>4. /\ \A n \in 1 .. T : P[n] \in D /\ output_ids[P[n]] = n - 1
      /\ \A i \in D : \/ output_ids[i] = -1 /\ \A n \in 1 .. T : P[n] # i
                      \/ output_ids[i] + 1 \in 1 .. T /\ P[output_ids[i] + 1] = i
  BY <1>1, <1>2, <1>3, MappedIs
<1>5. DOMAIN output_ids = D
  BY <1>3 DEF Mapped
<1>6. \A i \in D : output_ids[i] \in Int
  BY <1>3, MappedInt
<1>7. Ids = {i \in D : output_ids[i] >= 0}
  BY <1>5 DEF Ids
<1>8. ASSUME NEW i \in Ids PROVE output_ids[i] < T
  <2>1. i \in D /\ output_ids[i] >= 0
    BY <1>7
  <2>2. output_ids[i] + 1 \in 1 .. T
    BY <2>1, <1>4
  <2>3. output_ids[i] \in Int
    BY <2>1, <1>6
  <2> QED BY <2>2, <2>3
<1>9. ASSUME NEW n \in 1 .. T
      PROVE  P[n] = CHOOSE i \in D : \/ output_ids[i] = n - 1
                                     \/ i = 0 /\ \A x \in Ids : output_ids[x] # n - 1
  <2>1. P[n] \in D /\ output_ids[P[n]] = n - 1 /\ n - 1 >= 0
    BY <1>4
  <2>2. P[n] \in Ids
    BY <2>1, <1>7
  <2>3. ASSUME NEW i \in D, \/ output_ids[i] = n - 1
                            \/ i = 0 /\ \A x \in Ids : output_ids[x] # n - 1
        PROVE  i = P[n]
    <3>1. output_ids[i] = n - 1
      BY <2>1, <2>2, <2>3
    <3>2. output_ids[i] # -1 /\ output_ids[i] + 1 = n
      BY <3>1
    <3> QED BY <3>2, <1>4
  <2> QED BY <2>1, <2>3
<1> QED BY <1>1, <1>2, <1>5, <1>8, <1>9

LEMMA SaveKeeps ==
    ASSUME ~SavesAnyTime, OutInv, Save
    PROVE  OutInv'
<1>1. PICK b \in OutBatches : b = batch
  BY DEF OutInv
<1>2. decoded = "ok"
  BY DEF Save
<1>3. /\ logits_all \in BOOLEAN /\ round \in {0, 1} /\ n_outputs = Total(b)
      /\ output_ids = Mapped(b) /\ out_rows = Rows(b, round)
  BY <1>1, <1>2 DEF OutInv
<1>4. PICK T \in Nat : T = Total(b)
  BY <1>3, WantedIs
<1>5. ~ \E i \in Ids : output_ids[i] >= n_outputs
  <2>1. ASSUME NEW i \in Ids PROVE ~ output_ids[i] >= n_outputs
    <3>1. output_ids[i] < T
      BY <1>3, <1>4, SavesPlaces
    <3>2. output_ids[i] \in Int
      BY <1>3, MappedInt DEF Ids, Mapped
    <3> QED BY <3>1, <3>2, <1>3, <1>4
  <2> QED BY <2>1
<1>6. PICK Q : Q = [n \in 1 .. T |-> CHOOSE i \in DOMAIN output_ids :
                      \/ output_ids[i] = n - 1
                      \/ i = 0 /\ \A x \in Ids : output_ids[x] # n - 1]
  OBVIOUS
<1>7. Q = Place(b)
  <2>1. \A n \in 1 .. T : Place(b)[n] = CHOOSE i \in DOMAIN output_ids :
                                 \/ output_ids[i] = n - 1
                                 \/ i = 0 /\ \A x \in Ids : output_ids[x] # n - 1
    BY <1>3, <1>4, SavesPlaces
  <2>2. \A n \in 1 .. T : Q[n] = Place(b)[n]
    BY <2>1, <1>6
  <2>3. /\ DOMAIN Q = 1 .. T /\ Q = [n \in DOMAIN Q |-> Q[n]]
        /\ DOMAIN Place(b) = 1 .. T /\ Place(b) = [n \in DOMAIN Place(b) |-> Place(b)[n]]
    BY <1>4, <1>6 DEF Place
  <2> QED BY <2>2, <2>3
<1>8. SubSeq(out_rows, 1, n_outputs) = Rows(b, round)
  <2>1. PICK R : R = Rows(b, round)
    OBVIOUS
  <2>2. R = [n \in 1 .. T |-> R[n]]
    BY <2>1, <1>4 DEF Rows
  <2>3. R \in Seq({R[n] : n \in 1 .. T}) /\ Len(R) = T
    <3>1. R \in [1 .. T -> {R[n] : n \in 1 .. T}]
      BY <2>2
    <3> QED BY <3>1, SeqInto
  <2>4. SubSeq(R, 1, Len(R)) = R
    BY <2>3, SubSeqFull
  <2> QED BY <2>1, <2>3, <2>4, <1>3, <1>4
<1>9. PICK z : z = [pos |-> Q, rows |-> SubSeq(out_rows, 1, n_outputs),
                    batch |-> batch, round |-> round, status |-> decoded]
  OBVIOUS
<1>10. saved' = <<z>> /\ decoded' = decoded
  BY <1>3, <1>4, <1>5, <1>6, <1>9 DEF Save
<1>11. z = Snapshot(b, round)
  BY <1>1, <1>2, <1>7, <1>8, <1>9 DEF Snapshot
<1>12. /\ logits_all' = logits_all /\ batch' = batch /\ round' = round
       /\ n_outputs' = n_outputs /\ output_ids' = output_ids /\ out_rows' = out_rows
  BY DEF Save
<1>13. /\ Total(batch)' = Total(b) /\ Mapped(batch)' = Mapped(b)
       /\ Rows(batch, round)' = Rows(b, round)
  BY <1>1, <1>12 DEF Total, Mapped, Rows, Asked
<1>14. saved' = <<Snapshot(b, round)'>>
  <2>1. Snapshot(b, round)' = Snapshot(b, round)
    BY <1>12 DEF Snapshot, Place, Rows, Total, Asked
  <2> QED BY <2>1, <1>10, <1>11
<1>15. \E x \in OutBatches, r \in {0, 1} : saved' = <<Snapshot(x, r)'>>
  BY <1>3, <1>10, <1>11, <1>12, BatchStays
<1> QED BY <1>1, <1>2, <1>3, <1>10, <1>12, <1>13, <1>15 DEF OutInv, Mapped


\* What read_output_ids puts in place is what was saved.
LEMMA RestoresPlaces ==
    ASSUME NEW b \in OutBatches, logits_all \in BOOLEAN, NEW i \in 0 .. n_batch - 1
    PROVE  Max({-1} \cup {n - 1 : n \in {n \in DOMAIN Place(b) : Place(b)[n] = i}}) = Mapped(b)[i]
<1>1. PICK T \in Nat : T = Total(b)
  BY WantedIs
<1>2. PICK P : P = Place(b)
  OBVIOUS
<1>3. DOMAIN P = 1 .. T
  BY <1>1, <1>2 DEF Place
<1>4. /\ \A n \in 1 .. T : P[n] \in 0 .. n_batch - 1 /\ Mapped(b)[P[n]] = n - 1
      /\ \/ Mapped(b)[i] = -1 /\ \A n \in 1 .. T : P[n] # i
         \/ Mapped(b)[i] + 1 \in 1 .. T /\ P[Mapped(b)[i] + 1] = i
  BY <1>1, <1>2, MappedIs
<1>5. PICK m \in Int : m = Mapped(b)[i]
  BY MappedInt
<1>6. PICK M : M = {-1} \cup {n - 1 : n \in {n \in DOMAIN P : P[n] = i}}
  OBVIOUS
<1>7. M = {-1} \cup {m}
  <2>1. CASE m = -1 /\ \A n \in 1 .. T : P[n] # i
    BY <2>1, <1>3, <1>6
  <2>2. CASE m + 1 \in 1 .. T /\ P[m + 1] = i
    <3>1. \A n \in 1 .. T : P[n] = i => n - 1 = m
      BY <1>4, <1>5
    <3>2. m \in {n - 1 : n \in {n \in DOMAIN P : P[n] = i}}
      <4>1. PICK n \in 1 .. T : n = m + 1
        BY <2>2
      <4>2. n \in {x \in DOMAIN P : P[x] = i} /\ n - 1 = m
        BY <4>1, <2>2, <1>3
      <4> QED BY <4>2
    <3>3. \A x \in {n - 1 : n \in {n \in DOMAIN P : P[n] = i}} : x = m
      BY <3>1, <1>3
    <3> QED BY <3>2, <3>3, <1>6
  <2> QED BY <2>1, <2>2, <1>4, <1>5
<1>8. m >= -1
  BY <1>4, <1>5
<1>9. Max({-1} \cup {m}) = m
  BY <1>8 DEF Max
<1> QED BY <1>2, <1>5, <1>6, <1>7, <1>9

LEMMA RestoreKeeps ==
    ASSUME OutInv, Restore
    PROVE  OutInv'
<1>1. PICK b \in OutBatches, r \in {0, 1} : saved = <<Snapshot(b, r)>>
  BY DEF OutInv, Restore
<1>2. PICK s : s = saved[1]
  OBVIOUS
<1>3. s.pos = Place(b) /\ s.rows = Rows(b, r) /\ s.batch = b /\ s.round = r /\ s.status = "ok"
  BY <1>1, <1>2 DEF Snapshot
<1>4. logits_all \in BOOLEAN /\ DOMAIN output_ids = 0 .. n_batch - 1
  BY DEF OutInv
<1>5. PICK P : P = Place(b)
  OBVIOUS
<1>6. /\ output_ids' = [i \in 0 .. n_batch - 1 |->
                          Max({-1} \cup {n - 1 : n \in {n \in DOMAIN P : P[n] = i}})]
      /\ n_outputs' = Len(P) /\ out_rows' = Rows(b, r)
      /\ batch' = b /\ round' = r /\ decoded' = "ok"
      /\ logits_all' = logits_all /\ saved' = saved
  BY <1>2, <1>3, <1>4, <1>5 DEF Restore
<1>7. output_ids' = Mapped(b)
  <2>1. \A i \in 0 .. n_batch - 1 :
           Max({-1} \cup {n - 1 : n \in {n \in DOMAIN P : P[n] = i}}) = Mapped(b)[i]
    BY <1>4, <1>5, RestoresPlaces
  <2>2. Mapped(b) = [i \in 0 .. n_batch - 1 |-> Mapped(b)[i]]
    BY DEF Mapped
  <2> QED BY <2>1, <2>2, <1>6
<1>8. Len(P) = Total(b)
  <2>1. PICK T \in Nat : T = Total(b)
    BY <1>4, WantedIs
  <2>2. P = [n \in 1 .. T |-> P[n]]
    BY <2>1, <1>5 DEF Place
  <2>3. P \in [1 .. T -> {P[n] : n \in 1 .. T}]
    BY <2>2
  <2>4. Len(P) = T
    BY <2>3, SeqInto
  <2> QED BY <2>1, <2>4
<1>9. /\ Total(batch)' = Total(b) /\ Mapped(batch)' = Mapped(b)
      /\ Rows(batch, round)' = Rows(b, r)
  BY <1>6 DEF Total, Mapped, Rows, Asked
<1>10. \E x \in OutBatches, q \in {0, 1} : saved' = <<Snapshot(x, q)'>>
  BY <1>1, <1>6, BatchStays
<1> QED BY <1>4, <1>6, <1>7, <1>8, <1>9, <1>10 DEF OutInv, Mapped

LEMMA NextOutInv ==
    ASSUME ~SavesAnyTime, OutInv, [ONext]_ovars
    PROVE  OutInv'
<1>1. ASSUME NEW b \in OutBatches, Begin(b) PROVE OutInv'
  BY <1>1, BeginFills
<1>2. CASE UNCHANGED ovars
  <2>1. /\ logits_all' = logits_all /\ batch' = batch /\ round' = round /\ decoded' = decoded
        /\ output_ids' = output_ids /\ saved' = saved /\ out_rows' = out_rows
        /\ n_outputs' = n_outputs /\ cur_token' = cur_token /\ n_outputs_prev' = n_outputs_prev
    BY <1>2 DEF ovars
  <2>2. /\ Total(batch)' = Total(batch) /\ Mapped(batch)' = Mapped(batch)
        /\ Wanted(batch)' = Wanted(batch) /\ Asked(batch)' = Asked(batch)
        /\ Rows(batch, round)' = Rows(batch, round)
    BY <2>1 DEF Total, Mapped, Wanted, Rows, Asked
  <2>3. saved' # <<>> => \E x \in OutBatches, r \in {0, 1} : saved' = <<Snapshot(x, r)'>>
    BY <2>1, BatchStays DEF OutInv
  <2>4. Rank(Wanted(batch), cur_token)' = Rank(Wanted(batch), cur_token)
    BY <2>1, <2>2 DEF Rank
  <2>5. Gathering => Gathering'
    BY <2>1, <2>2, <2>4 DEF Gathering
  <2> QED BY <2>1, <2>2, <2>3, <2>5 DEF OutInv
<1> QED
  BY <1>1, <1>2, UbatchFills, NoSlotKeeps, DecodedFills, SaveKeeps, RestoreKeeps DEF ONext

\* From the numbers and the rows in place, what a caller reads.
LEMMA OutInvGives == OutInv => GivesOwnRows
<1> SUFFICES ASSUME OutInv, decoded = "ok"
             PROVE  RowsOfTokens
  BY DEF OutInv, GivesOwnRows, Saves, RowsOfTokens
<1>1. PICK b \in OutBatches : b = batch
  BY DEF OutInv
<1>2. /\ logits_all \in BOOLEAN /\ n_outputs = Total(b)
      /\ output_ids = Mapped(b) /\ out_rows = Rows(b, round)
      /\ DOMAIN output_ids = 0 .. n_batch - 1
  BY <1>1 DEF OutInv
<1>3. PICK T \in Nat : T = Total(b)
  BY <1>2, WantedIs
<1>4. PICK A : A = Asked(b)
  OBVIOUS
<1>5. PICK P : P = Place(b)
  OBVIOUS
<1>6. n_batch \in Nat /\ b.n \in 1 .. n_batch
  BY BatchIs, OutputsAssumption
<1>7. A \in [1 .. T -> 0 .. n_batch - 1] /\ Len(A) = T
  <2>1. PICK W : W = Wanted(b)
    OBVIOUS
  <2>2. W \subseteq 0 .. b.n - 1 /\ Numbers(A, W) /\ Cardinality(W) = T
    BY <2>1, <1>2, <1>3, <1>4, WantedIs
  <2>3. A \in [1 .. T -> W]
    BY <2>2 DEF Numbers
  <2>4. W \subseteq 0 .. n_batch - 1
    BY <2>2, <1>6
  <2>5. A \in [1 .. T -> 0 .. n_batch - 1]
    BY <2>3, <2>4
  <2> QED BY <2>5, SeqInto
<1>8. /\ \A n \in 1 .. T : P[n] \in 0 .. n_batch - 1 /\ output_ids[P[n]] = n - 1
      /\ \A i \in 0 .. n_batch - 1 :
            \/ output_ids[i] = -1 /\ \A n \in 1 .. T : P[n] # i
            \/ output_ids[i] + 1 \in 1 .. T /\ P[output_ids[i] + 1] = i
  BY <1>2, <1>3, <1>5, MappedIs
<1>9. \A n \in 1 .. T : out_rows[n] = <<round, A[n]>>
  BY <1>2, <1>3, <1>4 DEF Rows
<1>10. ASSUME NEW i \in 0 .. n_batch
       PROVE  \/ /\ Get(i) = Null
                 /\ i \in 0 .. n_batch - 1 => \A n \in 1 .. T : P[n] # i
              \/ \E n \in 1 .. T : P[n] = i /\ Get(i) = <<round, A[n]>>
  <2>1. ~ i < 0
    BY <1>6
  <2>2. CASE i \notin 0 .. n_batch - 1
    BY <2>1, <2>2, <1>2 DEF Get
  <2>3. CASE i \in 0 .. n_batch - 1
    <3>1. PICK m \in Int : m = output_ids[i]
      BY <2>3, <1>2, MappedInt
    <3>2. Get(i) = IF m < 0 \/ m >= T THEN Null ELSE out_rows[m + 1]
      BY <2>1, <2>3, <3>1, <1>2, <1>3 DEF Get
    <3>3. CASE m = -1 /\ \A n \in 1 .. T : P[n] # i
      BY <3>2, <3>3
    <3>4. CASE m + 1 \in 1 .. T /\ P[m + 1] = i
      <4>1. ~ (m < 0 \/ m >= T)
        BY <3>4
      <4> QED BY <3>2, <3>4, <4>1, <1>9
    <3> QED BY <2>3, <3>1, <3>3, <3>4, <1>8
  <2> QED BY <2>2, <2>3
<1>11. ASSUME NEW i \in 0 .. n_batch
       PROVE  Get(i) = IF b.logits = <<>> /\ ~logits_all
                       THEN IF i = 0 THEN <<round, b.n - 1>> ELSE Null
                       ELSE IF \E n \in DOMAIN A : A[n] = i THEN <<round, i>> ELSE Null
  <2>1. CASE b.logits = <<>> /\ ~logits_all
    <3>1. T = 1 /\ A = <<b.n - 1>>
      BY <2>1, <1>3, <1>4 DEF Total, Asked
    <3>2. A[1] = b.n - 1 /\ \A n \in 1 .. T : n = 1
      BY <3>1
    <3>3. P[1] = 0
      BY <2>1, <3>1, <1>3, <1>5 DEF Place
    <3>4. 0 \in 0 .. n_batch - 1 /\ 1 \in 1 .. T
      BY <3>1, <1>6
    <3>5. CASE i = 0
      BY <2>1, <3>2, <3>3, <3>4, <3>5, <1>10
    <3>6. CASE i # 0
      BY <2>1, <3>2, <3>3, <3>6, <1>10
    <3> QED BY <3>5, <3>6
  <2>2. CASE ~ (b.logits = <<>> /\ ~logits_all)
    <3>1. \A n \in 1 .. T : P[n] = A[n]
      <4>1. CASE b.logits # <<>>
        BY <4>1, <1>3, <1>4, <1>5 DEF Place
      <4>2. CASE b.logits = <<>>
        <5>1. T = b.n /\ A = [n \in 1 .. b.n |-> n - 1]
          BY <2>2, <4>2, <1>3, <1>4 DEF Total, Asked
        <5> QED BY <4>2, <5>1, <1>3, <1>5 DEF Place
      <4> QED BY <4>1, <4>2
    <3>2. DOMAIN A = 1 .. T
      BY <1>7
    <3>3. \A n \in 1 .. T : A[n] \in 0 .. n_batch - 1
      BY <1>7
    <3>4. CASE \E n \in 1 .. T : A[n] = i
      BY <2>2, <3>1, <3>2, <3>3, <3>4, <1>10
    <3>5. CASE ~ \E n \in 1 .. T : A[n] = i
      BY <2>2, <3>1, <3>2, <3>5, <1>10
    <3> QED BY <3>4, <3>5
  <2> QED BY <2>1, <2>2
<1>12. ASSUME NEW n \in 1 .. n_batch + 1
       PROVE  Get(-n) = IF n <= Len(A) THEN <<round, A[Len(A) + 1 - n]>> ELSE Null
  <2>1. -n < 0 /\ n \in Int
    OBVIOUS
  <2>2. T + (-n) = T - n /\ T - n + 1 = T + 1 - n
    BY <2>1
  <2>3. Get(-n) = IF T - n < 0 \/ T - n >= T THEN Null ELSE out_rows[T + 1 - n]
    BY <2>1, <2>2, <1>2, <1>3 DEF Get
  <2>4. CASE n <= T
    <3>1. ~ (T - n < 0 \/ T - n >= T) /\ T + 1 - n \in 1 .. T
      BY <2>4
    <3> QED BY <2>3, <2>4, <3>1, <1>7, <1>9
  <2>5. CASE ~ n <= T
    <3>1. T - n < 0
      BY <2>5
    <3> QED BY <2>3, <2>5, <3>1, <1>7
  <2> QED BY <2>4, <2>5
<1> QED BY <1>1, <1>4, <1>11, <1>12 DEF RowsOfTokens

\* Where a state is saved only after a decode that went well, a caller of a
\* context of any size finds for each token the row computed for it, whatever
\* the flags of the batches and wherever they were cut into ubatches, also
\* after a state was restored; and saving never fails.
THEOREM RowsAreOwn == ~SavesAnyTime => (OSpec => []GivesOwnRows)
<1> SUFFICES ASSUME ~SavesAnyTime PROVE OSpec => []GivesOwnRows
  OBVIOUS
<1>1. OInit => OutInv
  BY InitOutInv
<1>2. OutInv /\ [ONext]_ovars => OutInv'
  BY NextOutInv
<1>3. OutInv => GivesOwnRows
  BY OutInvGives
<1> QED BY <1>1, <1>2, <1>3, PTL DEF OSpec

=============================================================================
