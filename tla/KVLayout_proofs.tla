--------------------------- MODULE KVLayout_proofs ---------------------------
(***************************************************************************)
(* What the searches and the plans of KVLayout return, for every number of *)
(* cells and whatever they hold: what the proofs about the calls of the    *)
(* cache and those about its loops both rest on.                           *)
(***************************************************************************)
EXTENDS KVLayout, SequenceTheorems, FiniteSetTheorems, TLAPS

-----------------------------------------------------------------------------
(* The layout: what a search for a slot returns, and where it leaves head. *)

\* The cells are finitely many, and no set of cells is larger than Size.
LEMMA CellsFinite ==
    /\ IsFiniteSet(Cells) /\ Cardinality(Cells) = Size
    /\ \A S \in SUBSET Cells : /\ IsFiniteSet(S)
                               /\ Cardinality(S) \in 0 .. Size
<1>1. IsFiniteSet(Cells) /\ Cardinality(Cells) = Size
  BY FS_Interval, LayoutAssumption DEF Cells
<1>2. ASSUME NEW S \in SUBSET Cells
      PROVE  IsFiniteSet(S) /\ Cardinality(S) \in 0 .. Size
  <2>1. IsFiniteSet(S) /\ Cardinality(S) <= Size
    BY <1>1, FS_Subset
  <2>2. Cardinality(S) \in Nat
    BY <2>1, FS_CardinalityType
  <2> QED BY <2>1, <2>2, LayoutAssumption
<1> QED BY <1>1, <1>2

\* Least picks the least element of a set of naturals that a natural bounds.
\* (Strict inclusion of the intervals 0..x is well founded on a finite set.)
LEMMA LeastIsLeast ==
    ASSUME NEW N \in Nat, NEW S, S \subseteq 0 .. N, S # {}
    PROVE  Least(S) \in S /\ \A y \in S : Least(S) <= y
<1> DEFINE U == 0 .. N
           T == {0 .. x : x \in S}
<1>1. IsFiniteSet(U)
  BY FS_Interval
<1>2. IsWellFoundedOn(StrictSubsetOrdering(U), FiniteSubsetsOf(U))
  BY <1>1, FS_StrictSubsetOrderingWellFounded
<1>3. T \subseteq FiniteSubsetsOf(U) /\ T # {}
  <2>1. \A x \in S : 0 .. x \subseteq U /\ IsFiniteSet(0 .. x)
    BY <1>1, FS_Subset
  <2> QED BY <2>1 DEF FiniteSubsetsOf
<1>4. \E x \in T : \A y \in T : <<y, x>> \notin StrictSubsetOrdering(U)
  <2> HIDE DEF T, U
  <2> QED BY <1>2, <1>3, WFMin
<1>5. PICK x \in S : \A y \in S : <<0 .. y, 0 .. x>> \notin StrictSubsetOrdering(U)
  BY <1>4
<1>6. ASSUME NEW y \in S, y < x PROVE FALSE
  <2>1. 0 .. y \subseteq 0 .. x /\ 0 .. y # 0 .. x
    BY <1>6
  <2>2. 0 .. y \in SUBSET U /\ 0 .. x \in SUBSET U
    OBVIOUS
  <2> QED BY <2>1, <2>2, <1>5 DEF StrictSubsetOrdering
<1>7. \A y \in S : x <= y
  BY <1>6
<1> QED BY <1>7 DEF Least

-----------------------------------------------------------------------------
\* A search that succeeds returns a window: k free cells inside the cache.
LEMMA SlotIsWindow ==
    ASSUME NEW occ, NEW head, NEW k, Windows(occ, k) # {}
    PROVE  SlotAt(occ, head, k) \in Windows(occ, k)
<1> DEFINE ahead == {h \in Windows(occ, k) : h >= head}
           W == IF ahead # {} THEN ahead ELSE Windows(occ, k)
<1>1. W \subseteq 0 .. Size /\ W # {} /\ W \subseteq Windows(occ, k)
  BY LayoutAssumption DEF Windows, Cells
<1>2. Least(W) \in W
  BY <1>1, LeastIsLeast, LayoutAssumption
<1> QED BY <1>1, <1>2 DEF SlotAt

\* A search that fails leaves head one past a taken cell, so within the
\* cache or just behind it.
LEMMA HeadWhenFullInRange ==
    ASSUME NEW occ \in SUBSET Cells, NEW head \in 0 .. Size,
           NEW k \in 1 .. Size, Windows(occ, k) = {}
    PROVE  HeadWhenFull(occ, head, k) \in 1 .. Size
<1> DEFINE turn == IF head = 0 THEN Size ELSE head
           past == {i + 1 : i \in occ}
           late == {e \in past : e >= turn}
<1>1. past \subseteq 1 .. Size /\ past \subseteq 0 .. Size
  BY LayoutAssumption DEF Cells
<1>2. CASE \A e \in past : e < turn => e + k <= Size
  <2>1. late # {}
    <3>1. SUFFICES ASSUME late = {} PROVE FALSE
      OBVIOUS
    <3> DEFINE over == {x \in 0 .. Size : \A e \in past : e <= x}
    <3>2. over \subseteq 0 .. Size /\ Size \in over
      BY <1>1, LayoutAssumption
    <3>3. PICK m \in 0 .. Size :
             (\A e \in past : e <= m) /\ \A x \in over : m <= x
      <4>1. Least(over) \in over /\ \A x \in over : Least(over) <= x
        BY <3>2, LeastIsLeast, LayoutAssumption
      <4> QED BY <4>1
    <3>4. m = 0 \/ m \in past
      <4>1. SUFFICES ASSUME m # 0, m \notin past PROVE FALSE
        OBVIOUS
      <4>2. \A e \in past : e <= m - 1
        <5>1. SUFFICES ASSUME NEW e \in past PROVE e <= m - 1
          OBVIOUS
        <5>2. e \in 1 .. Size /\ e <= m /\ e # m
          BY <4>1, <3>3, <1>1
        <5> QED BY <5>2, LayoutAssumption
      <4>3. m - 1 \in over
        <5>1. m - 1 \in 0 .. Size
          BY <4>1, LayoutAssumption
        <5> QED BY <5>1, <4>2
      <4> QED BY <4>3, <3>3
    <3>5. m + k <= Size
      <4>1. \A e \in past : e < turn
        BY <3>1, <1>1, LayoutAssumption
      <4> QED BY <4>1, <3>3, <3>4, <1>2
    <3>6. \A i \in m .. m + k - 1 : i \notin occ
      <4>1. \A i \in occ : i + 1 <= m
        BY <3>3
      <4> QED BY <4>1, <3>3 DEF Cells
    <3>7. m \in Windows(occ, k)
      BY <3>3, <3>5, <3>6, LayoutAssumption DEF Windows, Fits, Cells
    <3> QED BY <3>7
  <2>2. late \subseteq 0 .. Size
    BY <1>1
  <2>3. Least(late) \in late
    BY <2>1, <2>2, LeastIsLeast, LayoutAssumption
  <2> QED BY <2>3, <1>1, <1>2 DEF HeadWhenFull
<1>3. CASE ~ \A e \in past : e < turn => e + k <= Size
  <2>1. Least(past) \in past
    BY <1>1, <1>3, LeastIsLeast, LayoutAssumption
  <2> QED BY <2>1, <1>1, <1>3 DEF HeadWhenFull
<1> QED BY <1>2, <1>3

\* Before a cell with index `used` there are as many holes as there are live
\* cells from it on.
LEMMA HolesMatchMovers ==
    ASSUME NEW c, c.used \in 0 .. Size, c.used = Cardinality(Live(c))
    PROVE  Cardinality(Holes(c)) = Cardinality(Movers(c))
<1> DEFINE low == 0 .. c.used - 1
           live == Live(c)
<1>1. c.used \in 0 .. Size /\ c.used = Cardinality(live)
  OBVIOUS
<1>2. IsFiniteSet(low) /\ Cardinality(low) = c.used
  <2>1. 0 \in Int /\ c.used - 1 \in Int /\ c.used \in Nat
    BY <1>1, LayoutAssumption
  <2>2. /\ IsFiniteSet(low)
        /\ Cardinality(low) = IF 0 > c.used - 1 THEN 0 ELSE (c.used - 1) - 0 + 1
    BY <2>1, FS_Interval
  <2> HIDE DEF low
  <2> QED BY <2>1, <2>2
<1>3. live \in SUBSET Cells /\ IsFiniteSet(live)
  <2>1. live \in SUBSET Cells
    BY DEF Live
  <2> QED BY <2>1, CellsFinite
<1>4. Holes(c) = low \ live /\ Movers(c) = live \ low
  <2>1. \A j \in Cells : j \in low <=> j < c.used
    BY <1>1 DEF Cells
  <2>2. low \in SUBSET Cells
    BY <1>1, LayoutAssumption DEF Cells
  <2>3. \A j \in Cells : c.used \in Int /\ j \in Int
    BY <1>1 DEF Cells
  <2> HIDE DEF low
  <2>4. \A j \in Cells : j \in live <=> c.seqs[j] # {}
    BY DEF Live
  <2>5. \A j \in Cells : j \in Holes(c) <=> j \in low /\ j \notin live
    BY <2>1, <2>4 DEF Holes
  <2>6. \A j \in Cells : j \in Movers(c) <=> j \notin low /\ j \in live
    BY <2>1, <2>3, <2>4 DEF Movers
  <2>7. Holes(c) \subseteq Cells /\ Movers(c) \subseteq Cells /\ live \subseteq Cells
    BY <1>3 DEF Holes, Movers
  <2> HIDE DEF live
  <2> QED BY <2>2, <2>5, <2>6, <2>7
<1> HIDE DEF low, live
<1>5. Cardinality(low \ live) = Cardinality(low) - Cardinality(low \cap live)
  BY <1>2, FS_Difference
<1>6. Cardinality(live \ low) = Cardinality(live) - Cardinality(live \cap low)
  BY <1>3, FS_Difference
<1>7. low \cap live = live \cap low
  OBVIOUS
<1> QED BY <1>1, <1>2, <1>4, <1>5, <1>6, <1>7

\* No two holes are filled from one cell, so as many cells are emptied as
\* filled.
LEMMA MovesPair ==
    ASSUME NEW c, NEW m \in [Holes(c) -> Movers(c)], Plan(c, m), NEW to \in SUBSET Holes(c)
    PROVE  Cardinality({m[h] : h \in to}) = Cardinality(to)
<1> DEFINE from == {m[h] : h \in to}
           f == [h \in to |-> m[h]]
<1>1. to \in SUBSET Cells /\ IsFiniteSet(to)
  BY CellsFinite DEF Holes
<1>2. ASSUME NEW h \in to, NEW k \in to, h < k PROVE m[h] # m[k]
  <2>1. h \in Holes(c) /\ k \in Holes(c) /\ m[h] \in Int /\ m[k] \in Int
    BY DEF Movers, Cells
  <2>2. m[h] < m[k] \/ m[h] > m[k]
    BY <1>2, <2>1 DEF Plan
  <2> QED BY <2>1, <2>2
<1>3. \A h, k \in to : m[h] = m[k] => h = k
  <2>1. \A h \in to : h \in Int
    BY <1>1 DEF Cells
  <2> QED BY <1>2, <2>1
<1>4. f \in Surjection(to, from) /\ f \in Injection(to, from)
  BY <1>3 DEF Surjection, Injection, IsInjective
<1> QED BY <1>1, <1>4, FS_Surjection

=============================================================================
