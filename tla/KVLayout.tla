------------------------------ MODULE KVLayout ------------------------------
(***************************************************************************)
(* Where the tokens of a KV cache lie: which cells a search for a slot     *)
(* returns, and which cells a defragmentation moves where.  The code finds *)
(* both with loops (src/llama.cpp, llama_kv_cache_find_slot and            *)
(* llama_kv_cache_defrag_internal); here is what the loops compute.        *)
(* FindSlotLoop and DefragLoop check the loops against it.                 *)
(***************************************************************************)
EXTENDS Integers, FiniteSets

CONSTANTS
    Size,       \* kv_self.size, the number of cells
    MaxMoves    \* max_moves of a defragmentation, which its graph can hold

ASSUME LayoutAssumption == Size \in Nat \ {0} /\ MaxMoves \in Nat \ {0}

Cells == 0 .. Size - 1

Least(S)   == CHOOSE x \in S : \A y \in S : x <= y
Lesser(a, b)  == IF a < b THEN a ELSE b
Greater(a, b) == IF a < b THEN b ELSE a

Live(c)  == {i \in Cells : c.seqs[i] # {}}
Taken(c) == {i \in Cells : c.pos[i] >= 0}

-----------------------------------------------------------------------------
(* llama_kv_cache_find_slot: the search for k contiguous cells outside     *)
(* occ, from head on and around.                                           *)

\* mutation: the last cell of the window is not looked at
FitsShort(occ, h, k) == h + k <= Size /\ \A i \in h .. h + k - 2 : i \notin occ

Fits(occ, h, k) == h + k <= Size /\ \A i \in h .. h + k - 1 : i \notin occ

Windows(occ, k) == {h \in Cells : Fits(occ, h, k)}

\* the first window at or after head, else the first of all
SlotAt(occ, head, k) ==
    LET ahead == {h \in Windows(occ, k) : h >= head}
    IN  Least(IF ahead # {} THEN ahead ELSE Windows(occ, k))

\* where a failed search leaves head: one past the first taken cell met
\* after a full turn, which is counted from head, or from the end when
\* the search began at 0
HeadWhenFull(occ, head, k) ==
    LET turn == IF head = 0 THEN Size ELSE head
        past == {i + 1 : i \in occ}
    IN  IF \A e \in past : e < turn => e + k <= Size
        THEN Least({e \in past : e >= turn})
        ELSE Least(past)

-----------------------------------------------------------------------------
(* llama_kv_cache_defrag_internal, on a record of functions of the cells.  *)

Holes(c)  == {i \in Cells : i < c.used /\ c.seqs[i] = {}}
Movers(c) == {i \in Cells : i >= c.used /\ c.seqs[i] # {}}

\* Holes are filled block by block from the left, each block with the last
\* cells not yet moved, in their order.
Plan(c, m) ==
    /\ \A h, k \in Holes(c) :
          h < k => IF h .. k \subseteq Holes(c) THEN m[h] < m[k] ELSE m[h] > m[k]
    /\ \A i \in Movers(c) : \E h \in Holes(c) : m[h] = i

\* a move copies a run of cells that is contiguous on both sides
StartsRun(c, m, h) == h - 1 \notin Holes(c) \/ m[h - 1] + 1 # m[h]

MovedBy(c, m) ==
    {h \in Holes(c) :
       Cardinality({k \in Holes(c) : k <= h /\ StartsRun(c, m, k)}) <= MaxMoves}

\* mutation: the cells move, their rows stay
RowsStay(c, to, m) == c.row

RowsMoved(c, to, m) == [i \in Cells |-> IF i \in to THEN c.row[m[i]] ELSE c.row[i]]

Defragged(c, m) ==
    LET to   == MovedBy(c, m)
        from == {m[h] : h \in to}
    IN  [c EXCEPT
           !.pos   = [i \in Cells |-> IF i \in to THEN c.pos[m[i]]
                                      ELSE IF i \in from THEN -1 ELSE c.pos[i]],
           !.delta = [i \in Cells |-> IF i \in to THEN c.delta[m[i]]
                                      ELSE IF i \in from THEN 0 ELSE c.delta[i]],
           !.seqs  = [i \in Cells |-> IF i \in to THEN c.seqs[m[i]]
                                      ELSE IF i \in from THEN {} ELSE c.seqs[i]],
           !.row   = RowsMoved(c, to, m),
           !.head  = IF to = {} THEN c.head ELSE c.used]

=============================================================================
