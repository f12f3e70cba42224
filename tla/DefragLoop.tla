----------------------------- MODULE DefragLoop -----------------------------
(***************************************************************************)
(* The loops of llama_kv_cache_defrag_internal, from every layout of a     *)
(* cache whose `used` is exact, and the copies of the graph that           *)
(* build_defrag makes from their result.                                   *)
(*                                                                         *)
(* Only what tells cells apart is kept of a cell: cell i starts with the   *)
(* one sequence i, position i and row i.                                   *)
(***************************************************************************)
EXTENDS KVLayout, Sequences

VARIABLES
    before,  \* the cache on entry
    c,       \* the cache
    ids,     \* "cell i moves to ids[i]"; n_kv = not moved
    i0,      \* the cell being filled
    hole,    \* nh, the size of the hole at i0; 0 outside the inner loop
    nf,      \* how many of its cells are filled
    i1,      \* the cell the inner loop looks at
    cont,    \* the last cell looked at was moved
    moves,   \* n_moves
    copies,  \* copies in the graph
    pc

defragvars == <<before, c, ids, i0, hole, nf, i1, cont, moves, copies, pc>>

LaidOut(live) ==
    [pos   |-> [i \in Cells |-> IF i \in live THEN i ELSE -1],
     delta |-> [i \in Cells |-> IF i \in live THEN i ELSE 0],
     seqs  |-> [i \in Cells |-> IF i \in live THEN {i} ELSE {}],
     row   |-> [i \in Cells |-> i],
     used  |-> Cardinality(live), head |-> Size]

NKv == Cardinality({i \in Cells : \E j \in Live(before) : j >= i})

DefragInit ==
    /\ before \in {LaidOut(live) : live \in SUBSET Cells}
    /\ c = before
    /\ ids = [i \in 0 .. NKv - 1 |-> NKv]
    /\ i0 = 0 /\ hole = 0 /\ nf = 0 /\ i1 = 0 /\ cont = FALSE
    /\ moves = 0 /\ copies = 0 /\ pc = "scan"

Empty(i) == c.seqs[i] = {}

KeepCell ==
    /\ pc = "scan" /\ i0 < c.used /\ ~Empty(i0)
    /\ ids' = [ids EXCEPT ![i0] = i0]
    /\ i0' = i0 + 1
    /\ UNCHANGED <<before, c, hole, nf, i1, cont, moves, copies, pc>>

\* cells the search from the end may take
Takable == {i \in i0 + 1 .. NKv - 1 : ~Empty(i) /\ ids[i] = NKv}

\* a hole: find as many cells from the end as it is long
FindHole ==
    /\ pc = "scan" /\ i0 < c.used /\ Empty(i0)
    /\ hole' = Cardinality({h \in i0 .. c.used - 1 : \A j \in i0 .. h : Empty(j)})
    /\ IF Cardinality(Takable) < hole'
       THEN pc' = "abort" /\ UNCHANGED i1    \* GGML_ASSERT(nf == nh)
       ELSE /\ pc' = "fill"
            /\ i1' = CHOOSE i \in Takable :
                        Cardinality({j \in Takable : j >= i}) = hole'
    /\ nf' = 0 /\ cont' = FALSE
    /\ UNCHANGED <<before, c, ids, i0, moves, copies>>

LeaveFill(stop) ==
    IF stop \/ moves' = MaxMoves THEN pc' = "graph" /\ UNCHANGED i0
    ELSE pc' = "scan" /\ i0' = i0 + hole

\* a gap in the cells to move ends a run
PassCell ==
    /\ pc = "fill" /\ i1 < NKv /\ (Empty(i1) \/ ids[i1] # NKv)
    /\ IF moves = MaxMoves
       THEN UNCHANGED <<cont, i1, moves>> /\ LeaveFill(TRUE)
       ELSE cont' = FALSE /\ i1' = i1 + 1 /\ UNCHANGED <<moves, i0, pc>>
    /\ UNCHANGED <<before, c, ids, hole, nf, copies>>

\* mutation: the cell that moved is not cleared
CopyField(f, to, blank) == [f EXCEPT ![to] = f[i1]]

\* the cell at i1 moves, and leaves a default cell behind
MoveField(f, to, blank) == [f EXCEPT ![to] = f[i1], ![i1] = blank]

MoveCell ==
    /\ pc = "fill" /\ i1 < NKv /\ ~Empty(i1) /\ ids[i1] = NKv
    /\ LET to == i0 + nf
       IN  /\ ids' = [ids EXCEPT ![i1] = to]
           /\ c' = [c EXCEPT
                 !.pos   = MoveField(@, to, -1),
                 !.delta = MoveField(@, to, 0),
                 !.seqs  = MoveField(@, to, {}),
                 !.head  = c.used]
    /\ moves' = IF cont THEN moves ELSE moves + 1
    /\ cont' = TRUE
    /\ nf' = nf + 1
    /\ i1' = i1 + 1
    /\ IF nf' = hole THEN LeaveFill(FALSE) ELSE UNCHANGED <<i0, pc>>
    /\ UNCHANGED <<before, hole, copies>>

EndScan ==
    /\ pc = "scan" /\ i0 >= c.used
    /\ pc' = IF moves = 0 THEN "done" ELSE "graph"
    /\ i1' = 0
    /\ UNCHANGED <<before, c, ids, i0, hole, nf, cont, moves, copies>>

\* build_defrag: from the first cell on, copy each run of rows that moves
Moving(i) == i \in DOMAIN ids /\ ids[i] \notin {i, NKv}
RunFrom(i) == {j \in i .. NKv - 1 : \A l \in i .. j : ids[l] = ids[i] + (l - i)}

CopyRun ==
    /\ pc = "graph" /\ \E i \in Cells : Moving(i)
    /\ LET i   == Least({j \in Cells : Moving(j)})
           run == RunFrom(i)
       IN  /\ c' = [c EXCEPT !.row = [r \in Cells |->
                       IF \E j \in run : ids[j] = r
                       THEN @[CHOOSE j \in run : ids[j] = r] ELSE @[r]]]
           /\ ids' = [j \in DOMAIN ids |-> IF j \in run THEN NKv ELSE ids[j]]
    /\ copies' = copies + 1
    /\ UNCHANGED <<before, i0, hole, nf, i1, cont, moves, pc>>

EndGraph ==
    /\ pc = "graph" /\ \A i \in Cells : ~Moving(i)
    /\ pc' = "done"
    /\ UNCHANGED <<before, c, ids, i0, hole, nf, i1, cont, moves, copies>>

DefragDone == pc \in {"done", "abort"} /\ UNCHANGED defragvars

DefragNext == KeepCell \/ FindHole \/ PassCell \/ MoveCell \/ EndScan
        \/ CopyRun \/ EndGraph \/ DefragDone

DefragSpec == DefragInit /\ [][DefragNext]_defragvars

-----------------------------------------------------------------------------
\* The assertion "KV defrag bug: nf != nh" holds whenever `used` is exact.
NeverAborts == pc # "abort"

\* When the defragmentation ends, cells, rows and head are those of the one
\* plan of KVLayout, cut after MaxMoves runs: every token still has its row.
EndsAsPlanned ==
    pc = "done" =>
      \E m \in [Holes(before) -> Movers(before)] :
         Plan(before, m) /\ c = Defragged(before, m)

\* The graph never holds more copies than it was sized for (max_moves),
\* although moves are counted while cells are chosen, block by block.
GraphFits == copies <= MaxMoves /\ (pc = "done" => copies = moves)

\* The defragmentation ends with cells, rows and head as in the plan, and
\* neither runs into its assertion nor makes a graph that is too large.
DefragFollowsPlan == NeverAborts /\ EndsAsPlanned /\ GraphFits

=============================================================================
