------------------------------ MODULE KVCache ------------------------------
(***************************************************************************)
(* The KV cache of a transformer context: struct llama_kv_cache and the    *)
(* llama_kv_cache_* functions of src/llama.cpp, with the part of           *)
(* llama_decode_internal that places a batch in it.                        *)
(*                                                                         *)
(* A cell describes one row of the K and V tensors.  The cells are updated *)
(* by the sequence operations; the rows only by a graph: a decode writes   *)
(* the rows of its tokens, a K-shift rotates every row by the delta of its *)
(* cell, a defragmentation moves rows.  A context is used by one thread,   *)
(* so a call is one step, except that a decode works through its batch one *)
(* ubatch at a time and can stop half way.                                 *)
(***************************************************************************)
EXTENDS KVLayout, Sequences

CONSTANTS
    Seqs,         \* the sequence ids
    AnySeq,       \* a negative seq_id: "match any sequence"
    Toks,         \* the tokens a batch can hold
    NoTok,        \* the contents of a zeroed row
    NUbatch,      \* cparams.n_ubatch
    Pad,          \* llama_kv_cache_get_padding
    FragMin,      \* smallest n at which fragmentation is measured (128)
    DefragThold,  \* cparams.defrag_thold in percent, negative = disabled
    Batches,      \* the batches a caller may decode
    Bounds,       \* the range ends p0 and p1 a caller may name
    Shifts,       \* the shifts a caller may ask for
    Divisors,     \* the divisors a caller may ask for
    MaxPos        \* bound: no shift beyond this position is explored

Row   == [tok : Toks \cup {NoTok}, rot : Int]
Entry == [pos : Nat, seqs : (SUBSET Seqs) \ {{}}, tok : Toks]

\* llama_kv_cache_seq_add and _div return at once for delta = 0 and d = 1
ASSUME CacheAssumption ==
    /\ NUbatch \in Nat \ {0} /\ Pad \in Nat \ {0}
    /\ FragMin \in Nat /\ DefragThold \in Int
ASSUME CallerAssumption ==
    /\ AnySeq \notin Seqs /\ NoTok \notin Toks
    /\ Batches \subseteq Seq(Entry) \ {<<>>}
    /\ Bounds \subseteq Int /\ Shifts \subseteq Int \ {0}
    /\ Divisors \subseteq Nat \ {0, 1} /\ MaxPos \in Nat

VARIABLES
    cache,  \* kv_self: the cells, and the rows they describe
    call    \* what is left of the batch of a running llama_decode

vars == <<cache, call>>

\* mutation: the range includes its end
WithinClosed(p, p0, p1) == p >= 0 /\ p >= p0 /\ (p1 < 0 \/ p <= p1)

\* p0 < 0 means [0, p1), p1 < 0 means [p0, inf)
Within(p, p0, p1) == p >= 0 /\ p >= p0 /\ (p1 < 0 \/ p < p1)

-----------------------------------------------------------------------------
(* The operations on the cells.                                            *)

Clear(c) ==
    [c EXCEPT !.pos  = [i \in Cells |-> -1],
              !.seqs = [i \in Cells |-> {}],
              !.row  = [i \in Cells |-> [tok |-> NoTok, rot |-> 0]],
              !.head = 0,
              !.used = 0]

\* "If we freed up a slot, set head to it so searching can start there."
HeadAfterFree(c, freed) ==
    IF freed # {} /\ Least(freed) < c.head THEN Least(freed) ELSE c.head

SeqRm(c, s, p0, p1) ==
    LET hit   == {i \in Cells : /\ Within(c.pos[i], p0, p1)
                                /\ s = AnySeq \/ s \in c.seqs[i]}
        left  == [i \in Cells |-> IF i \notin hit THEN c.seqs[i]
                                  ELSE IF s = AnySeq THEN {}
                                  ELSE c.seqs[i] \ {s}]
        freed == {i \in hit : left[i] = {}}
    IN  [c EXCEPT !.seqs = left,
                  !.pos  = [i \in Cells |-> IF i \in freed THEN -1 ELSE c.pos[i]],
                  !.used = c.used - Cardinality(freed),
                  !.head = HeadAfterFree(c, freed)]

SeqCp(c, src, dst, p0, p1) ==
    [c EXCEPT !.seqs = [i \in Cells |->
                          IF src \in c.seqs[i] /\ Within(c.pos[i], p0, p1)
                          THEN c.seqs[i] \cup {dst} ELSE c.seqs[i]],
              !.head = 0]

\* mutation: cells that were empty before are counted as freed
CountsAll(c, drop) == Cardinality(drop)

CountsTaken(c, drop) == Cardinality(drop \cap Taken(c))

SeqKeep(c, s) ==
    LET drop == {i \in Cells : s \notin c.seqs[i]}
    IN  [c EXCEPT !.seqs = [i \in Cells |-> IF i \in drop THEN {} ELSE {s}],
                  !.pos  = [i \in Cells |-> IF i \in drop THEN -1 ELSE c.pos[i]],
                  !.used = c.used - CountsTaken(c, drop),
                  !.head = HeadAfterFree(c, drop)]

\* An empty range returns before head is touched.
SeqAdd(c, s, p0, p1, d) ==
    LET hit   == {i \in Cells : s \in c.seqs[i] /\ Within(c.pos[i], p0, p1)}
        freed == {i \in hit : c.pos[i] + d < 0}
    IN  IF Greater(p0, 0) = p1 THEN c
        ELSE [c EXCEPT
                !.pos   = [i \in Cells |-> IF i \in freed THEN -1
                                           ELSE IF i \in hit THEN c.pos[i] + d
                                           ELSE c.pos[i]],
                !.delta = [i \in Cells |-> IF i \in hit THEN c.delta[i] + d
                                           ELSE c.delta[i]],
                !.seqs  = [i \in Cells |-> IF i \in freed THEN {} ELSE c.seqs[i]],
                !.used  = c.used - Cardinality(freed),
                !.head  = IF freed # {} THEN Least(freed) ELSE 0,
                !.hasShift = c.hasShift \/ hit # {}]

SeqDiv(c, s, p0, p1, d) ==
    LET hit == {i \in Cells : s \in c.seqs[i] /\ Within(c.pos[i], p0, p1)}
    IN  [c EXCEPT
           !.pos   = [i \in Cells |-> IF i \in hit THEN c.pos[i] \div d ELSE c.pos[i]],
           !.delta = [i \in Cells |-> IF i \in hit
                                      THEN c.delta[i] + c.pos[i] \div d - c.pos[i]
                                      ELSE c.delta[i]],
           !.hasShift = c.hasShift \/ hit # {}]

-----------------------------------------------------------------------------
(* The search for a slot.                                                  *)

CanPlace(c, k) == k <= Size /\ Windows(Taken(c), k) # {}

\* find_slot, found: the tokens of u get the cells from head on
Placed(c, u) ==
    LET h == SlotAt(Taken(c), c.head, Len(u))
        slot == h .. h + Len(u) - 1
    IN  [c EXCEPT
           !.pos  = [i \in Cells |-> IF i \in slot THEN u[i - h + 1].pos ELSE c.pos[i]],
           !.seqs = [i \in Cells |-> IF i \in slot
                                     THEN c.seqs[i] \cup u[i - h + 1].seqs
                                     ELSE c.seqs[i]],
           !.head = h,
           !.used = c.used + Len(u)]

\* find_slot, failed
Full(c, k) ==
    IF k > Size THEN c
    ELSE [c EXCEPT !.head = HeadWhenFull(Taken(c), c.head, k)]

-----------------------------------------------------------------------------
(* llama_kv_cache_update: the pending K-shift, then the defragmentation.   *)

\* mutation: the deltas are not reset
ShiftedTwice(c) ==
    IF ~c.hasShift THEN c
    ELSE [c EXCEPT !.row = [i \in Cells |->
                              [c.row[i] EXCEPT !.rot = @ + c.delta[i]]],
                   !.hasShift = FALSE]

Shifted(c) ==
    IF ~c.hasShift THEN c
    ELSE [c EXCEPT !.row = [i \in Cells |->
                              [c.row[i] EXCEPT !.rot = @ + c.delta[i]]],
                   !.delta = [i \in Cells |-> 0],
                   !.hasShift = FALSE]

\* The plan is unique; there is none when `used` is wrong, where the code
\* stops at the assertion "KV defrag bug: nf != nh".
Updates(c) ==
    LET s == Shifted(c)
    IN  IF s.doDefrag
        THEN {[Defragged(s, m) EXCEPT !.doDefrag = FALSE] :
                m \in {f \in [Holes(s) -> Movers(s)] : Plan(s, f)}}
        ELSE {s}

-----------------------------------------------------------------------------
(* llama_decode_internal, for one ubatch u.                                *)

\* "if we have enough unused cells before the current head"
Rewound(c, k) == IF c.head > c.used + 2 * k THEN [c EXCEPT !.head = 0] ELSE c

\* mutation: as many cells as are used
CellMaxUsed(c) == c.used

CellMax(c) == Cardinality({i \in Cells : \E j \in Live(c) : j >= i})

\* mutation: rounded up past the end of the cache
AttendedPadded(c) == Greater(Pad, ((CellMax(c) + Pad - 1) \div Pad) * Pad)

Attended(c) == Lesser(Size, Greater(Pad, ((CellMax(c) + Pad - 1) \div Pad) * Pad))

\* the graph writes the rows of the slot, then head moves past it
Computed(c, u) ==
    LET slot == c.head .. c.head + Len(u) - 1
        next == c.head + Len(u)
    IN  [c EXCEPT
           !.n    = Attended(c),
           !.row  = [i \in Cells |->
                       IF i \in slot
                       THEN [tok |-> u[i - c.head + 1].tok, rot |-> u[i - c.head + 1].pos]
                       ELSE c.row[i]],
           !.head = IF next >= Size THEN 0 ELSE next]

Fragmented(c) ==
    /\ DefragThold >= 0
    /\ c.n >= FragMin
    /\ 100 * (c.n - c.used) > DefragThold * c.n

\* "queue defragmentation for next llama_kv_cache_update"
Flagged(c) == IF Fragmented(c) THEN [c EXCEPT !.doDefrag = TRUE] ELSE c

-----------------------------------------------------------------------------
(* The calls.                                                              *)

Init ==
    /\ cache = [pos   |-> [i \in Cells |-> -1],
                delta |-> [i \in Cells |-> 0],
                seqs  |-> [i \in Cells |-> {}],
                row   |-> [i \in Cells |-> [tok |-> NoTok, rot |-> 0]],
                head  |-> 0, used |-> 0, n |-> 0,
                hasShift |-> FALSE, doDefrag |-> FALSE]
    /\ call = <<>>

Idle == call = <<>> /\ UNCHANGED call

CallClear == Idle /\ cache' = Clear(cache)

CallSeqRm ==
    /\ Idle
    /\ \E s \in Seqs \cup {AnySeq}, p0, p1 \in Bounds :
          cache' = SeqRm(cache, s, p0, p1)

CallSeqCp ==
    /\ Idle
    /\ \E src, dst \in Seqs, p0, p1 \in Bounds :
          src # dst /\ cache' = SeqCp(cache, src, dst, p0, p1)

CallSeqKeep == Idle /\ \E s \in Seqs : cache' = SeqKeep(cache, s)

CallSeqAdd ==
    /\ Idle
    /\ \E s \in Seqs, p0, p1 \in Bounds, d \in Shifts :
          /\ \A i \in Cells : cache.pos[i] + d <= MaxPos
          /\ cache' = SeqAdd(cache, s, p0, p1, d)

CallSeqDiv ==
    /\ Idle
    /\ \E s \in Seqs, p0, p1 \in Bounds, d \in Divisors :
          Greater(p0, 0) # p1 /\ cache' = SeqDiv(cache, s, p0, p1, d)

CallDefrag == Idle /\ cache' = [cache EXCEPT !.doDefrag = TRUE]

CallUpdate == Idle /\ cache' \in Updates(cache)

\* llama_decode is entered with a batch
DecodeBegin ==
    /\ call = <<>>
    /\ call' \in Batches
    /\ UNCHANGED cache

NextLen  == Lesser(NUbatch, Len(call))
Ubatch   == SubSeq(call, 1, NextLen)
Leftover == SubSeq(call, NextLen + 1, Len(call))

\* the next ubatch finds a slot and is computed; the last one ends the call
DecodeUbatch ==
    /\ call # <<>>
    /\ \E u \in Updates(cache) :
          LET c == Rewound(u, NextLen)
              d == Computed(Placed(c, Ubatch), Ubatch)
          IN  /\ CanPlace(c, NextLen)
              /\ cache' = IF Leftover = <<>> THEN Flagged(d) ELSE d
    /\ call' = Leftover

\* no slot: llama_decode returns 1, and what it placed before stays
DecodeFull ==
    /\ call # <<>>
    /\ \E u \in Updates(cache) :
          LET c == Rewound(u, NextLen)
          IN  ~CanPlace(c, NextLen) /\ cache' = Full(c, NextLen)
    /\ call' = <<>>

Next ==
    \/ CallClear \/ CallSeqRm \/ CallSeqCp \/ CallSeqKeep
    \/ CallSeqAdd \/ CallSeqDiv \/ CallDefrag \/ CallUpdate
    \/ DecodeBegin \/ DecodeUbatch \/ DecodeFull

Spec == Init /\ [][Next]_vars

-----------------------------------------------------------------------------
(* Properties.                                                             *)

Cache == [pos : [Cells -> Int], delta : [Cells -> Int],
          seqs : [Cells -> SUBSET Seqs], row : [Cells -> Row],
          head : 0 .. Size, used : 0 .. Size, n : 0 .. Size,
          hasShift : BOOLEAN, doDefrag : BOOLEAN]

\* The fields of llama_kv_cache stay in their ranges; in particular the
\* unsigned `used` never wraps below zero and head never passes size.
TypeOK == cache \in Cache /\ call \in Seq(Entry)

\* "used cells (i.e. at least one seq_id)": every operation keeps the counter
\* equal to the number of cells with a sequence, and a cell has a position
\* exactly when it has a sequence.  The defragmentation relies on both.
UsedExact ==
    /\ Live(cache) = Taken(cache)
    /\ \A i \in Cells : cache.pos[i] >= -1
    /\ cache.used = Cardinality(Live(cache))

\* The K row of a live cell is rotated to the position of the cell, up to
\* the shift still pending on it, and an unflagged cache has none pending:
\* no call sequence leaves a row that a later K-shift would rotate wrongly.
RowsCoherent ==
    /\ \A i \in Live(cache) :
          /\ cache.row[i].tok \in Toks
          /\ cache.row[i].rot + cache.delta[i] = cache.pos[i]
    /\ ~cache.hasShift => \A i \in Cells : cache.delta[i] = 0

\* A defragmentation always finds as many cells to move as there are holes
\* before `used`: GGML_ASSERT(nf == nh) in llama_kv_cache_defrag_internal.
DefragHasPlan == \A s \in {Shifted(cache)} :
    Cardinality(Holes(s)) = Cardinality(Movers(s))

\* The n cells a decode attends to cover every live cell, the ones it has
\* just placed included.
AttendsAll ==
    [][DecodeUbatch => \A i \in Live(cache') : i < cache'.n]_vars

\* What is stored: the tokens with their positions and sequences, wherever
\* they lie.
Stored == {[pos |-> cache.pos[i], seqs |-> cache.seqs[i], tok |-> cache.row[i].tok] :
             i \in Live(cache)}

Store == INSTANCE SeqStore WITH store <- Stored, pending <- call

\* The layout is invisible: the cache implements a set of tokens in which
\* searching, shifting rows and defragmenting do not show.
ImplementsStore == Store!Spec

=============================================================================
