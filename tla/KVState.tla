------------------------------ MODULE KVState ------------------------------
(***************************************************************************)
(* Saving and restoring the KV cache: write_kv_cache and read_kv_cache of  *)
(* src/llama.cpp, behind llama_state_get/set_data (the whole cache) and    *)
(* llama_state_seq_get/set_data (one sequence).                            *)
(*                                                                         *)
(* A snapshot keeps the cells in index order with their position, their    *)
(* sequences (the whole cache only) and their row.  A snapshot file can be *)
(* cut short; reading it then throws, and the exception passes by the      *)
(* cleanup of read_kv_cache.                                               *)
(***************************************************************************)
EXTENDS KVCache

CONSTANTS
    Settled,   \* callers apply pending shifts before they save or restore
    Cut,       \* the kinds of snapshot that may be cut short: "seq", "all"
    MaxDelta   \* bound: no larger pending shift is explored

ASSUME StateAssumption ==
    Settled \in BOOLEAN /\ Cut \subseteq {"seq", "all"} /\ MaxDelta \in Nat

VARIABLES
    snap,     \* the snapshot last saved: whether of all sequences, its cells, and
              \* (not in the file) what each sequence is to hold when it is restored
    ended     \* a restore has run into a GGML_ASSERT, or has thrown

svars == <<cache, call, snap, ended>>

SInit ==
    /\ Init
    /\ snap = [all |-> TRUE, cells |-> <<>>, held |-> [s \in Seqs |-> {}]]
    /\ ended = FALSE

\* A behaviour is not followed past a restore that has failed half way.
Alive == ~ended

Ready == Alive /\ call = <<>> /\ (Settled => ~cache.hasShift)

\* one of the calls of KVCache
OtherCall ==
    /\ Alive /\ Next
    /\ \A i \in Cells : cache'.delta[i] \in -MaxDelta .. MaxDelta
    /\ UNCHANGED <<snap, ended>>

\* what sequence s holds: tokens at positions
Holds(c, s) == {<<c.pos[i], c.row[i].tok>> : i \in {j \in Cells : s \in c.seqs[j]}}

-----------------------------------------------------------------------------
(* write_kv_cache.                                                         *)

Order(S) == CHOOSE f \in [1 .. Cardinality(S) -> S] :
               \A j, k \in DOMAIN f : j < k => f[j] < f[k]

\* mutation: the sequences are never written
WrittenAgnostic(c, S, all) ==
    [j \in 1 .. Cardinality(S) |->
       [pos |-> c.pos[Order(S)[j]], seqs |-> {}, row |-> c.row[Order(S)[j]]]]

Written(c, S, all) ==
    [j \in 1 .. Cardinality(S) |->
       LET i == Order(S)[j]
       IN  [pos |-> c.pos[i], seqs |-> IF all THEN c.seqs[i] ELSE {}, row |-> c.row[i]]]

SaveSeq ==
    /\ Ready
    /\ \E s \in Seqs :
          LET S == {i \in Cells : s \in cache.seqs[i]}
          IN  snap' = [all |-> FALSE, cells |-> Written(cache, S, FALSE),
                       held |-> [d \in Seqs |-> Holds(cache, s)]]
    /\ UNCHANGED <<cache, call, ended>>

SaveAll ==
    /\ Ready
    /\ snap' = [all |-> TRUE, cells |-> Written(cache, Live(cache), TRUE),
                held |-> [s \in Seqs |-> Holds(cache, s)]]
    /\ UNCHANGED <<cache, call, ended>>

-----------------------------------------------------------------------------
(* read_kv_cache, one sequence.  The sequence goes first, whatever follows. *)

\* mutation: every sequence goes
EmptiedAll(d) == SeqRm(cache, AnySeq, -1, -1)

Emptied(d) == SeqRm(cache, d, -1, -1)

\* the tokens of the snapshot, as the batch given to find_slot
Tokens(d) == [j \in DOMAIN snap.cells |->
                [pos |-> snap.cells[j].pos, seqs |-> {d}]]

\* mutation: the rows go where the next search would begin
RowsBehind(c, h) ==
    [c EXCEPT !.row = [i \in Cells |->
        IF i \in h + 1 .. h + Len(snap.cells) THEN snap.cells[i - h].row ELSE @[i]]]

WithRows(c, h) ==
    [c EXCEPT !.row = [i \in Cells |->
        IF i \in h .. h + Len(snap.cells) - 1 THEN snap.cells[i - h + 1].row ELSE @[i]]]

Restoring(d) == Ready /\ ~snap.all /\ d \in Seqs

LoadSeq ==
    /\ \E d \in Seqs :
          /\ Restoring(d) /\ snap.cells # <<>>
          /\ CanPlace(Emptied(d), Len(snap.cells))
          /\ LET c == Placed(Emptied(d), Tokens(d)) IN cache' = WithRows(c, c.head)
    /\ UNCHANGED <<call, snap, ended>>

\* no slot: the sequence is removed (again) and the call fails
LoadSeqFull ==
    /\ \E d \in Seqs :
          /\ Restoring(d) /\ snap.cells # <<>>
          /\ ~CanPlace(Emptied(d), Len(snap.cells))
          /\ cache' = SeqRm(Full(Emptied(d), Len(snap.cells)), d, -1, -1)
    /\ UNCHANGED <<call, snap, ended>>

\* no cells: find_slot succeeds, and the debug checks that follow look for
\* the sequence in a cell it has just been removed from
LoadSeqEmpty ==
    /\ \E d \in Seqs : Restoring(d) /\ snap.cells = <<>> /\ cache' = Emptied(d)
    /\ ended' = TRUE
    /\ UNCHANGED <<call, snap>>

\* the file ends among the cells, or among the rows of cells already placed
LoadSeqCut ==
    /\ "seq" \in Cut
    /\ \E d \in Seqs :
          /\ Restoring(d) /\ snap.cells # <<>>
          /\ \/ cache' = Emptied(d)
             \/ /\ CanPlace(Emptied(d), Len(snap.cells))
                /\ cache' = Placed(Emptied(d), Tokens(d))
    /\ ended' = TRUE
    /\ UNCHANGED <<call, snap>>

-----------------------------------------------------------------------------
(* read_kv_cache, the whole cache: cleared, then filled from cell 0.       *)

\* the first k cells of the snapshot have been read
Filled(k) ==
    LET c == Clear(cache)
    IN  [c EXCEPT
           !.pos  = [i \in Cells |-> IF i < k THEN snap.cells[i + 1].pos ELSE @[i]],
           !.seqs = [i \in Cells |-> IF i < k THEN snap.cells[i + 1].seqs ELSE @[i]]]

FilledAll(k) == [Filled(k) EXCEPT !.used = k]

LoadAll ==
    /\ Ready /\ snap.all
    /\ cache' = WithRows(FilledAll(Len(snap.cells)), 0)
    /\ UNCHANGED <<call, snap, ended>>

LoadAllCut ==
    /\ Ready /\ snap.all /\ "all" \in Cut
    /\ \/ \E k \in 0 .. Len(snap.cells) - 1 : cache' = Filled(k)
       \/ cache' = FilledAll(Len(snap.cells))
    /\ ended' = TRUE
    /\ UNCHANGED <<call, snap>>

SNext ==
    \/ OtherCall \/ SaveSeq \/ SaveAll
    \/ LoadSeq \/ LoadSeqFull \/ LoadSeqEmpty \/ LoadSeqCut
    \/ LoadAll \/ LoadAllCut

SSpec == SInit /\ [][SNext]_svars

-----------------------------------------------------------------------------
OthersKept(d) == \A s \in Seqs \ {d} : Holds(cache', s) = Holds(cache, s)

\* "Copy the KV cache of a single sequence": a restored sequence holds what
\* was saved, and a restore that finds no room leaves it empty rather than
\* half filled.  However a restore ends, no other sequence changes.
RestoresSequence ==
    [][/\ LoadSeq => \E d \in Seqs : Holds(cache', d) = snap.held[d] /\ OthersKept(d)
       /\ LoadSeqFull => \E d \in Seqs : Holds(cache', d) = {} /\ OthersKept(d)
       /\ LoadSeqEmpty \/ LoadSeqCut => \E d \in Seqs : OthersKept(d)]_svars

\* As in KVCache, every live cell has its row, at the cell's position but for
\* the pending delta, also after restores, as long as none was cut short among
\* the rows.
RowsRestored == ended \/ RowsCoherent

\* `used` stays exact, however a restore of one sequence ends; only a restore
\* of the whole cache that is cut short may leave it wrong.
UsedRestored == UsedExact \/ (ended /\ snap.all)

\* Both: what restores leave is a cache that other calls can work on.
CacheRestored == RowsRestored /\ UsedRestored

\* A restored cache holds for each sequence what it held when it was saved.
RestoresAll ==
    [][LoadAll => \A s \in Seqs : Holds(cache', s) = snap.held[s]]_svars

=============================================================================
