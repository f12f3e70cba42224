----------------------------- MODULE Recurrent -----------------------------
(***************************************************************************)
(* The cache of a recurrent model (Mamba): cell s keeps the one state of   *)
(* sequence s.  llama_kv_cache_seq_cp only notes where the state is to be  *)
(* copied from; the next update copies all of them at once.  A cell that   *)
(* does not hold its own sequence is cleared when a batch next covers it.  *)
(*                                                                         *)
(* A state stands for the sequence of tokens it was computed from.         *)
(* cache.used is left out: nothing here reads it.                          *)
(***************************************************************************)
EXTENDS Integers, Sequences

CONSTANTS
    NCells,    \* cache.size
    Tokens,
    Batches,   \* sequences of tokens [tok, seqs], with the sequences each is part of
    Ranges,    \* the pairs p0, p1 given to seq_rm
    MaxPos,    \* bound: no position above, and no longer history
    AnyChain   \* whether seq_cp is also called when ~Linked

ASSUME RecurrentAssumption ==
    /\ NCells \in Nat \ {0} /\ MaxPos \in Nat
    /\ Batches \subseteq Seq([tok : Tokens, seqs : Seq(Nat)])
    /\ Ranges \subseteq Int \X Int

VARIABLES
    pos, has,   \* cell.pos, and whether cell.seq_id holds the cell's own number
    src,        \* cell.src
    do_copy,
    rows,       \* the states in k_l, v_l
    hist        \* (not in the code) the tokens each sequence was given

rvars == <<pos, has, src, do_copy, rows, hist>>

Seqs == 0 .. NCells - 1

\* llama_kv_cache_init
RInit ==
    /\ pos = [s \in Seqs |-> -1] /\ has = [s \in Seqs |-> FALSE]
    /\ src = [s \in Seqs |-> s] /\ do_copy = FALSE
    /\ rows = [s \in Seqs |-> <<>>]
    /\ hist = [s \in Seqs |-> <<>>]

\* llama_set_s_copy and build_s_copy
Updated == [s \in Seqs |-> rows[src[s]]]

Copied == src' = [s \in Seqs |-> s] /\ do_copy' = FALSE

\* llama_kv_cache_update
Update ==
    /\ do_copy
    /\ rows' = Updated /\ Copied
    /\ UNCHANGED <<pos, has, hist>>

----------------------------------------------------------------------------
(* llama_decode of a batch, which begins with an update.                   *)

Members(t) == {t.seqs[l] : l \in DOMAIN t.seqs}

SeqsOf(b) == UNION {Members(b[j]) : j \in DOMAIN b}

\* What the tokens of a batch leave of each sequence: the tokens it ends with
\* and the sequence they continue.  A token of several sequences continues the
\* first.
Apart == [s \in Seqs |-> [from |-> s, toks |-> <<>>]]

Joined(g, t) ==
    [s \in Seqs |-> IF s \in Members(t)
                    THEN [from |-> g[t.seqs[1]].from, toks |-> Append(g[t.seqs[1]].toks, t.tok)]
                    ELSE g[s]]

Trace(b) ==
    LET g[j \in 0 .. Len(b)] == IF j = 0 THEN Apart ELSE Joined(g[j-1], b[j])
    IN  g[Len(b)]

\* the positions a caller gives, and find_slot notes
Placed(b) == [s \in Seqs |-> pos[Trace(b)[s].from] + Len(Trace(b)[s].toks)]

Fed(f, b) == [s \in Seqs |-> f[Trace(b)[s].from] \o Trace(b)[s].toks]

\* the cells from head to head + n
Covered(b) == {s \in Seqs : \E x, y \in SeqsOf(b) : x <= s /\ s <= y}

\* inp_s_mask
Masked(r, b) == [s \in Seqs |-> IF s \in Covered(b) /\ ~has[s] THEN <<>> ELSE r[s]]

\* "if a token in the batch has multiple sequences, they are assumed to be
\* equivalent"
Equivalent(b) ==
    \A j \in DOMAIN b : \A s, t \in Members(b[j]) : hist[s] = hist[t] /\ pos[s] = pos[t]

Decode(b) ==
    /\ SeqsOf(b) \subseteq Seqs /\ Equivalent(b)
    /\ \A s \in Seqs : Placed(b)[s] <= MaxPos /\ Len(Fed(hist, b)[s]) <= MaxPos + 1
    /\ pos' = Placed(b)
    /\ has' = [s \in Seqs |-> has[s] \/ (s \in Covered(b) /\ pos'[s] >= 0)]
    /\ rows' = Fed(Masked(IF do_copy THEN Updated ELSE rows, b), b)
    /\ Copied
    /\ hist' = Fed(hist, b)

FirstBad(t) ==
    CHOOSE l \in DOMAIN t.seqs : t.seqs[l] \notin Seqs /\ \A m \in 1 .. l - 1 : t.seqs[m] \in Seqs

\* The sequences before the first that is too big; find_slot returns false
\* there, and leaves the positions it has noted.
Begun(b) ==
    LET bad == CHOOSE j \in DOMAIN b :
                  ~ Members(b[j]) \subseteq Seqs /\ SeqsOf(SubSeq(b, 1, j - 1)) \subseteq Seqs
    IN  [j \in 1 .. bad |->
           IF j < bad THEN b[j]
           ELSE [b[j] EXCEPT !.seqs = SubSeq(@, 1, FirstBad(b[j]) - 1)]]

DecodeTooBig(b) ==
    /\ ~ SeqsOf(b) \subseteq Seqs
    /\ \A s \in Seqs : Placed(Begun(b))[s] <= MaxPos
    /\ pos' = Placed(Begun(b))
    /\ rows' = (IF do_copy THEN Updated ELSE rows) /\ Copied
    /\ UNCHANGED <<has, hist>>

----------------------------------------------------------------------------
(* The calls on sequences.                                                 *)

From(p0) == IF p0 < 0 THEN 0 ELSE p0
To(p1) == IF p1 < 0 THEN MaxPos + 1 ELSE p1

\* "partial intersection is invalid"
Partly(s, p0, p1) == (0 < p0 /\ p0 <= pos[s]) \/ (0 < p1 /\ p1 <= pos[s])

Erase(S) ==
    /\ has' = [s \in Seqs |-> has[s] /\ s \notin S]
    /\ pos' = [s \in Seqs |-> IF s \in S THEN -1 ELSE pos[s]]
    /\ UNCHANGED <<src, do_copy, rows>>

\* seq_rm of one sequence, when it does not return false
SeqRm(s, p0, p1) ==
    /\ ~Partly(s, p0, p1)
    /\ Erase(IF has[s] /\ From(p0) <= pos[s] /\ pos[s] < To(p1) THEN {s} ELSE {})
    /\ hist' = [hist EXCEPT ![s] = IF From(p0) = 0 /\ To(p1) > 0 THEN <<>> ELSE @]

\* seq_rm of all sequences; the range is everything, or nothing
RmAll ==
    /\ Erase({s \in Seqs : pos[s] >= 0})
    /\ hist' = [s \in Seqs |-> <<>>]

\* llama_kv_cache_clear leaves the pending copies as they are
Clear ==
    /\ pos' = [s \in Seqs |-> -1] /\ has' = [s \in Seqs |-> FALSE]
    /\ rows' = [s \in Seqs |-> <<>>]
    /\ hist' = [s \in Seqs |-> <<>>]
    /\ UNCHANGED <<src, do_copy>>

\* The cell that the state of s is to come from still tells whether there is one.
Linked(s) == has[src[s]] = has[s] /\ pos[src[s]] = pos[s]

\* mutation: the copy is taken from the source's cell, not from where it is to come from
SourceItself(s) == s

Source(s) == src[s]

SeqCp(s, d) ==
    /\ AnyChain \/ Linked(s)
    /\ src' = [src EXCEPT ![d] = Source(s)]
    /\ do_copy' = TRUE
    /\ has' = [has EXCEPT ![d] = has[Source(s)]]
    /\ pos' = [pos EXCEPT ![d] = pos[Source(s)]]
    /\ hist' = [hist EXCEPT ![d] = hist[s]]
    /\ UNCHANGED rows

SeqKeep(s) ==
    /\ Erase({q \in Seqs : ~(has[q] /\ q = s)})
    /\ hist' = [q \in Seqs |-> IF q = s THEN hist[s] ELSE <<>>]

\* seq_add and seq_div change the position only; what is not there stays as it is
SeqAdd(s, delta) ==
    /\ has[s] /\ pos[s] + delta \in 0 .. MaxPos
    /\ pos' = [pos EXCEPT ![s] = @ + delta]
    /\ UNCHANGED <<has, src, do_copy, rows, hist>>

SeqDiv(s, d) ==
    /\ has[s] /\ pos[s] >= d
    /\ pos' = [pos EXCEPT ![s] = @ \div d]
    /\ UNCHANGED <<has, src, do_copy, rows, hist>>

RNext ==
    \/ Update \/ RmAll \/ Clear
    \/ \E b \in Batches : Decode(b) \/ DecodeTooBig(b)
    \/ \E s \in Seqs :
          \/ \E r \in Ranges : SeqRm(s, r[1], r[2])
          \/ \E d \in Seqs : SeqCp(s, d)
          \/ SeqKeep(s)
          \/ \E delta \in {-1, 1} : SeqAdd(s, delta)
          \/ SeqDiv(s, 2)

RSpec == RInit /\ [][RNext]_rvars

----------------------------------------------------------------------------

\* The state a batch would continue: that of the cell the state is to come
\* from, or none.
State(s) == IF has[s] THEN rows[src[s]] ELSE <<>>

\* Through pending copies and chains of them, removals in between, batches
\* that pass over sequences, and batches that are refused, each sequence
\* continues from the tokens it was given (llama_kv_cache_seq_cp and the
\* others; "supports copy chains thanks to taking the source of the source").
StatesFollow == \A s \in Seqs : State(s) = hist[s]

=============================================================================
