------------------------------ MODULE SeqStore ------------------------------
(***************************************************************************)
(* What llama.h promises of the KV cache of a transformer context, without *)
(* cells: a set of tokens, each with a position and the sequences it       *)
(* belongs to.  KVCache implements it.                                     *)
(***************************************************************************)
EXTENDS Integers, Sequences, FiniteSets

CONSTANTS Size, Seqs, AnySeq, Batches, Bounds, Shifts, Divisors

VARIABLES
    store,    \* the tokens in the cache: [pos, seqs, tok]
    pending   \* the tokens a running decode has still to add

svars == <<store, pending>>

Init == store = {} /\ pending = <<>>

Ready == pending = <<>> /\ UNCHANGED pending

\* p0 < 0 : [0, p1),  p1 < 0 : [p0, inf)
In(e, p0, p1) == e.pos >= p0 /\ (p1 < 0 \/ e.pos < p1)

Erase == Ready /\ store' = {}

\* "Removes all tokens that belong to the specified sequence and have
\* positions in [p0, p1)"
Remove(s, p0, p1) ==
    LET out(e)  == In(e, p0, p1) /\ (s = AnySeq \/ s \in e.seqs)
        left(e) == IF s = AnySeq THEN {} ELSE e.seqs \ {s}
    IN  /\ Ready
        /\ store' = {e \in store : ~out(e)} \cup
                    {[e EXCEPT !.seqs = left(e)] : e \in {f \in store : out(f) /\ left(f) # {}}}

\* "it simply assigns the tokens to the new sequence"
Assign(src, dst, p0, p1) ==
    /\ Ready
    /\ store' = {IF src \in e.seqs /\ In(e, p0, p1)
                 THEN [e EXCEPT !.seqs = @ \cup {dst}] ELSE e : e \in store}

\* "Removes all tokens that do not belong to the specified sequence"
Keep(s) ==
    /\ Ready
    /\ store' = {[e EXCEPT !.seqs = {s}] : e \in {f \in store : s \in f.seqs}}

\* "Adds relative position delta to all tokens that belong to the specified
\* sequence"; a token pushed below position 0 is dropped
Shift(s, p0, p1, d) ==
    LET hit(e) == s \in e.seqs /\ In(e, p0, p1)
    IN  /\ Ready
        /\ store' = {e \in store : ~hit(e)} \cup
                    {[e EXCEPT !.pos = @ + d] : e \in {f \in store : hit(f) /\ f.pos + d >= 0}}

\* "Integer division of the positions by factor of d > 1"
Divide(s, p0, p1, d) ==
    /\ Ready
    /\ store' = {IF s \in e.seqs /\ In(e, p0, p1)
                 THEN [e EXCEPT !.pos = @ \div d] ELSE e : e \in store}

Begin == pending = <<>> /\ pending' \in Batches /\ UNCHANGED store

\* a decode adds the tokens of its batch in order, a part at a time
Extend ==
    \E k \in 1 .. Len(pending) :
      /\ store' = store \cup {pending[j] : j \in 1 .. k}
      /\ Cardinality(store') <= Size
      /\ pending' = SubSeq(pending, k + 1, Len(pending))

\* or gives up for want of space
GiveUp == pending # <<>> /\ pending' = <<>> /\ UNCHANGED store

Next ==
    \/ Erase
    \/ \E s \in Seqs \cup {AnySeq}, p0, p1 \in Bounds : Remove(s, p0, p1)
    \/ \E src, dst \in Seqs, p0, p1 \in Bounds : Assign(src, dst, p0, p1)
    \/ \E s \in Seqs : Keep(s)
    \/ \E s \in Seqs, p0, p1 \in Bounds, d \in Shifts : Shift(s, p0, p1, d)
    \/ \E s \in Seqs, p0, p1 \in Bounds, d \in Divisors : Divide(s, p0, p1, d)
    \/ Begin \/ Extend \/ GiveUp

Spec == Init /\ [][Next]_svars

=============================================================================
