------------------------------- MODULE Merges -------------------------------
(***************************************************************************)
(* The tokenizers that merge (SPM and BPE): a text is a chain of symbols,  *)
(* at first its characters; a queue holds pairs of neighbours that form a  *)
(* token, the best first.  A merge makes other pairs of the queue stale,   *)
(* which are not removed but skipped when they come up.                    *)
(*                                                                         *)
(* Splitting a text into words, and the ids of the pieces, are left out.   *)
(***************************************************************************)
EXTENDS Integers, Sequences, FiniteSetsExt, SequencesExt

CONSTANTS
    Vocabs,    \* [type, rank]: rank gives pairs of texts their rank, the lowest best
    Texts

VARIABLES
    vocab, text,
    symbols,      \* prev, next, first character and number of characters
    work_queue

mvars == <<vocab, text, symbols, work_queue>>

Of(x, sym) == SubSeq(x, sym.at, sym.at + sym.n - 1)

\* try_add_bigram of the SPM tokenizer, add_new_bigram of the other; -1 is
\* the end of the chain
Bigrams(x, syms, v, left, right) ==
    LET pair == <<Of(x, syms[left]), Of(x, syms[right])>>
    IN  IF left = -1 \/ right = -1 THEN {}
        ELSE IF pair \notin DOMAIN v.rank THEN {}
        ELSE {[left |-> left, right |-> right, rank |-> v.rank[pair], text |-> pair[1] \o pair[2]]}

MInit ==
    /\ vocab \in Vocabs /\ text \in Texts
    /\ symbols = [k \in 1 .. Len(text) |->
                     [prev |-> IF k = 1 THEN -1 ELSE k - 1,
                      next |-> IF k = Len(text) THEN -1 ELSE k + 1, at |-> k, n |-> 1]]
    /\ work_queue = UNION {Bigrams(text, symbols, vocab, k - 1, k) : k \in 2 .. Len(text)}

\* the top of the priority queue: the lowest rank, and of those the leftmost
Top == {b \in work_queue : \A c \in work_queue :
            b.rank < c.rank \/ (b.rank = c.rank /\ b.left <= c.left)}

\* mutation: only a symbol that is gone makes a pair stale
StaleGone(b) == symbols[b.left].n = 0 \/ symbols[b.right].n = 0

\* one of them is gone, or has grown: SPM compares the lengths, BPE the texts
Stale(b) ==
    LET l == symbols[b.left]
        r == symbols[b.right]
    IN  \/ l.n = 0 \/ r.n = 0
        \/ IF vocab.type = "spm" THEN l.n + r.n # Len(b.text)
           ELSE Of(text, l) \o Of(text, r) # b.text

Skip(b) ==
    /\ Stale(b)
    /\ work_queue' = work_queue \ {b}
    /\ UNCHANGED <<vocab, text, symbols>>

\* the right symbol is taken out of the chain, and the new neighbours queue up
Merge(b) ==
    LET l == symbols[b.left]
        r == symbols[b.right]
        merged == [symbols EXCEPT ![b.left].n = l.n + r.n, ![b.left].next = r.next,
                                  ![b.right].n = 0]
        linked == IF r.next = -1 THEN merged ELSE [merged EXCEPT ![r.next].prev = b.left]
    IN  /\ ~Stale(b)
        /\ symbols' = linked
        /\ work_queue' = (work_queue \ {b})
                           \cup Bigrams(text, linked, vocab, l.prev, b.left)
                           \cup Bigrams(text, linked, vocab, b.left, r.next)
        /\ UNCHANGED <<vocab, text>>

MDone == work_queue = {} /\ UNCHANGED mvars

MNext == (\E b \in Top : Skip(b) \/ Merge(b)) \/ MDone

MSpec == MInit /\ [][MNext]_mvars

----------------------------------------------------------------------------

\* the texts from symbol k on, along the chain
Chain ==
    LET C[k \in {-1} \cup DOMAIN symbols] ==
            IF k = -1 THEN <<>> ELSE <<Of(text, symbols[k])>> \o C[symbols[k].next]
    IN  IF text = <<>> THEN <<>> ELSE C[1]

\* SPM follows the chain, BPE takes the symbols that are not empty
Pieces ==
    IF vocab.type = "spm" THEN Chain
    ELSE LET left == SelectSeq(symbols, LAMBDA s : s.n > 0)
         IN  [k \in DOMAIN left |-> Of(text, left[k])]

\* The definition: while two neighbours form a token, merge those with the
\* best rank, the leftmost first.
BestMerged(p) ==
    LET ok   == {k \in 1 .. Len(p) - 1 : <<p[k], p[k + 1]>> \in DOMAIN vocab.rank}
        rank(k) == vocab.rank[<<p[k], p[k + 1]>>]
        best == Min({k \in ok : \A m \in ok : rank(k) <= rank(m)})
    IN  IF ok = {} THEN p
        ELSE SubSeq(p, 1, best - 1) \o <<p[best] \o p[best + 1]>> \o SubSeq(p, best + 2, Len(p))

Greedy == FoldLeft(LAMBDA p, k : BestMerged(p), [k \in DOMAIN text |-> <<text[k]>>], text)

\* When the queue is empty the pieces are those of the definition: stale pairs
\* neither merge what has changed nor hide a merge, and none is missed.
MergesGreedily == work_queue = {} => Pieces = Greedy

=============================================================================
