---------------------------- MODULE Speculative ----------------------------
(***************************************************************************)
(* examples/speculative/speculative.cpp: a small model drafts a tree of    *)
(* tokens, one branch per sequence; the target model evaluates the tree in *)
(* one batch, and the branch that agrees with it is kept.                  *)
(*                                                                         *)
(* The two KV caches are what SeqStore promises: tokens with positions and *)
(* sequences.  A token keeps the text it was computed on, its own last, so *)
(* that what the models sample from can be compared with what was put out. *)
(* Both models may give any token; the caches are large enough.            *)
(***************************************************************************)
EXTENDS Integers, Sequences, FiniteSets, SequencesExt, FiniteSetsExt

CONSTANTS
    Vocab,
    NSeqs,      \* the most branches
    NDraft,     \* n_draft
    NPredict,   \* params.n_predict
    Modes       \* [stochastic, n_seq_dft]: whether temp > 0, and the branches

VARIABLES
    mode,
    pc, out,                    \* out: the prompt and the tokens put out
    tgt, dft,                   \* the two caches
    rows_tgt, rows_dft,         \* the outputs of the last decodes
    drafts, active_seqs,
    batch_tgt, batch_dft,
    n_past_tgt, n_past_dft, n_past_cur, n_seq_cur,
    i, s,                       \* in the draft, its length and the sequence
    i_dft, s_keep               \* in the verification

caches == <<tgt, dft, rows_tgt, rows_dft>>
draft  == <<batch_tgt, batch_dft, n_past_cur, n_seq_cur, i, s>>
verify == <<i_dft, s_keep, active_seqs>>
past   == <<n_past_tgt, n_past_dft>>
spvars == <<mode, pc, out, caches, drafts, draft, verify, past>>

SeqIds == 0 .. NSeqs - 1

----------------------------------------------------------------------------
(* The calls of llama.h.                                                   *)

Kept(C, a) == {[c EXCEPT !.seqs = {a}] : c \in {d \in C : a \in d.seqs}}

CopiedTo(C, a, b) == {IF a \in c.seqs THEN [c EXCEPT !.seqs = @ \cup {b}] ELSE c : c \in C}

RemovedFrom(C, a, p) ==
    {c \in {IF d.pos >= p THEN [d EXCEPT !.seqs = @ \ {a}] ELSE d : d \in C} : c.seqs # {}}

\* The text before position p of sequence a, if each position has one token
\* that was computed on those before it.
Text(C, a, p) ==
    LET at(q) == {c \in C : a \in c.seqs /\ c.pos = q}
        one   == \A q \in 0 .. p - 1 : Cardinality(at(q)) = 1
        h(q)  == (CHOOSE c \in at(q) : TRUE).text
    IN  IF p = 0 THEN <<>>
        ELSE IF /\ one /\ at(p) = {}
                /\ \A q \in 0 .. p - 1 : Len(h(q)) = q + 1 /\ IsPrefix(h(q), h(p - 1))
             THEN h(p - 1) ELSE <<"mixed">>

\* a token is computed for the first of its sequences
Entry(C, t) == [pos |-> t.pos, seqs |-> ToSet(t.seqs), text |-> Append(Text(C, t.seqs[1], t.pos), t.tok)]

\* the cache after each token of a batch
Decoding(C, batch) ==
    LET D[j \in 0 .. Len(batch)] ==
          IF j = 0 THEN C ELSE LET E == D[j - 1] IN E \cup {Entry(E, batch[j])}
    IN  D

Decoded(C, batch) == Decoding(C, batch)[Len(batch)]

\* the token of the batch each row of the output belongs to, by what it saw
Rows(C, batch) ==
    LET D == Decoded(C, batch)
    IN  [j \in DOMAIN batch |-> Entry({c \in D : c.pos < batch[j].pos}, batch[j]).text]

Token(tok, p, a) == [tok |-> tok, pos |-> p, seqs |-> <<a>>]

NoDraft == [active |-> FALSE, drafting |-> FALSE, skip |-> FALSE,
            tokens |-> <<>>, i_batch_tgt |-> <<>>, i_batch_dft |-> 0]

\* the prompt, which both models have evaluated
Prompt == <<"prompt">>
Start == Decoded({}, <<Token("prompt", 0, 0)>>)

Evaluated ==
    /\ out = Prompt
    /\ tgt = Start /\ dft = Start /\ rows_tgt = <<Prompt>> /\ rows_dft = <<Prompt>>
    /\ drafts = [a \in SeqIds |-> IF a = 0 THEN [NoDraft EXCEPT !.i_batch_tgt = <<0>>] ELSE NoDraft]
    /\ active_seqs = {} /\ batch_tgt = <<>> /\ batch_dft = <<>>
    /\ n_past_tgt = 1 /\ n_past_dft = 1 /\ n_past_cur = 1 /\ n_seq_cur = 1
    /\ i = 0 /\ s = 0 /\ i_dft = 0 /\ s_keep = 0

SpInit == mode \in Modes /\ pc = "verify" /\ Evaluated

----------------------------------------------------------------------------
(* Verification.                                                           *)

Drafted(a) == i_dft < Len(drafts[a].tokens)
TokenOf(a) == drafts[a].tokens[i_dft + 1]

Put(tok) == out' = Append(out, tok)

Accepted(a) ==
    /\ s_keep' = a /\ i_dft' = i_dft + 1
    /\ n_past_tgt' = n_past_tgt + 1 /\ n_past_dft' = n_past_dft + 1
    /\ UNCHANGED pc

RunOut == pc' = "keep" /\ UNCHANGED <<s_keep, i_dft, past>>

Matching(tok) == {a \in SeqIds : drafts[a].active /\ Drafted(a) /\ TokenOf(a) = tok}

\* the target's token, and the last of the branches that have it
Greedy ==
    /\ pc = "verify" /\ ~mode.stochastic
    /\ \E tok \in Vocab :
          /\ Put(tok)
          /\ drafts' = [a \in SeqIds |-> [drafts[a] EXCEPT !.active = a \in Matching(tok)]]
          /\ IF Matching(tok) # {} THEN Accepted(Max(Matching(tok))) ELSE RunOut
    /\ UNCHANGED <<caches, draft, active_seqs>>

\* One branch, taken at random, is accepted, rejected, or has no more tokens.
\* (That drafts.active is cleared too has no effect here.)
TryBranch ==
    /\ pc = "verify" /\ mode.stochastic
    /\ \E a \in active_seqs :
          \/ /\ Drafted(a) /\ Put(TokenOf(a)) /\ Accepted(a) /\ UNCHANGED active_seqs
          \/ /\ active_seqs' = active_seqs \ {a}
             /\ UNCHANGED <<pc, out, s_keep, i_dft, past>>
    /\ UNCHANGED <<caches, draft, drafts>>

NoBranch ==
    /\ pc = "verify" /\ mode.stochastic /\ active_seqs = {}
    /\ \E tok \in Vocab : Put(tok)
    /\ RunOut
    /\ UNCHANGED <<caches, draft, drafts, active_seqs>>

----------------------------------------------------------------------------
(* The branch that is kept becomes sequence 0 of both caches, without what *)
(* was not accepted; the draft model evaluates the last token.             *)

OnlyZero(C) == Kept(CopiedTo(Kept(C, s_keep), s_keep, 0), 0)

\* mutation: the rejected tokens stay in the target's cache
KeptAll == OnlyZero(tgt)

KeptTgt == OnlyZero(RemovedFrom(tgt, s_keep, n_past_tgt))

Keep ==
    /\ pc = "keep"
    /\ tgt' = KeptTgt
    /\ LET tok   == out[Len(out)]
           batch == <<Token(tok, n_past_dft, 0)>>
           C     == RemovedFrom(OnlyZero(dft), 0, n_past_dft)
           first == [NoDraft EXCEPT !.active = TRUE, !.drafting = TRUE,
                                    !.tokens = <<tok>>, !.i_batch_tgt = <<0>>]
       IN  /\ dft' = Decoded(C, batch) /\ rows_dft' = Rows(C, batch)
           /\ drafts' = [a \in SeqIds |-> IF a = 0 THEN first ELSE NoDraft]
           /\ batch_tgt' = <<Token(tok, n_past_tgt, 0)>>
    /\ n_past_dft' = n_past_dft + 1
    \* the number of tokens, or a token that ends the text
    /\ pc' \in IF Len(out) - 1 > NPredict THEN {"end"} ELSE {"end", "draft"}
    /\ n_seq_cur' = 1 /\ n_past_cur' = n_past_dft' /\ batch_dft' = <<>>
    /\ i' = 0 /\ s' = 0
    /\ UNCHANGED <<out, rows_tgt, n_past_tgt, verify>>

----------------------------------------------------------------------------
(* The draft.                                                              *)

\* "all previous tokens from this branch are now also part of the new branch"
Shared(b, a, new) ==
    [j \in DOMAIN b |-> IF a \in ToSet(b[j].seqs)
                        THEN [b[j] EXCEPT !.seqs = Append(@, new)] ELSE b[j]]

\* sequence s gives the tokens cand[1], and cand[2] ... to new branches
DraftSeq(cand, splits) ==
    LET news  == [f \in 1 .. splits |-> n_seq_cur + f - 1]
        sa    == <<s>> \o news
        b     == FoldLeft(LAMBDA c, a : Shared(c, s, a), batch_tgt, news)
        which == [a \in SeqIds |-> IF \E f \in DOMAIN sa : sa[f] = a
                                   THEN CHOOSE f \in DOMAIN sa : sa[f] = a ELSE 0]
        from(a) == IF a = s THEN drafts[s] ELSE [drafts[s] EXCEPT !.skip = TRUE]
        new(a)  == LET d == from(a)
                       f == which[a] - 1
                   IN  [d EXCEPT !.tokens = Append(@, cand[f + 1]),
                                 !.i_batch_tgt = Append(@, Len(b) + f),
                                 !.i_batch_dft = Len(batch_dft) + f,
                                 !.drafting = Len(b) + f + 1 <= NDraft]
    IN  /\ dft' = FoldLeft(LAMBDA C, a : CopiedTo(RemovedFrom(C, a, 0), s, a), dft, news)
        /\ drafts' = [a \in SeqIds |-> IF which[a] > 0 THEN new(a) ELSE drafts[a]]
        /\ batch_tgt' = b \o [f \in DOMAIN sa |-> Token(cand[f], n_past_tgt + i + 1, sa[f])]
        /\ batch_dft' = batch_dft \o [f \in DOMAIN sa |-> Token(cand[f], n_past_cur, sa[f])]
        /\ n_seq_cur' = n_seq_cur + splits

Drafting(a) == drafts[a].drafting /\ ~drafts[a].skip

Draft ==
    /\ pc = "draft" /\ s < NSeqs /\ Drafting(s)
    /\ \E splits \in 0 .. mode.n_seq_dft - n_seq_cur :
          \E cand \in {c \in [1 .. splits + 1 -> Vocab] : IsInjective(c)} : DraftSeq(cand, splits)
    /\ s' = s + 1
    /\ UNCHANGED <<pc, out, tgt, rows_tgt, rows_dft, n_past_cur, i, verify, past>>

Pass ==
    /\ pc = "draft" /\ s < NSeqs /\ ~Drafting(s)
    /\ s' = s + 1
    /\ UNCHANGED <<pc, out, caches, drafts, batch_tgt, batch_dft, n_past_cur, n_seq_cur, i, verify, past>>

\* the draft model evaluates a level of the tree
DecodeDraft ==
    /\ pc = "draft" /\ s = NSeqs
    /\ IF batch_dft = <<>>
       THEN pc' = "target" /\ UNCHANGED <<dft, rows_dft, n_past_cur, i, s, batch_dft, drafts>>
       ELSE /\ dft' = Decoded(dft, batch_dft) /\ rows_dft' = Rows(dft, batch_dft)
            /\ n_past_cur' = n_past_cur + 1
            /\ pc' = IF Len(batch_tgt) > NDraft \/ i + 1 = NDraft THEN "target" ELSE pc
            /\ i' = i + 1 /\ s' = 0 /\ batch_dft' = <<>>
            /\ drafts' = [a \in SeqIds |-> [drafts[a] EXCEPT !.skip = FALSE]]
    /\ UNCHANGED <<out, tgt, rows_tgt, batch_tgt, n_seq_cur, verify, past>>

\* the target evaluates the tree
DecodeTarget ==
    /\ pc = "target"
    /\ LET C == FoldLeft(LAMBDA D, a : CopiedTo(D, 0, a), Kept(tgt, 0), [a \in 1 .. NSeqs - 1 |-> a])
       IN  tgt' = Decoded(C, batch_tgt) /\ rows_tgt' = Rows(C, batch_tgt)
    /\ n_past_tgt' = n_past_tgt + 1
    /\ drafts' = [a \in SeqIds |-> IF drafts[a].active THEN [drafts[a] EXCEPT !.tokens = Tail(@)]
                                                       ELSE drafts[a]]
    /\ active_seqs' = {a \in SeqIds : drafts[a].active}
    /\ i_dft' = 0 /\ s_keep' = 0 /\ pc' = "verify"
    /\ UNCHANGED <<out, dft, rows_dft, n_past_dft, draft>>

Ended == pc = "end" /\ UNCHANGED spvars

SpStep ==
    \/ Greedy \/ TryBranch \/ NoBranch \/ Keep
    \/ Draft \/ Pass \/ DecodeDraft \/ DecodeTarget

SpNext == (SpStep /\ UNCHANGED mode) \/ Ended

SpSpec == SpInit /\ [][SpNext]_spvars

----------------------------------------------------------------------------

\* Whatever was drafted, split, accepted and rejected, the target samples the
\* next token from what it computed on exactly the text put out so far, and a
\* branch is drafted on that text and its own tokens (speculative.cpp: the
\* indices i_batch_tgt and i_batch_dft, n_past_tgt and n_past_dft, and the
\* calls that keep one sequence of both caches).
SamplesItsText ==
    /\ pc = "verify" => rows_tgt[drafts[s_keep].i_batch_tgt[i_dft + 1] + 1] = out
    /\ pc = "draft" => \A a \in s .. NSeqs - 1 : Drafting(a) =>
          rows_dft[drafts[a].i_batch_dft + 1] = out \o Tail(drafts[a].tokens)

=============================================================================
