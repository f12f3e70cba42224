------------------------------ MODULE Grammar ------------------------------
(***************************************************************************)
(* Sampling under a grammar: the stacks of a pushdown automaton that reads *)
(* code points, while tokens are pieces of UTF-8 which may begin or end    *)
(* inside a character; and the refusal of grammars it cannot handle.       *)
(*                                                                         *)
(* A rule is a sequence of alternates, an alternate of references and of   *)
(* classes of characters; rule 1 is the root.  Logits are left out: what   *)
(* can be sampled is any token whose logit is not -INFINITY.               *)
(***************************************************************************)
EXTENDS Integers, Sequences, FiniteSets, SequencesExt, Relation

CONSTANTS
    Grammars,
    Vocab,       \* the pieces of tokens, sequences of bytes
    MaxBytes,    \* how long a text grows
    Alphabet,    \* the characters of the sentences
    MaxDepth     \* of llama_grammar_advance_stack, when its recursion does not end

VARIABLES
    rules,
    stacks,         \* each a sequence of positions in rules, the top last
    partial_utf8,   \* the bits of a character so far, and the bytes it lacks
    text,           \* the bytes sampled
    status,
    sentences       \* what the grammar generates, in bytes

gvars == <<rules, stacks, partial_utf8, text, status, sentences>>

----------------------------------------------------------------------------
(* UTF-8.                                                                  *)

\* lookup[] - 1: the bytes that follow a first byte
Follow(byte) ==
    CASE byte < 128 -> 0 [] byte < 192 -> -1 [] byte < 224 -> 1 [] byte < 240 -> 2 [] OTHER -> 3

\* Only the bytes that complete a character of an earlier token are checked.
DecodeByte(d, byte) ==
    LET more == [d EXCEPT !.value = (d.value * 64) + (byte % 64), !.n_remain = d.n_remain - 1]
        n    == Follow(byte)
        this == [d EXCEPT !.value = byte % (2 ^ (7 - n)), !.n_remain = n, !.carried = FALSE]
        Out(x) == IF x.n_remain = 0 THEN [x EXCEPT !.cps = Append(@, x.value)] ELSE x
        Invalid == [cps |-> <<>>, value |-> 0, n_remain |-> -1, carried |-> FALSE]
    IN  IF d.n_remain = -1 THEN d
        ELSE IF d.n_remain > 0
             THEN IF d.carried /\ byte \div 64 # 2 THEN Invalid ELSE Out(more)
             ELSE IF n < 0 THEN Invalid ELSE Out(this)

decode_utf8(piece, partial) ==
    FoldLeft(DecodeByte,
             [cps |-> <<>>, value |-> partial.value, n_remain |-> partial.n_remain, carried |-> TRUE],
             piece)

----------------------------------------------------------------------------
(* Stacks.                                                                 *)

El(g, p) == g[p[1]][p[2]][p[3]]

IsRef(g, p) == El(g, p).ref # 0

\* what follows a position in its alternate, and the start of an alternate
After(g, p) == IF p[3] < Len(g[p[1]][p[2]]) THEN <<[p EXCEPT ![3] = @ + 1]>> ELSE <<>>
Start(g, r, a) == IF g[r][a] = <<>> THEN <<>> ELSE <<<<r, a, 1>>>>

\* a stack whose top is a reference, once for each alternate of the rule
Expanded(g, stack) ==
    LET p == Last(stack)
    IN  {Front(stack) \o After(g, p) \o Start(g, El(g, p).ref, a) : a \in DOMAIN g[El(g, p).ref]}

Ready(g, stack) == stack = <<>> \/ ~IsRef(g, Last(stack))

RECURSIVE AdvanceStacks(_, _, _)
AdvanceStacks(g, S, depth) ==
    LET ready == {s \in S : Ready(g, s)}
    IN  IF ready = S \/ depth = 0 THEN S
        ELSE AdvanceStacks(g, ready \cup UNION {Expanded(g, s) : s \in S \ ready}, depth - 1)

Advance(g, S) == AdvanceStacks(g, S, MaxDepth)

MatchChar(g, p, chr) == (chr \in El(g, p).chars) # El(g, p).negated

\* mutation: characters of three bytes may be below 2^11
LowZero(partial) == partial.value * 2 ^ (6 * partial.n_remain)

\* the least code point of a partial sequence
Low(partial) ==
    LET low == partial.value * 2 ^ (6 * partial.n_remain)
    IN  IF low # 0 THEN low
        ELSE CASE partial.n_remain = 2 -> 2 ^ 11 [] partial.n_remain = 3 -> 2 ^ 16 [] OTHER -> low

\* An inverse class does not match if one of its characters is in the range.
MatchPartialChar(g, p, partial) ==
    LET high == ((partial.value + 1) * 2 ^ (6 * partial.n_remain)) - 1
    IN  /\ partial.n_remain >= 0 /\ ~(partial.n_remain = 1 /\ partial.value < 2)
        /\ (\E c \in El(g, p).chars : Low(partial) <= c /\ c <= high) # El(g, p).negated

Popped(g, stack) == Advance(g, {Front(stack) \o After(g, Last(stack))})

Accept(g, S, chr) == UNION {Popped(g, s) : s \in {s \in S : s # <<>> /\ MatchChar(g, Last(s), chr)}}

RECURSIVE Rejected(_, _, _, _)
Rejected(g, S, cps, partial) ==
    \A s \in S :
        IF s = <<>> THEN cps # <<>> \/ partial.n_remain # 0
        ELSE IF cps = <<>>
             THEN partial.n_remain # 0 /\ ~MatchPartialChar(g, Last(s), partial)
             ELSE \/ ~MatchChar(g, Last(s), Head(cps))
                  \/ Rejected(g, Popped(g, s), Tail(cps), partial)

----------------------------------------------------------------------------
(* llama_grammar_init.                                                     *)

\* rules_may_be_empty: only an empty alternate counts, not one of references
\* to rules that may be empty
MayBeEmpty(g, r) == <<>> \in ToSet(g[r])

RECURSIVE DetectLeftRecursion(_, _, _)
DetectLeftRecursion(g, r, in_progress) ==
    \/ r \in in_progress
    \/ \E a \in DOMAIN g[r] : \E e \in DOMAIN g[r][a] :
           /\ \A k \in 1 .. e : g[r][a][k].ref # 0
           /\ \A k \in 1 .. e - 1 : MayBeEmpty(g, g[r][a][k].ref)
           /\ DetectLeftRecursion(g, g[r][a][e].ref, in_progress \cup {r})

\* The strings of a rule: of a depth and a length that suffice to see how any
\* text of MaxBytes goes on.
RECURSIVE Strings(_, _, _)
Strings(g, r, depth) ==
    LET Of(el) == IF el.ref # 0 THEN Strings(g, el.ref, depth - 1)
                  ELSE {<<c>> : c \in {c \in Alphabet : (c \in el.chars) # el.negated}}
        Cat(X, Y) == {z \in {x \o y : x \in X, y \in Y} : Len(z) <= 3 * MaxBytes}
    IN  IF depth = 0 THEN {}
        ELSE UNION {FoldLeft(LAMBDA X, el : Cat(X, Of(el)), {<<>>}, g[r][a]) : a \in DOMAIN g[r]}

Encoded(c) ==
    IF c < 128 THEN <<c>>
    ELSE IF c < 2048 THEN <<192 + (c \div 64), 128 + (c % 64)>>
    ELSE <<224 + (c \div 4096), 128 + ((c \div 64) % 64), 128 + (c % 64)>>

Sentences(g) == {FlattenSeq([k \in DOMAIN x |-> Encoded(x[k])]) : x \in Strings(g, 1, MaxBytes + 3)}

GInit ==
    /\ rules \in Grammars
    /\ partial_utf8 = [value |-> 0, n_remain |-> 0]
    /\ text = <<>>
    /\ stacks = IF \E r \in DOMAIN rules : DetectLeftRecursion(rules, r, {}) THEN {}
                ELSE Advance(rules, {Start(rules, 1, a) : a \in DOMAIN rules[1]})
    /\ status = CASE stacks = {} -> "refused"
                  [] \E s \in stacks : ~Ready(rules, s) -> "overflow"
                  [] OTHER -> "ok"
    /\ sentences = IF status = "ok" THEN Sentences(rules) ELSE {}

----------------------------------------------------------------------------
(* llama_sampling_sample and llama_sampling_accept.                        *)

\* the token keeps its logit in llama_grammar_sample
Kept(piece) ==
    LET d == decode_utf8(piece, partial_utf8)
    IN  ~Rejected(rules, stacks, d.cps, [value |-> d.value, n_remain |-> d.n_remain])

allow_eog == <<>> \in stacks

\* A token that is not kept is drawn again from those that are; when there is
\* none the draw is among tokens that are all impossible.
Sampled == {piece \in Vocab : Kept(piece)}

Token(piece) ==
    LET d == decode_utf8(piece, partial_utf8)
    IN  /\ status = "ok" /\ Len(text) + Len(piece) <= MaxBytes
        /\ piece \in Sampled \/ (Sampled = {} /\ ~allow_eog)
        /\ stacks' = FoldLeft(LAMBDA S, chr : Accept(rules, S, chr), stacks, d.cps)
        /\ partial_utf8' = [value |-> d.value, n_remain |-> d.n_remain]
        /\ text' = text \o piece
        /\ status' = IF stacks' = {} THEN "abort" ELSE "ok"
        /\ UNCHANGED <<rules, sentences>>

\* the end of generation; or a text that is as long as this model lets it grow
Eog ==
    /\ status = "ok" /\ allow_eog
    /\ status' = "ended"
    /\ UNCHANGED <<rules, stacks, partial_utf8, text, sentences>>

Stopped == status # "ok" \/ Len(text) >= MaxBytes

GNext == (\E piece \in Vocab : Token(piece)) \/ Eog \/ (Stopped /\ UNCHANGED gvars)

GSpec == GInit /\ [][GNext]_gvars

----------------------------------------------------------------------------

Nullable(g) ==
    LET N[n \in Nat] == IF n = 0 THEN {}
                        ELSE {r \in DOMAIN g : \E a \in DOMAIN g[r] :
                                 \A e \in DOMAIN g[r][a] : g[r][a][e].ref \in N[n - 1]}
    IN  N[Len(g)]

\* a rule that comes again before any character
LeftRecursive(g) ==
    LET Leads(r, q) == \E a \in DOMAIN g[r] : \E e \in DOMAIN g[r][a] :
                          /\ g[r][a][e].ref = q
                          /\ \A k \in 1 .. e - 1 : g[r][a][k].ref \in Nullable(g)
        R == [x \in (DOMAIN g) \X (DOMAIN g) |-> Leads(x[1], x[2])]
    IN  \E r \in DOMAIN g : TransitiveClosure(R, DOMAIN g)[<<r, r>>]

Begins(x) == \E y \in sentences : Len(x) <= Len(y) /\ SubSeq(y, 1, Len(x)) = x

\* A token can be sampled exactly if the text with it begins a sentence of the
\* grammar, wherever tokens cut the characters; between characters, the end
\* exactly if the text is a sentence; and what was sampled is accepted.
KeepsToSentences ==
    /\ status # "abort"
    /\ status = "ok" =>
         /\ \A piece \in Vocab : Len(text) + Len(piece) <= MaxBytes =>
                (Kept(piece) <=> Begins(text \o piece))
         /\ partial_utf8.n_remain = 0 => (allow_eog <=> text \in sentences)

\* The grammars refused are those with left recursion, on which the recursion
\* of llama_grammar_advance_stack has no end.
RefusesLeftRecursion ==
    /\ status # "overflow"
    /\ status = "refused" <=> LeftRecursive(rules)

=============================================================================
