----------------------------- MODULE SlotCache -----------------------------
(***************************************************************************)
(* The slots of llama-server on top of the KV cache: what a slot believes  *)
(* is stored for it (n_past, cache_tokens) against what KVCache stores.    *)
(*                                                                         *)
(* Slot s owns sequence s + 1; the tokens of the system prompt are those   *)
(* of sequence 0, and in all the others.  Server models when slots are     *)
(* launched and released and who is answered; here a round of update_slots *)
(* is followed token by token: context shift, the batch, its decoding in   *)
(* views that are halved when there is no room, and the sampling.          *)
(*                                                                         *)
(* Left out: self-extend (ga_n # 1), embeddings, empty prompts, n_discard  *)
(* other than its default, cont_batching = false, and errors of a decode   *)
(* other than a full cache.                                                *)
(***************************************************************************)
EXTENDS Integers, Sequences, FiniteSets, FiniteSetsExt

CONSTANTS
    NSlots,   \* params.n_parallel
    NCtx,     \* slot.n_ctx, the share of a slot in the context
    NBatch,   \* llama_n_batch(ctx)
    NUbatch,  \* llama_n_ubatch(ctx)
    AddBos,   \* add_bos_token, 0 or 1
    Toks,     \* tokens
    NoTok,    \* not a token of a prompt: what resize fills a vector with
    AnySeq,   \* not a sequence
    Sampled,  \* the tokens that may be sampled
    NoPrompt, \* a request without "system_prompt"
    Uses      \* how the server may be used: the requests in their order, whether
              \* slots are erased, and whether a request may come before the loop
              \* has first been idle

Slots == 0 .. NSlots - 1
Size  == NSlots * NCtx

\* prompt, cache_prompt, n_keep, n_predict and system_prompt
Request == [prompt : Seq(Toks) \ {<<>>}, reuse : BOOLEAN, keep : Int, predict : Nat \ {0},
            system : Seq(Toks) \cup {NoPrompt}]

\* a system prompt leaves room, and is decoded in one ubatch
ASSUME SlotAssumption ==
    /\ NSlots \in Nat \ {0} /\ NCtx \in Nat \ (0 .. 4)
    /\ NBatch \in Nat \ {0} /\ NUbatch \in Nat \ {0}
    /\ AddBos \in {0, 1} /\ NoTok \notin Toks /\ Sampled \subseteq Toks
    /\ AnySeq \notin 0 .. NSlots
    /\ Uses \subseteq [requests : Seq(Request), erase : BOOLEAN, early : BOOLEAN]
    /\ \A u \in Uses : \A j \in 1 .. Len(u.requests) :
          LET p == u.requests[j].system
          IN  p # NoPrompt => Len(p) <= NUbatch /\ Len(p) < NCtx - 1

VARIABLES
    cache, call,  \* as in KVCache
    use,          \* how the server is used, with the requests to come
    slots,        \* the slots
    system,       \* system_prompt, system_tokens and system_need_update
    clean,        \* clean_kv_cache
    pc,           \* where the main loop is
    turn,         \* the slot it comes to next
    batch,        \* the tokens to decode
    at,           \* i, how many of them are
    nbatch        \* n_batch

kv   == <<cache, call>>
vars == <<cache, call, use, slots, system, clean, pc, turn, batch, at, nbatch>>

KV == INSTANCE KVCache WITH
        Seqs <- 0 .. NSlots, MaxMoves <- 1, Pad <- 1, FragMin <- 0, DefragThold <- -1,
        Batches <- {}, Bounds <- {}, Shifts <- {}, Divisors <- {}, MaxPos <- 0

Seq1(s) == s + 1

-----------------------------------------------------------------------------
(* The tasks.                                                              *)

Available(sl)  == sl.state = "idle" /\ sl.command = "none"
Processing(sl) == sl.state = "processing" \/ sl.command = "load"
Released(sl)   == IF sl.state = "processing" THEN [sl EXCEPT !.command = "release"] ELSE sl

\* reset and launch_slot_with_task
Launched(sl, r) ==
    [sl EXCEPT !.command = "load", !.ask = r, !.tokens = <<>>, !.past = 0]

\* a request with a system prompt releases the other slots, and those that
\* are loading begin again
Launch(s) ==
    /\ pc = "tasks" /\ (clean => use.early)
    /\ Available(slots[s])
    /\ use.requests # <<>>
    /\ use' = [use EXCEPT !.requests = Tail(@)]
    /\ LET r == Head(use.requests)
       IN  IF r.system = NoPrompt
           THEN slots' = [slots EXCEPT ![s] = Launched(@, r)] /\ UNCHANGED system
           ELSE /\ slots' = [t \in Slots |->
                               IF t = s THEN Launched(slots[t], r)
                               ELSE [Released(slots[t]) EXCEPT !.past = 0]]
                /\ system' = [system EXCEPT !.prompt = r.system, !.update = TRUE]
    /\ UNCHANGED <<kv, clean, pc, turn, batch, at, nbatch>>

Cancel(s) ==
    /\ pc = "tasks"
    /\ slots[s].state = "processing"
    /\ slots' = [slots EXCEPT ![s] = Released(@)]
    /\ UNCHANGED <<kv, use, system, clean, pc, turn, batch, at, nbatch>>

\* SLOT_ERASE
Erase(s) ==
    /\ pc = "tasks" /\ use.erase
    /\ Available(slots[s])
    /\ cache' = KV!SeqRm(cache, Seq1(s), -1, -1)
    /\ slots' = [slots EXCEPT ![s].cached = <<>>]
    /\ UNCHANGED <<call, use, system, clean, pc, turn, batch, at, nbatch>>

-----------------------------------------------------------------------------
(* update_slots, up to the batch.                                          *)

\* system_prompt_update: the cache is cleared, the system prompt decoded and
\* copied to every sequence
Installed(p) ==
    IF p = <<>> THEN {KV!Clear(cache)}
    ELSE LET u == [j \in 1 .. Len(p) |-> [pos |-> j - 1, seqs |-> {0}, tok |-> p[j]]]
             copy(s, c) == KV!SeqCp(c, 0, Seq1(s), -1, -1)
         IN  {FoldSet(copy, KV!Computed(KV!Placed(c, u), u), Slots) :
                c \in KV!Updates(KV!Clear(cache))}

Update ==
    /\ pc = "tasks"
    /\ LET now  == [s \in Slots |-> IF slots[s].command = "release"
                      THEN [slots[s] EXCEPT !.state = "idle", !.command = "none"]
                      ELSE slots[s]]
           idle == \A s \in Slots : Available(now[s])
           wipe == idle /\ system.prompt = <<>> /\ clean /\ ~system.update
       IN  /\ slots' = now
           /\ pc' = IF idle THEN "tasks" ELSE "going"
           /\ IF system.update THEN cache' \in Installed(system.prompt)
              ELSE cache' = IF wipe THEN KV!Clear(cache) ELSE cache
           /\ clean' = (clean /\ ~system.update /\ ~wipe)
    /\ system' = IF system.update
                 THEN [system EXCEPT !.tokens = system.prompt, !.update = FALSE]
                 ELSE system
    /\ turn' = 0 /\ batch' = <<>>
    /\ UNCHANGED <<call, use, at, nbatch>>

\* q without n elements from the k-th on
Cut(q, k, n) == [j \in 1 .. Len(q) - n |-> IF j > k THEN q[j + n] ELSE q[j]]

Length(sl) == Len(system.tokens) + sl.past

\* mutation: the context shifts when it is full
NeedsShiftLate(sl) == Processing(sl) /\ Length(sl) >= NCtx + 1

NeedsShift(sl) == Processing(sl) /\ Length(sl) >= NCtx - 1

Kept(sl)      == sl.keep + AddBos
Discarded(sl) == (Length(sl) - Kept(sl)) \div 2

\* mutation: the last tokens of the prompt cache are dropped
CutLast(q, k, n) == SubSeq(q, 1, Len(q) - n)

\* the loop over cache_tokens, with its resize
CutCached(q, k, n) == Cut(q, k, n)

ShiftedSlot(sl) ==
    LET n == Discarded(sl)
    IN  [sl EXCEPT !.past = @ - n,
                   !.cached = IF sl.ask.reuse THEN CutCached(@, Kept(sl), n) ELSE @,
                   !.seen = Cut(@, Kept(sl), n)]

ShiftedCache(s) ==
    LET sl == slots[s]
        k == Kept(sl)  n == Discarded(sl)
    IN  KV!SeqAdd(KV!SeqRm(cache, Seq1(s), k, k + n), Seq1(s), k + n, Length(sl), -n)

Token(s, pos, tok) == [pos |-> pos, seqs |-> {Seq1(s)}, tok |-> tok]

\* the context shift of a slot, and the token it sampled last (the code
\* shifts all slots first, which makes no difference to their tokens)
Go(s) ==
    /\ pc = "going" /\ s = turn
    /\ LET shift == NeedsShift(slots[s])
           sl    == IF shift THEN ShiftedSlot(slots[s]) ELSE slots[s]
       IN  /\ cache' = IF shift THEN ShiftedCache(s) ELSE cache
           /\ IF sl.state = "idle" THEN slots' = [slots EXCEPT ![s] = sl] /\ UNCHANGED batch
              ELSE /\ slots' = [slots EXCEPT ![s] =
                         [sl EXCEPT !.past = @ + 1,
                                    !.last = Len(batch) + 1,
                                    !.cached = IF sl.ask.reuse THEN Append(@, sl.sampled) ELSE @,
                                    !.seen = Append(@, sl.sampled)]]
                   /\ batch' = Append(batch, Token(s, Length(sl), sl.sampled))
    /\ turn' = (s + 1) % NSlots
    /\ pc' = IF s = NSlots - 1 THEN "loading" ELSE "going"
    /\ UNCHANGED <<call, use, system, clean, at, nbatch>>

-----------------------------------------------------------------------------
(* The prompts.                                                            *)

\* mutation: one block too few is erased
ErasedShort(n, k, block) == (n - k - block) \div block - 1

Erased(n, k, block) == (n - k - block) \div block

\* "if input prompt is too big, truncate it"
Truncated(p, k) ==
    LET block == (NCtx - k) \div 2
    IN  IF Len(p) < NCtx THEN p
        ELSE Cut(p, k, Erased(Len(p), k, block) * block)

\* common_part
CommonPart(p, q) ==
    Max({n \in 0 .. Len(p) : n <= Len(q) /\ \A j \in 1 .. n : p[j] = q[j]})

\* "we have to evaluate at least 1 token to generate logits"
Reusable(sl, tokens) ==
    LET n == IF sl.ask.reuse THEN CommonPart(sl.cached, tokens) ELSE 0
    IN  IF n = Len(tokens) THEN n - 1 ELSE n

\* the prompt is looked at for the first time
Tokenized(sl) ==
    IF sl.tokens # <<>> THEN sl
    ELSE LET given  == sl.ask.keep
             keep   == KV!Lesser(NCtx - 4, IF given < 0 THEN Len(sl.ask.prompt) ELSE given)
             tokens == Truncated(sl.ask.prompt, keep)
         IN  [sl EXCEPT !.keep = keep, !.tokens = tokens, !.past = Reusable(sl, tokens)]

\* vector::resize
Resized(q, n) == [j \in 1 .. n |-> IF j <= Len(q) THEN q[j] ELSE NoTok]

\* mutation: the tokens that are not common stay in the cache
RemovedNone(s, p0) == cache

\* "keep only the common part"
Removed(s, p0) == KV!SeqRm(cache, Seq1(s), p0, -1)

\* the next slot with a prompt to load adds as much of it as there is room
Load(s) ==
    /\ pc = "loading" /\ s = turn
    /\ IF slots[s].command # "load" \/ (s > 0 /\ Len(batch) >= NBatch)
       THEN UNCHANGED <<cache, slots, batch>>
       ELSE LET sl   == Tokenized(slots[s])
                past == KV!Lesser(Len(sl.tokens),
                                  sl.past + KV!Greater(0, NBatch - Len(batch)))
                new  == SubSeq(sl.tokens, sl.past + 1, past)
                kept == Resized(sl.cached, sl.past)
                done == past = Len(sl.tokens)
            IN  /\ cache' = Removed(s, Length(sl))
                /\ batch' = batch \o [j \in 1 .. Len(new) |->
                                        Token(s, Length(sl) + j - 1, new[j])]
                /\ slots' = [slots EXCEPT ![s] =
                     [sl EXCEPT !.past = past,
                                !.cached = IF sl.ask.reuse THEN kept \o new ELSE kept,
                                !.seen = system.tokens \o SubSeq(sl.tokens, 1, past),
                                !.state = IF done THEN "processing" ELSE @,
                                !.command = IF done THEN "none" ELSE @,
                                !.decoded = IF done THEN 0 ELSE @,
                                !.last = IF done THEN Len(batch') ELSE @]]
    /\ turn' = (s + 1) % NSlots
    /\ pc' = IF s < NSlots - 1 THEN "loading" ELSE IF batch' = <<>> THEN "tasks" ELSE "decode"
    /\ at' = 0 /\ nbatch' = NBatch
    /\ UNCHANGED <<call, use, system, clean>>

-----------------------------------------------------------------------------
(* The decoding.                                                           *)

BatchView == at + 1 .. KV!Lesser(at + nbatch, Len(batch))

DecodeView ==
    /\ pc = "decode" /\ pc' = "view"
    /\ call' = SubSeq(batch, at + 1, Max(BatchView))
    /\ UNCHANGED <<cache, use, slots, system, clean, turn, batch, at, nbatch>>

\* llama_decode works off a ubatch of the view
DecodeUbatch ==
    /\ pc = "view"
    /\ KV!DecodeUbatch
    /\ pc' = IF call' = <<>> THEN "sample" ELSE "view"
    /\ UNCHANGED <<use, slots, system, clean, turn, batch, at, nbatch>>

\* llama_decode finds no room: "retrying with smaller batch size", and when
\* the view is one token, every slot is released
NoRoom ==
    /\ pc = "view"
    /\ KV!DecodeFull
    /\ IF nbatch > 1
       THEN pc' = "decode" /\ nbatch' = nbatch \div 2 /\ UNCHANGED slots
       ELSE /\ pc' = "tasks" /\ UNCHANGED nbatch
            /\ slots' = [s \in Slots |->
                           [slots[s] EXCEPT !.state = "processing", !.command = "release"]]
    /\ UNCHANGED <<use, system, clean, turn, batch, at>>

Sampling == {s \in Slots : slots[s].state = "processing" /\ slots[s].last \in BatchView}

\* has_budget
Spent(sl) == sl.decoded + 1 >= sl.ask.predict

\* each slot with its last token in the view samples the next, and ends at the
\* end of a text or of its budget
Sample ==
    /\ pc = "sample"
    /\ \E tok \in [Sampling -> Sampled], ends \in SUBSET Sampling :
          slots' = [s \in Slots |->
             IF s \notin Sampling THEN slots[s]
             ELSE [slots[s] EXCEPT
                     !.sampled = tok[s], !.last = 0, !.decoded = @ + 1,
                     !.command = IF s \in ends \/ Spent(slots[s]) THEN "release" ELSE @]]
    /\ at' = Max(BatchView)
    /\ pc' = IF at' = Len(batch) THEN "tasks" ELSE "decode"
    /\ UNCHANGED <<kv, use, system, clean, turn, batch, nbatch>>

Init ==
    /\ KV!Init
    /\ use \in Uses
    /\ slots = [s \in Slots |->
         [state |-> "idle", command |-> "none", ask |-> NoPrompt, tokens |-> <<>>,
          past |-> 0, keep |-> 0, cached |-> <<>>, sampled |-> NoTok, last |-> 0, decoded |-> 0,
          seen |-> <<>>]]
    /\ system = [prompt |-> <<>>, tokens |-> <<>>, update |-> FALSE]
    /\ clean = TRUE
    /\ pc = "tasks" /\ turn = 0 /\ batch = <<>> /\ at = 0 /\ nbatch = NBatch

Next ==
    \/ \E s \in Slots : Launch(s) \/ Cancel(s) \/ Erase(s) \/ Go(s) \/ Load(s)
    \/ Update \/ DecodeView \/ DecodeUbatch \/ NoRoom \/ Sample

Spec == Init /\ [][Next]_vars

-----------------------------------------------------------------------------
(* Properties.                                                             *)

\* Position p of sequence q is stored in one cell, with the token tok, and
\* its row is rotated, but for a pending shift, to that position.
Holds(q, p, tok) ==
    LET there == {i \in KV!Cells : q \in cache.seqs[i] /\ cache.pos[i] = p}
    IN  /\ Cardinality(there) = 1
        /\ \A i \in there : cache.row[i] = [tok |-> tok, rot |-> p - cache.delta[i]]

\* A slot samples from exactly its text: when the logits of a slot are
\* read, its sequence holds the system prompt, its prompt (truncated) and what it
\* generated, each token once and at its place, less what the context shift
\* has discarded, and nothing of an earlier request or of another slot.
SeesItsText ==
    pc = "sample" => \A s \in Sampling :
        /\ \A p \in 1 .. Len(slots[s].seen) : Holds(Seq1(s), p - 1, slots[s].seen[p])
        /\ \A i \in KV!Cells : Seq1(s) \in cache.seqs[i] => cache.pos[i] < Len(slots[s].seen)

\* "any previously computed tokens": between two rounds each token that
\* cache_tokens names is stored for the slot, behind the system prompt, so a
\* new prompt may skip those it begins with.
CachedIsStored ==
    pc = "tasks" /\ ~system.update => \A s \in Slots :
        \A j \in 1 .. Len(slots[s].cached) :
            slots[s].cached[j] # NoTok =>
                Holds(Seq1(s), Len(system.tokens) + j - 1, slots[s].cached[j])

\* The slots share a cache of n_ctx cells for each, and never ask for more:
\* while there are single tokens left to retry with, none fails, so
\* "KV cache is full" is not reported.
AlwaysRoom == [][NoRoom => nbatch > 1]_vars

\* GGML_ASSERT(slot.n_prompt_tokens < slot.n_ctx) holds after the truncation.
PromptFits == \A s \in Slots : Len(slots[s].tokens) < NCtx

=============================================================================
