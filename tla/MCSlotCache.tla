---------------------------- MODULE MCSlotCache ----------------------------
(* Two slots of five cells, three requests in every order.               *)
EXTENDS SlotCache

CONSTANTS x, y

Ask(prompt, reuse, keep, sys) ==
    [prompt |-> prompt, reuse |-> reuse, keep |-> keep, predict |-> 6, system |-> sys]

Three(R) == {<<p, q, r>> : p \in R, q \in R, r \in R}

Use(R, erase, early) ==
    {[requests |-> q, erase |-> erase, early |-> early] : q \in Three(R)}

\* without a system prompt: prompts that share beginnings, with what the first
\* may be answered too, and one to truncate
UsesPlain == Use({Ask(<<x, y>>, TRUE, 0, NoPrompt), Ask(<<x, y, x>>, TRUE, 0, NoPrompt),
                  Ask(<<x>>, FALSE, -1, NoPrompt),
                  Ask(<<x, y, x, y, x, x>>, TRUE, 1, NoPrompt)}, TRUE, FALSE)

\* with a system prompt that is kept by the context shift, and no reuse
UsesSystem == Use({Ask(<<x, y>>, FALSE, 1, NoPrompt), Ask(<<x>>, FALSE, 0, <<y>>)},
                  FALSE, FALSE)

UsesEither == UsesPlain \cup UsesSystem

\* What no later step reads: the rows of dead cells, n, the request of a
\* slot that has none or has loaded it, and the batch between two rounds.
SlotView(sl) ==
    IF Available(sl) THEN <<sl.cached>>
    ELSE IF sl.state = "processing" /\ sl.command = "release" THEN <<sl.cached, "released">>
    ELSE IF sl.state = "processing"
    THEN <<sl.cached, sl.seen, sl.past, sl.keep, sl.sampled, sl.last, sl.decoded, sl.ask.reuse>>
    ELSE <<sl.cached, sl.seen, sl.past, sl.keep, sl.tokens, sl.ask>>

View == <<[cache EXCEPT !.n = 0,
                        !.row = [i \in KV!Cells |-> IF cache.seqs[i] # {} THEN @[i] ELSE NoTok]],
          call, use, [s \in Slots |-> SlotView(slots[s])], system, clean, pc,
          IF pc = "tasks" THEN <<>> ELSE <<turn, batch, at, nbatch>>>>

=============================================================================
