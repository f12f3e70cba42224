------------------------------ MODULE MCServer ------------------------------
(* The server with two requests, of up to three tasks, and two slots.                     *)
EXTENDS Server

CONSTANTS a, b

Completion(prompts, stream, slot) ==
    [kind |-> "completion", stream |-> stream, prompts |-> prompts, slot |-> slot,
     sys |-> FALSE]
Status       == [Completion(1, FALSE, AnySlot) EXCEPT !.kind = "status"]
Action(slot) == [Completion(1, FALSE, slot) EXCEPT !.kind = "action"]
NewPrompt    == [Completion(1, FALSE, AnySlot) EXCEPT !.sys = TRUE]

Plain  == Completion(1, FALSE, AnySlot)
Stream == Completion(1, TRUE, AnySlot)
Multi  == Completion(2, FALSE, AnySlot)

Two(S, T) == {[c \in {a, b} |-> IF c = a THEN x ELSE y] : x \in S, y \in T}

\* three tasks for two slots, of which the third may be streamed, for a given
\* slot, a slot to be erased (there is one or not), or a question about the server's state
WantsMixed == Two({Multi}, {Stream, Completion(1, FALSE, 0), Status,
                           Action(0), Action(NoSlot)})

\* slots waited for by number and not
WantsPairs == Two({Multi}, {Stream, Completion(1, FALSE, 0)})

\* a slot is erased while others work in it
WantsAction == Two({Action(0)}, {Multi, Stream})

\* the system prompt is set while another request is worked on
WantsNewPrompt == Two({NewPrompt}, {Plain})

=============================================================================
