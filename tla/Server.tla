------------------------------- MODULE Server -------------------------------
(***************************************************************************)
(* llama-server (examples/server/server.cpp): how a request becomes tasks, *)
(* how the main loop works them off in its slots, and how the results find *)
(* the handler that waits for them.                                        *)
(*                                                                         *)
(* Each HTTP request runs its handler in a thread.  All tasks are worked   *)
(* off by one main thread.  They share server_queue (queue_tasks,          *)
(* queue_tasks_deferred, queue_multitasks) and server_response             *)
(* (waiting_task_ids, queue_results); a step here is one critical section  *)
(* on one of their two mutexes.                                            *)
(*                                                                         *)
(* Abstracted: an id is <<client, i>>, i = 0 for the request and i >= 1    *)
(* for its i-th prompt, so id_multi is a function of the id; what a slot   *)
(* computes is the number of steps it still needs.                         *)
(***************************************************************************)
EXTENDS Integers, Sequences, FiniteSets

CONSTANTS
    Clients,      \* the requests, each with its handler thread
    NoClient,     \* not a client: the id_task of a slot never used is -1
    NSlots,       \* params.n_parallel
    Wants,        \* what the requests may be: a set of functions on Clients
    AnySlot,      \* id_slot = -1
    NoSlot,       \* an id_slot that no slot has
    MaxSteps,     \* bound: most batches a prompt or a generation takes
    ContBatching, \* params.cont_batching
    LaunchFails,  \* whether launch_slot_with_task may reject a request
    DecodeFails,  \* whether llama_decode may fail for good
    Signals       \* whether SIGINT or SIGTERM may arrive

Slots == 0 .. NSlots - 1

Request == [kind : {"completion", "status", "action"}, stream : BOOLEAN,
            prompts : Nat \ {0}, slot : Slots \cup {AnySlot, NoSlot}, sys : BOOLEAN]

ASSUME ServerAssumption ==
    /\ NSlots \in Nat \ {0} /\ MaxSteps \in Nat \ {0}
    /\ NoClient \notin Clients
    /\ AnySlot \notin Slots /\ NoSlot \notin Slots /\ AnySlot # NoSlot
    /\ Wants \subseteq [Clients -> Request]
    /\ \A w \in Wants : \A c \in Clients : w[c].prompts > 1 => w[c].kind = "completion"
    /\ {ContBatching, LaunchFails, DecodeFails, Signals} \subseteq BOOLEAN

VARIABLES
    want,      \* what each request asks for
    handler,   \* where the handler of a request is
    posted,    \* how many prompts of a request have been posted
    queue,     \* queue_tasks
    deferred,  \* queue_tasks_deferred
    multis,    \* queue_multitasks, by request
    waiting,   \* waiting_task_ids
    results,   \* queue_results, by request
    slots,     \* the slots
    main,      \* where the main thread is
    visit,     \* the slots its current loop has still to visit
    fed,       \* the slots with tokens in the batch
    running,   \* whether the loop is to go on
    signalled  \* whether a signal has arrived

queues == <<queue, deferred>>
loop   == <<main, visit, fed>>
stop   == <<running, signalled>>
http   == <<want, handler, posted>>
vars   == <<want, handler, posted, queue, deferred, multis, waiting, results,
            slots, main, visit, fed, running, signalled>>

NoTask == <<NoClient, 0>>
Subs(c) == {<<c, i>> : i \in 1 .. want[c].prompts}

Task(type, id) == [type |-> type, id |-> id]

Available(s) == slots[s].state = "idle" /\ slots[s].command = "none"
Lowest(S)    == CHOOSE s \in S : \A t \in S : s <= t

-----------------------------------------------------------------------------
(* server_response::send and server_queue::update_multitask                *)

\* waiting_task_ids are looked through for the id
Reaches(id) == id[2] = 0 /\ id \in waiting

\* any result of a subtask ends it
Gathered(m, id, r) == [m EXCEPT !.left = @ \ {id}, !.got = Append(@, <<id, r>>)]

Send(id, r) ==
    /\ results' = IF Reaches(id) THEN [results EXCEPT ![id[1]] = Append(@, r)]
                  ELSE results
    /\ multis' = IF id[2] # 0 /\ <<id[1], 0>> \in waiting /\ multis[id[1]].open
                 THEN [multis EXCEPT ![id[1]] = Gathered(@, id, r)]
                 ELSE multis

SendNothing == UNCHANGED <<results, multis>>

-----------------------------------------------------------------------------
(* The handlers.                                                           *)

Step(c, from, to) == handler[c] = from /\ handler' = [handler EXCEPT ![c] = to]

Sent(c) == IF want[c].stream THEN "stream" ELSE "recv"

\* add_waiting_task_id: before the task is posted, or for a slot action after
Register(c) ==
    /\ \/ want[c].kind # "action" /\ Step(c, "new", "post")
       \/ Step(c, "posted", "recv")
    /\ waiting' = waiting \cup {<<c, 0>>}
    /\ UNCHANGED <<want, posted, queues, multis, results, slots, loop, stop>>

Post(c) ==
    /\ \/ want[c].kind = "action" /\ Step(c, "new", "posted")
       \/ want[c].prompts = 1 /\ Step(c, "post", Sent(c))
    /\ queue' = Append(queue, Task(want[c].kind, <<c, 0>>))
    /\ UNCHANGED <<want, posted, deferred, multis, waiting, results, slots, loop, stop>>

\* split_multiprompt_task: add_multitask, then one task for each prompt
AddMultitask(c) ==
    /\ want[c].prompts > 1
    /\ Step(c, "post", "split")
    /\ multis' = [multis EXCEPT ![c] = [open |-> TRUE, left |-> Subs(c), got |-> <<>>]]
    /\ UNCHANGED <<want, posted, queues, waiting, results, slots, loop, stop>>

PostSubtask(c) ==
    /\ Step(c, "split", IF posted[c] + 1 = want[c].prompts THEN Sent(c) ELSE "split")
    /\ posted' = [posted EXCEPT ![c] = @ + 1]
    /\ queue' = Append(queue, Task("completion", <<c, posted[c] + 1>>))
    /\ UNCHANGED <<want, deferred, multis, waiting, results, slots, loop, stop>>

\* the content provider of a streamed response is called, or never, when the
\* connection is gone by then
OpenStream(c) ==
    /\ Step(c, "stream", "recv") \/ Step(c, "stream", "complete")
    /\ UNCHANGED <<want, posted, queues, multis, waiting, results, slots, loop, stop>>

\* recv, and for a streamed response sink.write, which may fail
Recv(c) ==
    /\ results[c] # <<>>
    /\ results' = [results EXCEPT ![c] = Tail(@)]
    /\ \/ Head(results[c]) = "partial" /\ Step(c, "recv", "recv")
       \/ Head(results[c]) # "partial" /\ Step(c, "recv", "answered")
       \/ want[c].stream /\ Step(c, "recv", "gone")
    /\ UNCHANGED <<want, posted, queues, multis, waiting, slots, loop, stop>>

\* remove_waiting_task_id
Forget(c) ==
    /\ \E from \in {"answered", "gone"} :
          Step(c, from, IF want[c].stream THEN "complete" ELSE "done")
    /\ waiting' = waiting \ {<<c, 0>>}
    /\ UNCHANGED <<want, posted, queues, multis, results, slots, loop, stop>>

\* on_complete: request_cancel, then remove_waiting_task_id
RequestCancel(c) ==
    /\ Step(c, "complete", "leave")
    /\ queue' = Append(queue, Task("cancel", <<c, 0>>))
    /\ UNCHANGED <<want, posted, deferred, multis, waiting, results, slots, loop, stop>>

Leave(c) ==
    /\ Step(c, "leave", "done")
    /\ waiting' = waiting \ {<<c, 0>>}
    /\ UNCHANGED <<want, posted, queues, multis, results, slots, loop, stop>>

Handle(c) ==
    \/ Register(c) \/ Post(c) \/ AddMultitask(c) \/ PostSubtask(c)
    \/ OpenStream(c) \/ Recv(c) \/ Forget(c) \/ RequestCancel(c) \/ Leave(c)

-----------------------------------------------------------------------------
(* process_single_task, for the first task of the queue.                   *)

Working(type) == main = "tasks" /\ queue # <<>> /\ Head(queue).type = type

TakeTask  == queue' = Tail(queue) /\ UNCHANGED deferred
DeferTask == queue' = Tail(queue) /\ deferred' = Append(deferred, Head(queue))

\* mutation: a slot that loads its prompt is available, too
CandidatesIdle(id) ==
    LET w == want[id[1]].slot
    IN  {s \in Slots : slots[s].state = "idle" /\ (w = AnySlot \/ w = s)}

\* get_slot_by_id, or get_available_slot by similarity or by age
Candidates(id) ==
    LET w == want[id[1]].slot
    IN  {s \in Slots : Available(s) /\ (w = AnySlot \/ w = s)}

\* mutation: the slot of a finished request is not released
ReleasedNot(sl) == sl

\* server_slot::release
Released(sl) == IF sl.state = "processing" THEN [sl EXCEPT !.command = "release"] ELSE sl

\* system_prompt_set releases every slot that is processing
Prompted(id) ==
    IF want[id[1]].sys THEN [s \in Slots |-> Released(slots[s])] ELSE slots

\* a request that finds no slot, or its slot at work, is deferred
DeferRequest ==
    /\ \/ Working("completion") /\ Candidates(Head(queue).id) = {}
       \/ Working("action") /\ want[Head(queue).id[1]].slot # NoSlot
                            /\ Candidates(Head(queue).id) = {}
    /\ DeferTask
    /\ SendNothing
    /\ UNCHANGED <<http, waiting, slots, loop, stop>>

\* launch_slot_with_task: the slot is to load the prompt
Launch ==
    /\ Working("completion")
    /\ \E s \in Candidates(Head(queue).id) :
          slots' = [Prompted(Head(queue).id) EXCEPT
                      ![s].task = Head(queue).id, ![s].command = "load", ![s].steps = 0]
    /\ TakeTask
    /\ SendNothing
    /\ UNCHANGED <<http, waiting, loop, stop>>

\* launch_slot_with_task rejects what the request asks for
LaunchRejected ==
    /\ LaunchFails
    /\ Working("completion")
    /\ \E s \in Candidates(Head(queue).id) :
          slots' = [Prompted(Head(queue).id) EXCEPT ![s].task = Head(queue).id]
    /\ TakeTask
    /\ Send(Head(queue).id, "error")
    /\ UNCHANGED <<http, waiting, loop, stop>>

\* "release slot linked with the task id"
ReleaseCancelled(id) ==
    LET linked == {s \in Slots : slots[s].task = id}
    IN  IF linked = {} THEN slots
        ELSE [slots EXCEPT ![Lowest(linked)] = Released(@)]

CancelTask ==
    /\ Working("cancel")
    /\ slots' = ReleaseCancelled(Head(queue).id)
    /\ TakeTask
    /\ SendNothing
    /\ UNCHANGED <<http, waiting, loop, stop>>

\* NEXT_RESPONSE: "do nothing"
NextResponse ==
    /\ Working("next")
    /\ TakeTask
    /\ SendNothing
    /\ UNCHANGED <<http, waiting, slots, loop, stop>>

\* METRICS
StatusTask ==
    /\ Working("status")
    /\ TakeTask
    /\ Send(Head(queue).id, "final")
    /\ UNCHANGED <<http, waiting, slots, loop, stop>>

\* SLOT_SAVE, SLOT_RESTORE, SLOT_ERASE
SlotAction ==
    /\ Working("action")
    /\ LET w == want[Head(queue).id[1]].slot
       IN  \/ w = NoSlot /\ Send(Head(queue).id, "error")
           \/ Candidates(Head(queue).id) # {}
              /\ \E r \in {"final", "error"} : Send(Head(queue).id, r)
    /\ TakeTask
    /\ UNCHANGED <<http, waiting, slots, loop, stop>>

ProcessTask ==
    \/ DeferRequest \/ Launch \/ LaunchRejected \/ CancelTask
    \/ NextResponse \/ StatusTask \/ SlotAction

-----------------------------------------------------------------------------
(* start_loop                                                              *)

Goto(from, to) == main = from /\ main' = to

StartLoop ==
    /\ Goto("start", "tasks")
    /\ running' = TRUE
    /\ UNCHANGED <<http, queues, multis, waiting, results, slots, visit, fed, signalled>>

TasksDone ==
    /\ queue = <<>>
    /\ Goto("tasks", "multis")
    /\ UNCHANGED <<http, queues, multis, waiting, results, slots, visit, fed, stop>>

\* mutation: the first subtask that is done finishes the multitask
FinishedFirst(c) == multis[c].open /\ multis[c].left # Subs(c)

\* "all subtasks done == multitask is done": on_finish_multitask
Finished(c) == multis[c].open /\ multis[c].left = {}

FinishMultitask(c) ==
    /\ main = "multis"
    /\ Finished(c)
    /\ results' = IF Reaches(<<c, 0>>) THEN [results EXCEPT ![c] = Append(@, "final")]
                  ELSE results
    /\ multis' = [multis EXCEPT ![c].open = FALSE]
    /\ UNCHANGED <<http, queues, waiting, slots, loop, stop>>

MultitasksDone ==
    /\ \A c \in Clients : ~Finished(c)
    /\ Goto("multis", "update")
    /\ UNCHANGED <<http, queues, multis, waiting, results, slots, visit, fed, stop>>

\* the wait for a task: nothing is missed, the condition is tested first
Decide ==
    /\ main = "wait"
    /\ main' = IF queue # <<>> THEN "tasks" ELSE IF running THEN "asleep" ELSE "ended"
    /\ UNCHANGED <<http, queues, multis, waiting, results, slots, visit, fed, stop>>

Wake ==
    /\ queue # <<>> \/ ~running
    /\ Goto("asleep", "tasks")
    /\ UNCHANGED <<http, queues, multis, waiting, results, slots, visit, fed, stop>>

-----------------------------------------------------------------------------
(* update_slots                                                            *)

\* mutation: the deferred tasks stay where they are
NotifiedNot == queues

\* notify_slot_changed: the deferred tasks go to the end of the queue
Notified == <<queue \o deferred, <<>>>>

\* mutation: nothing keeps the loop going while slots are at work
PostsNothing(q) == q

PostsNext(q) == Append(q, Task("next", NoTask))

\* the slots to be released are; unless all are idle then, one more round is
\* asked for and the batch is built: the tokens sampled last, then prompts
UpdateSlots ==
    LET freed == {s \in Slots : slots[s].command = "release"}
        now   == [s \in Slots |-> IF s \in freed
                    THEN [slots[s] EXCEPT !.state = "idle", !.command = "none"]
                    ELSE slots[s]]
        moved == IF freed = {} THEN queues ELSE Notified
        going == {s \in Slots : now[s].state = "processing"}
        loads == {s \in Slots : now[s].state = "idle" /\ now[s].command = "load"}
    IN  /\ deferred' = moved[2]
        /\ IF going \cup loads = {}
           THEN /\ Goto("update", "wait")
                /\ queue' = moved[1] /\ slots' = now
                /\ UNCHANGED <<visit, fed>>
           ELSE /\ Goto("update", "prompts")
                /\ queue' = PostsNext(moved[1])
                /\ slots' = [s \in Slots |-> IF s \in going
                               THEN [now[s] EXCEPT !.inBatch = TRUE] ELSE now[s]]
                /\ fed' = going
                /\ visit' = IF ContBatching \/ going = {} THEN loads ELSE {}
        /\ UNCHANGED <<http, multis, waiting, results, stop>>

\* The next slot with a prompt to load.  When it is first looked at the prompt
\* turns out empty or too large, or to take a number of batches; the slot is
\* passed over when the batch is full or of another kind, or a part of the
\* prompt is added, or the last part.
LoadPrompt(s) ==
    LET sizes == IF slots[s].steps = 0 THEN 1 .. MaxSteps ELSE {slots[s].steps}
    IN
    /\ main = "prompts" /\ visit # {} /\ s = Lowest(visit)
    /\ visit' = visit \ {s}
    /\ \/ /\ slots[s].steps = 0
          /\ slots' = [slots EXCEPT ![s].state = "processing", ![s].command = "release",
                                    ![s].steps = 1]
          /\ \E r \in {"final", "error"} : Send(slots[s].task, r)
          /\ UNCHANGED fed
       \/ /\ fed # {}
          /\ \E n \in sizes \cup {slots[s].steps} :
                slots' = [slots EXCEPT ![s].steps = n]
          /\ SendNothing
          /\ UNCHANGED fed
       \/ /\ \E n \in sizes \ {1} : slots' = [slots EXCEPT ![s].steps = n - 1]
          /\ fed' = fed \cup {s}
          /\ SendNothing
       \/ /\ 1 \in sizes
          /\ \E n \in 1 .. MaxSteps :
                slots' = [slots EXCEPT ![s].state = "processing", ![s].command = "none",
                                       ![s].steps = n, ![s].inBatch = TRUE]
          /\ fed' = fed \cup {s}
          /\ SendNothing
    /\ UNCHANGED <<http, queues, waiting, main, stop>>

\* The decoding visits the slots with tokens in the batch; and, since i_batch
\* outlives a failed decode, maybe a slot that has none.
PromptsDone ==
    LET old == {s \in Slots : slots[s].state = "processing" /\ slots[s].inBatch}
    IN  /\ visit = {}
        /\ IF fed = {} THEN Goto("prompts", "wait") /\ UNCHANGED visit
           ELSE Goto("prompts", "decode") /\ visit' \in {fed, fed \cup old}
        /\ fed' = {}
        /\ UNCHANGED <<http, queues, multis, waiting, results, slots, stop>>

Samples(s) == slots[s].state = "processing" /\ slots[s].inBatch

\* only a part of the prompt was in the batch
Prefilled(s) ==
    /\ main = "decode" /\ s \in visit /\ ~Samples(s)
    /\ visit' = visit \ {s}
    /\ UNCHANGED <<http, queues, multis, waiting, results, slots, main, fed, stop>>

\* a token is sampled; a part of the text is sent when it is streamed
Sample(s) ==
    /\ main = "decode" /\ s \in visit /\ Samples(s) /\ slots[s].steps > 0
    /\ slots' = [slots EXCEPT ![s].steps = @ - 1,
                              ![s].inBatch = slots[s].steps = 1]
    /\ visit' = IF slots[s].steps = 1 THEN visit ELSE visit \ {s}
    /\ \/ SendNothing
       \/ want[slots[s].task[1]].stream /\ Send(slots[s].task, "partial")
    /\ UNCHANGED <<http, queues, waiting, main, fed, stop>>

\* it was the last one: the slot is released, the response is sent
Finish(s) ==
    /\ main = "decode" /\ s \in visit /\ Samples(s) /\ slots[s].steps = 0
    /\ slots' = [slots EXCEPT ![s] = [Released(@) EXCEPT !.inBatch = FALSE]]
    /\ visit' = visit \ {s}
    /\ Send(slots[s].task, "final")
    /\ UNCHANGED <<http, queues, waiting, main, fed, stop>>

DecodeDone ==
    /\ visit = {}
    /\ Goto("decode", "wait")
    /\ UNCHANGED <<http, queues, multis, waiting, results, slots, visit, fed, stop>>

\* llama_decode fails between two views of the batch
DecodeFailed ==
    /\ DecodeFails
    /\ visit # {} /\ \A s \in visit : ~(Samples(s) /\ slots[s].steps = 0)
    /\ Goto("decode", "fail")
    /\ visit' = Slots
    /\ UNCHANGED <<http, queues, multis, waiting, results, slots, fed, stop>>

\* mutation: the slot is idle at once, and nobody is notified
FailedIdle(sl) == [sl EXCEPT !.state = "idle", !.command = "none"]

FailedSlot(sl) == [sl EXCEPT !.state = "processing", !.command = "release"]

\* every slot is released with an error, idle or not
FailSlot(s) ==
    /\ main = "fail" /\ s \in visit /\ s = Lowest(visit)
    /\ slots' = [slots EXCEPT ![s] = FailedSlot(@)]
    /\ visit' = visit \ {s}
    /\ Send(slots[s].task, "error")
    /\ UNCHANGED <<http, queues, waiting, main, fed, stop>>

FailDone ==
    /\ visit = {}
    /\ Goto("fail", "wait")
    /\ UNCHANGED <<http, queues, multis, waiting, results, slots, visit, fed, stop>>

-----------------------------------------------------------------------------
\* the signal handler: terminate
Terminate ==
    /\ Signals /\ ~signalled
    /\ signalled' = TRUE
    /\ running' = FALSE
    /\ UNCHANGED <<http, queues, multis, waiting, results, slots, loop>>

Init ==
    /\ want \in Wants
    /\ handler = [c \in Clients |-> "new"]
    /\ posted = [c \in Clients |-> 0]
    /\ queue = <<>> /\ deferred = <<>>
    /\ multis = [c \in Clients |-> [open |-> FALSE, left |-> {}, got |-> <<>>]]
    /\ waiting = {}
    /\ results = [c \in Clients |-> <<>>]
    /\ slots = [s \in Slots |-> [state |-> "idle", command |-> "none", task |-> NoTask,
                                 steps |-> 0, inBatch |-> FALSE]]
    /\ main = "start" /\ visit = {} /\ fed = {}
    /\ running = FALSE /\ signalled = FALSE

MainStep ==
    \/ StartLoop \/ ProcessTask \/ TasksDone
    \/ (\E c \in Clients : FinishMultitask(c)) \/ MultitasksDone
    \/ UpdateSlots \/ (\E s \in Slots : LoadPrompt(s)) \/ PromptsDone
    \/ (\E s \in Slots : Prefilled(s) \/ Sample(s) \/ Finish(s)) \/ DecodeDone
    \/ DecodeFailed \/ (\E s \in Slots : FailSlot(s)) \/ FailDone
    \/ Decide \/ Wake

Next == MainStep \/ (\E c \in Clients : Handle(c)) \/ Terminate

\* Every thread that can take a step takes it in the end.
Spec == Init /\ [][Next]_vars /\ WF_vars(MainStep) /\ \A c \in Clients : WF_vars(Handle(c))

-----------------------------------------------------------------------------
(* Properties.                                                             *)

Ends == {"final", "error"}

\* the slot works on the task and has not finished it
Holds(s, id) ==
    /\ slots[s].task = id
    /\ <<slots[s].state, slots[s].command>> \in {<<"idle", "load">>, <<"processing", "none">>}

\* how many entries of a queue are in S
Occurrences(seq, S) == Cardinality({i \in DOMAIN seq : seq[i] \in S})

\* how many places hold the task id, to be worked off
ToDo(id) == {Task(type, id) : type \in {"completion", "status", "action"}}

Holders(id) ==
    Occurrences(queue, ToDo(id)) + Occurrences(deferred, ToDo(id))
      + Cardinality({s \in Slots : Holds(s, id)})

PostedIds(c) ==
    IF want[c].prompts > 1 THEN {<<c, i>> : i \in 1 .. posted[c]}
    ELSE IF handler[c] \in {"new", "post"} THEN {} ELSE {<<c, 0>>}

\* how many results that end the task id there are, of which none is read
Answers(id) ==
    IF id[2] = 0 THEN Occurrences(results[id[1]], Ends)
    ELSE Occurrences(multis[id[1]].got, {id} \X Ends)

\* A request that is waited for is never lost and never doubled on its way from
\* the queue through deferral and slot to its result: at every moment each of
\* its tasks is in exactly one of these places.  (A slot action is posted
\* before it is waited for; see EveryRequestAnswered.)
HeldOnce ==
    \A c \in Clients :
       handler[c] \in {"split", "stream", "recv"} /\ want[c].kind # "action" =>
        \A id \in PostedIds(c) : Holders(id) + Answers(id) = 1

\* A response ends once: nothing follows the result that stops it, so a handler
\* that stops reading leaves nothing of its own in queue_results.
EndsOnce ==
    \A c \in Clients :
       /\ \A i \in 1 .. Len(results[c]) - 1 : results[c][i] = "partial"
       /\ handler[c] = "answered" => results[c] = <<>>

\* "all subtasks done == multitask is done": when no subtask remains, each has
\* sent one result that ends it, in whatever order they came.
DoneWhenAllDone ==
    \A c \in Clients : Finished(c) =>
       \A id \in Subs(c) : Occurrences(multis[c].got, {id} \X Ends) = 1

\* The loop sleeps only when there is nothing to do: no slot is at work, and no
\* deferred task could run, except one for a slot that does not exist.
SleepsOnlyIdle ==
    main = "asleep" /\ queue = <<>> =>
       /\ \A s \in Slots : Available(s)
       /\ \A i \in DOMAIN deferred : want[deferred[i].id[1]].slot = NoSlot

\* A handler that waits for a result gets one, and ends.
EveryRequestAnswered ==
    \A c \in Clients : handler[c] = "recv" ~> handler[c] = "done"

\* When all handlers have ended, the work they have left behind is done in the
\* end, and the server sleeps with nothing but idle slots.
Drains ==
    (\A c \in Clients : handler[c] = "done") ~>
       /\ main = "asleep" /\ queue = <<>> /\ deferred = <<>>
       /\ \A c \in Clients : ~multis[c].open

=============================================================================
