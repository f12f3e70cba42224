------------------------------ MODULE Pipeline ------------------------------
(***************************************************************************)
(* ggml_backend_sched_graph_compute_async for one batch after another: the *)
(* host walks the splits, copies their inputs and queues the computations; *)
(* each device works through its own stream.  With n_copies > 1 a batch    *)
(* uses the next copy of every input, so that devices may work on several  *)
(* batches at a time; events tell when a copy may be written again.        *)
(***************************************************************************)
EXTENDS Integers, Sequences

CONSTANTS
    Setups,    \* the devices and the graph, see SetupType
    Batches    \* batches that are decoded in a run

\* splits: sequence of [backend, inputs]; an input is "user" (set by the host
\* in its own memory) or "hidden" (the result of the split before).  Backend 0
\* is the CPU, which computes while the host waits.
\* events: the backends have them; peers: devices can write to each other.
\* eval: a callback looks at results, so that the host waits for each.
\* ahead: batches until the user asks for results, which waits for all.
SetupType ==
    [splits : Seq([backend : Nat, inputs : Seq({"user", "hidden"})]) \ {<<>>},
     n_copies : Nat \ {0}, events : BOOLEAN, peers : BOOLEAN, eval : BOOLEAN, ahead : Nat \ {0}]

ASSUME PipelineAssumption ==
    /\ Batches \in Nat
    /\ \A u \in Setups :
          /\ u \in SetupType
          /\ \A k \in DOMAIN u.splits[1].inputs : u.splits[1].inputs[k] = "user"

VARIABLES
    setup,
    cur_copy,
    i, j,       \* the split and the input the host is at
    next,       \* what the host does next
    batch,      \* the batch the host queues, 0 before the first
    stream,     \* per device, the operations it still has to do
    busy,       \* per device, whether it is in the middle of its computation
    recorded,   \* records queued per event, <<backend, copy>>
    reached,    \* records done per event
    copied,     \* copies between devices done, as <<split, input, batch>>
    slot,       \* the batch whose data a copy of an input holds
    hidden      \* the batch whose result a split holds

pipevars ==
    <<setup, cur_copy, i, j, next, batch, stream, busy, recorded, reached, copied, slot, hidden>>
queues == <<stream, busy, recorded, reached, copied>>

NSplits == Len(setup.splits)
Split(s) == setup.splits[s]
Backends == {Split(s).backend : s \in 1 .. NSplits}
Devices == Backends \ {0}
Copies == 0 .. setup.n_copies - 1
HasEvents == setup.events /\ setup.n_copies > 1

Here == Split(i)
Source == IF i = 1 THEN 0 ELSE Split(i - 1).backend
Event == <<Here.backend, cur_copy>>

Slots(s) == {<<s, k, c>> : k \in DOMAIN Split(s).inputs, c \in Copies}

PipeInit ==
    /\ setup \in Setups
    /\ cur_copy = 0 /\ i = 1 /\ j = 1 /\ next = "next" /\ batch = 0
    /\ stream = [b \in Devices |-> <<>>] /\ busy = [b \in Devices |-> FALSE]
    /\ recorded = [e \in Backends \X Copies |-> 0] /\ reached = recorded
    /\ copied = {}
    /\ slot = [x \in UNION {Slots(s) : s \in 1 .. NSplits} |-> 0]
    /\ hidden = [s \in 1 .. NSplits |-> 0]

Queue(b, ops) == stream' = [stream EXCEPT ![b] = @ \o ops]

\* ggml_backend_synchronize; the CPU has nothing to wait for
Idle(b) == b \in Devices => stream[b] = <<>>
AllIdle == \A b \in Devices : Idle(b)

\* mutation: the host waits for a record that comes only after the copy
NextReached == Here.backend \in Devices => reached[Event] > recorded[Event]

\* ggml_backend_event_synchronize, which the CPU does not have
EventReached == Here.backend \in Devices => reached[Event] = recorded[Event]

\* mutation: the host does not wait for the batch that used the copy before
NeverInUse == TRUE

\* the host waits until the split has used this copy of its inputs
NotInUse == IF HasEvents THEN EventReached ELSE Idle(Here.backend)

Then(p) == next' = p
Stay == UNCHANGED <<setup, cur_copy, batch>>

----------------------------------------------------------------------------
(* The host.                                                               *)

\* The next batch: its graph fits, and llama_set_inputs writes host memory
\* that only the host reads.
Begin ==
    /\ next = "next" /\ batch < Batches
    /\ batch' = batch + 1 /\ i' = 1 /\ j' = 1 /\ Then("input")
    /\ UNCHANGED <<setup, cur_copy, queues, slot, hidden>>

\* ... or it does not, and ggml_backend_sched_alloc_splits reserves again
Realloc ==
    /\ next = "next" /\ batch < Batches /\ AllIdle
    /\ batch' = batch + 1 /\ i' = 1 /\ j' = 1 /\ Then("input")
    /\ slot' = [x \in DOMAIN slot |-> 0]
    /\ hidden' = [s \in DOMAIN hidden |-> 0]
    /\ UNCHANGED <<setup, cur_copy, queues>>

NextInput == j' = j + 1 /\ Then("input") /\ UNCHANGED i

At(kind) == next = "input" /\ j <= Len(Here.inputs) /\ Here.inputs[j] = kind

CopyUser ==
    /\ At("user") /\ NotInUse
    /\ slot' = [slot EXCEPT ![<<i, j, cur_copy>>] = batch]
    /\ NextInput /\ Stay /\ UNCHANGED <<queues, hidden>>

\* ggml_backend_event_wait makes the stream of the split wait, not the host
BeginHidden ==
    /\ At("hidden")
    /\ IF HasEvents
       THEN IF Here.backend \in Devices
            THEN Queue(Here.backend, <<[op |-> "wait", event |-> Event, n |-> recorded[Event]]>>)
            ELSE UNCHANGED stream
       ELSE Idle(Here.backend) /\ UNCHANGED stream
    /\ Then("copy")
    /\ Stay /\ UNCHANGED <<i, j, busy, recorded, reached, copied, slot, hidden>>

Peers == setup.peers /\ Here.backend \in Devices /\ Source \in Devices

\* ggml_backend_cuda_cpy_tensor_async: the copy runs on the stream of the
\* source, and the stream of the split waits for it
CopyAsync ==
    /\ next = "copy" /\ Peers
    /\ LET op == [op |-> "copy", s |-> i, j |-> j, c |-> cur_copy, k |-> batch]
           done == [op |-> "copied", id |-> <<i, j, batch>>]
       IN  stream' = IF Source = Here.backend
                     THEN [stream EXCEPT ![Source] = Append(@, op)]
                     ELSE [stream EXCEPT ![Source] = Append(@, op),
                                         ![Here.backend] = Append(@, done)]
    /\ NextInput /\ Stay /\ UNCHANGED <<busy, recorded, reached, copied, slot, hidden>>

CopySync ==
    /\ next = "copy" /\ ~Peers
    /\ Idle(Source) /\ NotInUse
    /\ slot' = [slot EXCEPT ![<<i, j, cur_copy>>] = hidden[i - 1]]
    /\ NextInput /\ Stay /\ UNCHANGED <<queues, hidden>>

HasInputs(s) == \A k \in DOMAIN Split(s).inputs : slot[<<s, k, cur_copy>>] = batch

\* The CPU computes before the call returns.
ComputeHere ==
    /\ next = "input" /\ j > Len(Here.inputs) /\ Here.backend = 0
    /\ hidden' = [hidden EXCEPT ![i] = IF HasInputs(i) THEN batch ELSE -1]
    /\ Then("record")
    /\ Stay /\ UNCHANGED <<i, j, queues, slot>>

AfterBatch == IF batch % setup.ahead = 0 \/ batch = Batches THEN "results" ELSE "next"

\* The abort callback stops it: the copy is not rotated, and
\* llama_graph_compute does not tell llama_decode.
Fail ==
    /\ next = "input" /\ j > Len(Here.inputs) /\ Here.backend = 0
    /\ hidden' = [hidden EXCEPT ![i] = -1]
    /\ Then(AfterBatch)
    /\ Stay /\ UNCHANGED <<i, j, queues, slot>>

ComputeAsync ==
    /\ next = "input" /\ j > Len(Here.inputs) /\ Here.backend \in Devices
    /\ Queue(Here.backend, <<[op |-> "compute", s |-> i, c |-> cur_copy, k |-> batch]>>)
    /\ Then(IF setup.eval THEN "look" ELSE "record")
    /\ Stay /\ UNCHANGED <<i, j, busy, recorded, reached, copied, slot, hidden>>

Look ==
    /\ next = "look" /\ Idle(Here.backend)
    /\ Then("record")
    /\ Stay /\ UNCHANGED <<i, j, queues, slot, hidden>>

\* ggml_backend_event_record
Record ==
    /\ next = "record"
    /\ IF HasEvents /\ Here.inputs # <<>> /\ Here.backend \in Devices
       THEN /\ recorded' = [recorded EXCEPT ![Event] = @ + 1]
            /\ Queue(Here.backend, <<[op |-> "record", event |-> Event]>>)
       ELSE UNCHANGED <<recorded, stream>>
    /\ IF i < NSplits
       THEN i' = i + 1 /\ j' = 1 /\ Then("input") /\ UNCHANGED cur_copy
       ELSE /\ cur_copy' = (cur_copy + 1) % setup.n_copies
            /\ Then(AfterBatch)
            /\ UNCHANGED <<i, j>>
    /\ UNCHANGED <<setup, batch, busy, reached, copied, slot, hidden>>

\* llama_synchronize
Results ==
    /\ next = "results" /\ AllIdle
    /\ Then("next")
    /\ Stay /\ UNCHANGED <<i, j, queues, slot, hidden>>

Host ==
    \/ Begin \/ Realloc \/ CopyUser \/ BeginHidden \/ CopyAsync \/ CopySync
    \/ ComputeHere \/ Fail \/ ComputeAsync \/ Look \/ Record \/ Results

----------------------------------------------------------------------------
(* The devices.                                                            *)

Doing(b, name) == stream[b] # <<>> /\ Head(stream[b]).op = name
Done(b) == stream' = [stream EXCEPT ![b] = Tail(@)]
HostStays == UNCHANGED <<setup, cur_copy, i, j, next, batch, recorded>>

Wait(b) ==
    /\ Doing(b, "wait") /\ reached[Head(stream[b]).event] >= Head(stream[b]).n
    /\ Done(b) /\ HostStays /\ UNCHANGED <<busy, reached, copied, slot, hidden>>

AwaitCopy(b) ==
    /\ Doing(b, "copied") /\ Head(stream[b]).id \in copied
    /\ Done(b) /\ HostStays /\ UNCHANGED <<busy, reached, copied, slot, hidden>>

Copy(b) ==
    LET op == Head(stream[b])
    IN  /\ Doing(b, "copy")
        /\ slot' = [slot EXCEPT ![<<op.s, op.j, op.c>>] = hidden[op.s - 1]]
        /\ copied' = copied \cup {<<op.s, op.j, op.k>>}
        /\ Done(b) /\ HostStays /\ UNCHANGED <<busy, reached, hidden>>

Start(b) ==
    /\ Doing(b, "compute") /\ ~busy[b]
    /\ busy' = [busy EXCEPT ![b] = TRUE]
    /\ HostStays /\ UNCHANGED <<stream, reached, copied, slot, hidden>>

Finish(b) ==
    /\ busy[b]
    /\ busy' = [busy EXCEPT ![b] = FALSE]
    /\ hidden' = [hidden EXCEPT ![Head(stream[b]).s] = Head(stream[b]).k]
    /\ Done(b) /\ HostStays /\ UNCHANGED <<reached, copied, slot>>

Reach(b) ==
    /\ Doing(b, "record")
    /\ reached' = [reached EXCEPT ![Head(stream[b]).event] = @ + 1]
    /\ Done(b) /\ HostStays /\ UNCHANGED <<busy, copied, slot, hidden>>

Device(b) == Wait(b) \/ AwaitCopy(b) \/ Copy(b) \/ Start(b) \/ Finish(b) \/ Reach(b)

Ended == next = "next" /\ batch = Batches /\ AllIdle /\ UNCHANGED pipevars

PipeNext == Host \/ (\E b \in Devices : Device(b)) \/ Ended

\* The host is one thread; the driver works on every stream.
PipeFairness == WF_pipevars(Host) /\ \A b \in 1 .. 3 : WF_pipevars(b \in Devices /\ Device(b))

PipeSpec == PipeInit /\ [][PipeNext]_pipevars /\ PipeFairness

----------------------------------------------------------------------------

\* A device that computes has the data of its batch in all its inputs, from
\* the start to the end: a copy is not written while the batch that used it
\* before is still at work, nor read before it is written.
ComputesOwnInputs ==
    \A b \in Devices : busy[b] =>
        LET op == Head(stream[b])
        IN  \A k \in DOMAIN Split(op.s).inputs : slot[<<op.s, k, op.c>>] = op.k

\* However host and devices wait for each other, every batch is queued, or
\* fails, and all devices come to rest.
AllComputed == <>(next = "next" /\ batch = Batches /\ AllIdle)

=============================================================================
