# A TLA+ model of llama.cpp

This directory holds TLA+ modules for the parts of llama.cpp whose correctness
depends on state that lives across calls or on several threads: the KV cache and
its snapshots, the output rows of a batch, the task queue, slots and result queue
of `llama-server`, and the machinery of ggml: the thread team, the allocator, the
backend scheduler with its devices, the RPC server. Around them are three
sequential algorithms that are hard to test: speculative decoding, the merges of
the tokenizers, sampling under a grammar. TLC checks them on small instances. For
the KV cache and its snapshots, the server's queues, the thread team, the RPC
server, the allocator's plans, the pipeline of devices, the recurrent cache and the
output rows TLAPS proves the main properties for every size. (The repository is llama.cpp as of summer 2024;
nothing in it records or replays anything, whatever its name says.)

    tlc -config MCKVCache.cfg MCKVCache      # one run; PROJECT.json lists all
    tlapm KVCache_proofs.tla                 # the proofs

`PROJECT.json` maps each definition to the lines it models, lists the runs, the
mutations that show each property can fail, the findings, the hazards and the
theorems.

## 1. The system

| component | state | operations | hard parts |
|---|---|---|---|
| KV cache (`src/llama.cpp`, `llama_kv_cache_*`) | cells (position, pending delta, sequences), the K/V rows they describe, `head`, `used`, `n`, two flags | clear, seq_rm, seq_cp, seq_keep, seq_add, seq_div, defrag, update, find_slot | cells change at once and rows later; a counter kept by hand; a ring search; a defragmentation with a bounded number of moves |
| decode (`llama_decode_internal`) | the batch in work, the output buffer | split into ubatches, find a slot, compute | fails half way and leaves what it placed |
| recurrent state cache | one cell per sequence | the same API | copies by reference between cells |
| state save and restore (`write_kv_cache`, `read_kv_cache`) | the snapshot | whole cache or one sequence, memory or file | pending shifts, failure in the middle, empty snapshots |
| server queue (`server_queue`) | `queue_tasks`, `queue_tasks_deferred`, `queue_multitasks`, `running` | post, defer, notify_slot_changed, terminate, start_loop | wakes itself; deferral; a vector iterated without the lock |
| server results (`server_response`) | `waiting_task_ids`, `queue_results` | add/remove_waiting, recv, send | a result nobody waits for is dropped |
| server handlers | one thread per request | completions, chat, infill, embeddings, status, slot actions, lora | the order of registration and posting; broken connections; cancel |
| server slots (`server_slot`, `update_slots`) | state and command, task, `n_past`, `cache_tokens`, `i_batch` | launch, load prompt, sample, release, context shift, self-extend | decode failures, retry in halves, the prompt cache against the KV cache |
| tensor allocator (`ggml-alloc.c`) | free blocks, a record per tensor of readers, views and address, the plan of the last graph | alloc, free, reserve, alloc_graph | tensors computed in place of their sources, views that keep memory alive, a plan used for another graph |
| backend scheduler (`ggml-backend.c`) | backend of each tensor, splits, copies, events | split, allocate, compute asynchronously | five passes that must agree; copies overwritten while a device still reads them |
| CPU threads (`ggml.c`) | barrier counters, chunk counter, work buffer, status | graph compute, chunks of products | a spinning barrier used again and again; one counter for all products; an abort |
| RPC backend (`ggml-rpc.cpp`) | sockets, buffers of the connection | calls on buffers and tensors | one client at a time, clients that hang up |
| speculative decoding (`speculative.cpp`) | two KV caches, a tree of branches, two batches | draft, split, verify, keep | indices into the rows of two models, caches rolled back by hand |
| grammar (`llama-grammar.cpp`) | stacks of positions in rules, a partial character | accept, reject candidates, detect left recursion | tokens that cut characters, recursion without end |
| tokenizers (`llama-vocab.cpp`) | chain of symbols, queue of pairs | merge, skip | pairs that are stale when they come up |
| kernels, quantization, GPU drivers, GGUF, command-line programs | | | numerics and I/O: left out |

They interact by calls, except in the server. An HTTP thread posts a task under
`mutex_tasks` and blocks in `recv` under `mutex_results`; the main thread takes
tasks, moves slots, calls `llama_decode` and the `llama_kv_cache_seq_*`
functions (slot *i* owns sequence *i + 1*, the system prompt is sequence 0), and
sends results. Below `llama_decode` the host walks the splits of a graph, queues
work on devices that go on by themselves, and on the CPU meets its workers at a
barrier after each operation. `send` takes `mutex_tasks` inside `mutex_results`
to add a part of a multitask; nothing takes them the other way round.

What makes each part correct:

* KV cache: `used` is exact; a row matches its cell up to the pending shift; the
  searches and moves lose nothing; the layout cannot be seen by a caller.
* Snapshots: what is restored is what was saved; a failed restore harms no other
  sequence.
* Server: each task is in one place until it is answered, once; whoever waits is
  answered; the loop never sleeps while there is work; cancel, multitask and
  shutdown do what their comments say.
* Output rows: token *i* of a batch finds the row computed for it, wherever the
  ubatches were cut; a state can be saved whenever a caller may ask for it.
* Threads: every element of a result is computed once, after what it reads, and
  all threads leave.
* Allocator and scheduler: memory is given out once; what an operation reads is
  what was written for it, in memory it can read, on a backend that can run it;
  a device computes each batch on the data of that batch.
* RPC: a client reads what it wrote, and nothing outlives its connection.
* Speculative decoding, grammar, tokenizer: the result is that of the plain
  definition, whatever was drafted, cut or queued.
* Slots on the cache: a slot samples from its own text and nothing else, whatever
  of it was reused, shifted or shared; the cache is never asked for more than it
  has.

## 2. Modules

| module | models | state |
|---|---|---|
| `KVLayout` | which cells find_slot returns and which cells a defragmentation moves, as sets and functions | none |
| `FindSlotLoop` | the loop of find_slot, an iteration a step | `occ`, `head`, `tested` |
| `DefragLoop` | the loops of the defragmentation and of `build_defrag` | cells, `ids`, loop variables |
| `KVCache` | every operation of the cache, and decode ubatch by ubatch | `cache` (= `kv_self` with the rows), `call` (rest of the batch) |
| `SeqStore` | what `llama.h` promises: a set of tokens with positions and sequences | `store`, `pending` |
| `KVState` | saving and restoring, between all the calls of `KVCache` | `snap`, `ended` |
| `Server` | requests, handlers, queues, slots, main loop, signals | see below |
| `SlotCache` | slots and `update_slots` on top of `KVCache`, token by token | `cache`, `call`, `slots`, `system`, the batch and where the loop is |
| `Recurrent` | the same API on the cache of a recurrent model, one cell per sequence | `pos`, `has`, `src`, `do_copy`, `rows` |
| `Outputs` | the ids and rows of a batch, decode ubatch by ubatch, saving and restoring them | `batch`, `output_ids`, `out_rows`, `n_outputs` |
| `Rounds` | a barrier: all arrive before any crosses | `arrived`, `crossed` |
| `SpinBarrier` | `ggml_barrier`, an atomic access a step | `at`, `n_barrier`, `n_barrier_passed` |
| `ThreadTeam` | `ggml_graph_compute` on top of it: nodes, chunks, work buffer, abort | place and node of each thread, `current_chunk`, `ec`, what is written |
| `FreeList` | what alloc and free make of a list of free blocks | none |
| `DynAlloc` | an allocator and any user of it | `free_blocks`, `max_size`, `live` |
| `GraphAlloc` | `ggml_gallocr` for one graph after another | `hn`, `blocks`, the plan (`allocs`), addresses (`data`) |
| `SplitGraph`, `Sched` | the five passes, and the scheduler that splits, copies and allocates | `ids`, `splits`, and those of `GraphAlloc` |
| `Pipeline` | the compute loop, its devices and their streams | place of the host, `stream`, events, copies |
| `Rpc` | the RPC server and its clients | sockets, `request`, `answer`, `buffers`, `heap` |
| `Speculative`, `Merges`, `Grammar` | the three algorithms | theirs |
| `TensorMemory` | the memory of buffers and tensors during a plan (used by `GraphAlloc`) | `hn`, `blocks`, `maxs` |
| `KVLayout_proofs` (lemmas on the layout), `KVCache_proofs` (the cache and its snapshots), `Loops_proofs` (the loops of the cache, the recurrent cache, the outputs), `ThreadTeam_proofs`, `Server_proofs`, `Devices_proofs` (RPC and pipeline), `GraphAlloc_proofs`, `SlotCache_proofs` | lemmas and theorems | |
| `MC*` | instances | |

**KVCache.** A cell is one index into functions `pos`, `delta`, `seqs`; the row
under it is the token it was computed from and the rotation it has now, which is
all that attention can tell apart. A context is used by one thread, so each API
call is one action (`CallSeqRm`, ...), except decode: it takes a ubatch a step
and runs `llama_kv_cache_update` before each, as the code does. `Updates`
applies the K-shift and then the defragmentation. `SeqAdd` with an empty range
returns before it touches `head`, like the code; `SeqDiv` has no such early
return for a zero range in the model because the call is not made then. What the
loops compute is stated in `KVLayout` without loops; `FindSlotLoop` and
`DefragLoop` show the loops compute just that.

`ImplementsStore` is the refinement: with `store` read off the live cells,
`KVCache` implements `SeqStore`, in which searching, shifting rows and
defragmenting do not exist.

**KVState.** A snapshot is the cells in index order with position, sequences
(whole cache only) and row. A cut file throws an exception that passes by the
cleanup in `read_kv_cache`, so the half-read states stay (`LoadSeqCut`,
`LoadAllCut`); a behaviour is not followed past one, nor past the failed
assertion of an empty snapshot (`ended`). Two constants say what callers do:
apply shifts before they save or restore (`Settled`), and which kinds of
snapshot may be cut short (`Cut`). With shifts applied the cache stays coherent
until a restore of the whole cache is cut short; section 5 says what happens
then, and without the shifts.

**Server.** A step is one critical section on `mutex_tasks` or `mutex_results`
together with the work of its thread up to the next one. The ids are
`<<client, 0>>` for a request and `<<client, i>>` for its *i*-th prompt, so
`id_multi` is a function of the id and the counter of ids is not needed.
`queue_results` is kept as one sequence per request, since `recv` takes the
first result of its id. A slot has its state, command, task, and two numbers
that stand for what it computes: `steps`, the batches its prompt or its
generation still takes, and `inBatch` (`i_batch` is not -1). The main thread
goes `tasks` -> `multis` -> `update` -> `prompts` -> `decode` (-> `fail`) ->
`wait` (-> `asleep` or `ended`), as in `start_loop` and `update_slots`. Which
slot similarity or age selects is left open; so is when a decode fails, when
part of a text is sent, and when a connection breaks.

**SlotCache.** Where `Server` counts batches, this module follows the tokens. It
instantiates `KVCache`: slot *i* owns sequence *i + 1*, the system prompt is
sequence 0 and is copied to all the others, and the server calls `SeqRm`,
`SeqAdd`, `SeqCp`, `Clear` and decodes a view of its batch ubatch by ubatch. One
round of `update_slots` is `Update`, then `Go` for each slot (context shift and
the token sampled last), `Load` for each slot (tokenized, truncated, reused,
added while the batch has room), and `DecodeView`, `DecodeUbatch`, `Sample` or
`NoRoom` until the batch is done. The code shifts all slots before it adds their
tokens; `Go` does both slot by slot, which is the same because adding a token
reads nothing another slot's shift changes. The ghost `seen` in a slot is its text
as the cache should have it. The constant `Uses` says what the server is asked:
a sequence of requests, whether idle slots are erased, and whether a request may
come before the loop has first been idle.

**Recurrent.** Cell *s* keeps the one state of sequence *s*. `seq_cp` only sets
`src`; the next update copies all states at once, and a cell that does not hold
its sequence is cleared when a batch next covers it. A state in `rows` is the
sequence of tokens it was fed; a token of several sequences continues the first.
`AnyChain` allows the copies the comment in `seq_cp` would not (section 5). The
ghost `hist` is what each sequence was given. What a batch adds to each sequence is
`Trace`, a function on the batch's prefixes: the state a sequence continues from and
the tokens since.

**Outputs.** `Begin` is what `llama_decode_internal` does before its loop, with
`llama_output_reserve`; then a ubatch a step, which may find no slot. A row is
named by the decode and the token it was computed for (`out_rows`). `SavesAnyTime` says
whether a caller may save a state after a decode that returned 1.

**SpinBarrier, ThreadTeam.** Every access to an atomic is a step: load
`n_barrier_passed`, add to `n_barrier`, and either reset, open, or spin. With
`arrived` and `crossed` it is the barrier of `Rounds`. A thread of the team
walks the nodes: `Compute` its stripes of an operator, or for a product convert
its rows of `src1`, set the counter (thread 0), meet the others, and take
chunks; after the barrier of a node it reads the status that thread 0 may have
set. A history counts what is written twice, and who reads rows that are not
converted for this node.

**FreeList, DynAlloc, GraphAlloc.** `FreeList` gives the list `Freed` and the
choice of `BestFit` as functions of the list, merges with both neighbours
included. `DynAlloc` is the abstract specification: any user allocates, hands
over and frees in any order. `GraphAlloc` walks a graph as
`ggml_gallocr_alloc_graph_impl` does, an operation a step, keeps the counts of
children and views, stores the plan and places the graph. What the operations
then find in memory, computed in order, is the property `ReadsItsSources`.
`IsDynAlloc` is the refinement: all of this uses an allocator as `DynAlloc`
says. A graph is then followed by one of the same shape and other sizes, for
which the plan may be kept.

**SplitGraph, Sched.** Each of the five passes is an action. The last one starts a
new split when the current one is full; an operation with two sources to copy
overfills a split that has one place left, and the program ends (`Abort`, the
FIXME of `ggml-backend.c:1530`). A backend supports the operators it lists: BLAS
neither leafs nor views, the others both. `Sched` puts the copies of the sources
into the graph as `ggml_backend_sched_split_graph` does and hands it to
`GraphAlloc` with one buffer per type of memory.

**Pipeline.** The host walks splits and inputs; a device is a queue of copies,
waits, computations and records of events, done in order and independently of
the others. Copies between peers go to the stream of the source, as in
`ggml_backend_cuda_cpy_tensor_async`. `slot` is the batch whose data an input
holds.

**Rpc.** One action per call of the server and per step of a client. The server
accepts, serves one connection until it closes, and frees its buffers. Memory of
the server has the value last written.

**Speculative, Merges, Grammar.** `Speculative` has the caches as sets of cells,
each with the text its token saw, so that a row is right if that text is what
was put out. `Merges` has the queue of both tokenizers, and the definition they
implement next to it. `Grammar` decodes UTF-8 byte by byte with its own
arithmetic, and compares with the set of sentences of the grammar.

`MCLoops` and `MCDevices` put several of these side by side: a behaviour is one
of them, while the others have ended. `MCDevices` extends the modules whose
properties are proved (`Pipeline`, `Rpc`, `ThreadTeam`, `TensorMemory`), `MCLoops`
`FindSlotLoop`, `DefragLoop`, `Recurrent` and `Outputs`, and both instantiate the
others; `GraphAlloc` is reached through `Sched`.

## 3. Runs

| run | instance | shows |
|---|---|---|
| `kvcache` | 3 cells, 2 sequences, ubatch 2, batches of up to 3 tokens | `TypeOK`, `UsedExact`, `RowsCoherent`, `DefragHasPlan`, `AttendsAll`, `ImplementsStore` |
| `kvstate` | 3 cells, shifts by -1, snapshots of any sequence or all, any of which may be cut | `CacheRestored`, `RestoresAll`, `RestoresSequence` |
| `loops` | see below | the search ends and finds the first free window (`SearchIsFirstFit`, `Terminates`); the defragmentation follows the plan of `KVLayout` within its graph (`DefragFollowsPlan`); `StatesFollow`, `SamplesItsText`, `GivesOwnRows`, `MergesGreedily`, `FollowsGrammar` |
| `devices` | see below | threads: `WrittenOnce`, `ReadsReady`, `IsBarrier` (refinement), `Returns`; devices: `ComputesOwnInputs`, `AllComputed`; RPC: `ReadsItsWrites`, `NothingLeaks`, `AllServed`; scheduler and allocator: `RunsWhereItCan`, `MemoryTiled`, `ReadsItsSources`, `IsDynAlloc` (refinement) |
| `server` | a request with two prompts and one of: a stream, a slot-bound prompt, a status query, a slot action; 2 slots, prompts and generations of up to 2 batches, rejected launches, a signal | `HeldOnce`, `EndsOnce`, `DoneWhenAllDone`, `SleepsOnlyIdle` |
| `server_live` | up to three tasks for two slots, launches and decodes that fail, no continuous batching | `EveryRequestAnswered`, `Drains` |
| `slotcache` | 2 slots of 5 cells, batches of 3, every order of three of four requests (three that reuse the prompt cache, one of them too long, and one that does not), with erased slots; and every order with and without a new system prompt | `SeesItsText`, `CachedIsStored`, `AlwaysRoom`, `PromptFits` |
| `team_abort`, `outputs_full`, `grammar_nullable`, `server_lost`, `slotcache_retry` | callers and inputs the passing runs exclude | violations, see section 5 |

`loops` has: every occupation, head and length of a search, and every layout of
a defragmentation with 2 moves, in 8 cells; every sequence of calls on 3
recurrent cells with positions up to 1; drafts of 3 tokens in up to 3 branches,
until 4 tokens are put out; batches of up to 4 tokens with any flags in ubatches
of 2; all words of 5 letters `a`, `b` that begin with `a`, with every ranking of
5 pairs or tokens; grammars of two rules with two alternates, over characters of
one to three bytes and 13 tokens, texts of 4 bytes.

`devices` has: 3 threads on four graphs with ragged chunks, aborts and the
special branches of the product; 4 batches on two devices with one or two
copies, with and without events, peers and a callback; 2 RPC clients with 3
calls; every graph of three operations, eight transformer-like layers, and nine
graphs whose operators read more than a split may copy (2 instead of 10), so that
splits are full and overfull, on two computers with three backends each, allocated
twice.

**Bounds, and why they are enough.** Three cells are the least with a hole
between two tokens, a window that does not fit behind the head, and a full
cache; eight, in `loops`, are the least in which three runs are to move and the
graph holds two. Positions go up to `MaxPos` 2 and shifts by one, so a token can
pass 0 and be dropped. A batch of three with ubatches of two has a part that is
placed and a part that fails. The fragmentation threshold starts at 2 cells
instead of 128 (`FragMin`), so that a decode can queue a defragmentation. Two
slots and three tasks have one deferred task; `MaxSteps` bounds the batches of a
prompt and of a generation: 1 is a prompt in one batch and one token, 2 a prompt
in two parts. In `SlotCache` five cells per slot are the least the code
truncates and shifts sensibly (`n_keep` is capped at `n_ctx - 4`); generations
of up to 6 tokens (`n_predict`) shift twice, batches of 3 split a prompt, and
three requests make one slot take a second one while the other is at work. Three
threads are the least in which one is late while two meet again, and 12 chunks
the least the code does not re-chunk; two copies and four batches use each copy
twice; three operations are the least in which a tensor is computed in place of
a source that a view still shows; three backends the least with one that is
neither first nor last. Characters of three bytes are the least with a partial
form that is not overlong by its first byte. A `VIEW` drops the rows of dead
cells and `n`, which no later step reads, and in `SlotCache` also the fields of
idle slots that the next launch overwrites.

`slotcache` is limited to what the code handles: `n_batch` at most `n_ubatch`, so
that a failed decode has placed nothing; no reuse with a system prompt; a system
prompt that `n_keep` and the BOS token cover; no erased slot with a system prompt.
Section 5 says what happens beyond each limit.

**Fairness.** Each thread that can take a step takes one in the end (`WF` on the
main thread and on every handler of `Server`, on every thread of `ThreadTeam`):
mutexes are held for a moment only, a spinning thread yields or pauses, and the
operating system schedules all threads. In `Pipeline` the host and each device's
stream go on (`WF` for each; a stream is worked off in order, whatever the
others do). In `Rpc` the server goes on, a client reads its answer, and one that
waits for nothing leaves in the end: the server serves one connection until it
closes, so this last is what the next client depends on. The search loop is a
plain loop. No fairness is assumed of a signal, of a decode that fails, or of a
stream that breaks. Generations end: the code bounds them by `n_predict`, and
otherwise by the context size the model was trained with (`process_token`).
Deadlock checking is off where the system may stop: when all requests are done,
or when no snapshot call is possible any more.

## 4. What is proved

TLAPS checks all theorems for every value of the constants, under the named
assumptions of the modules and the hypotheses listed here. Each theorem states the
property a run checks, or the type of a component.

| module | theorem | statement | inductive invariant |
|---|---|---|---|
| `KVCache_proofs` | `TypeCorrect` | `Spec => []TypeOK` | `IInv` |
| | `UsedIsExact` | `Spec => []UsedExact` | |
| | `RowsFollowCells` | `Spec => []RowsCoherent` | |
| | `DefragNeverAborts` | `Spec => []DefragHasPlan` | |
| | `EveryTokenAttended` | `Spec => AttendsAll` | |
| `KVCache_proofs` | `CacheImplementsStore` | `Spec => ImplementsStore` (the refinement of `SeqStore`) | `IInv` |
| `Loops_proofs` | `SearchFindsFirstFit` | `FindSpec => []SearchIsFirstFit` | `SearchInv` |
| | `DefragLoopFollowsPlan` | `DefragSpec => []DefragFollowsPlan` | `DefragInv` |
| | `SequencesContinue` | if `~AnyChain`: `RSpec => []StatesFollow` | `RecurrentInv` |
| | `RowsAreOwn` | if `~SavesAnyTime`: `OSpec => []GivesOwnRows` | `OutInv` |
| `KVCache_proofs` | `RestoresLeaveACache` | if `Settled`: `SSpec => []CacheRestored` | `KInv` |
| | `SequenceRestored` | if `Settled`: `SSpec => RestoresSequence` | |
| | `AllSequencesRestored` | if `Settled`: `SSpec => RestoresAll` | |
| `ThreadTeam_proofs` | `BarrierImplementsRounds` | `BarrierSpec => IsBarrier` (the refinement of `Rounds`) | `BInv` |
| | `TeamMeetsAtBarrier` | `Spec => IsBarrier` | `BInv` |
| | `TeamTypeCorrect` | `Spec => []TeamType` | `TeamInv` |
| | `ElementsWrittenOnce` | `Spec => []WrittenOnce` | |
| | `InputsReady` | `Spec => []ReadsReady` | |
| `Server_proofs` | `TypeCorrect` | `Spec => []TypeInv` | `TypeInv` |
| | `SleepsIdle` | `Spec => []SleepsOnlyIdle` | `TypeInv`, `Awake` |
| | `TasksHeldOnce` | if `Orderly`: `Spec => []HeldOnce` | `OrderlyInv` |
| | `ResponsesEndOnce` | if `Orderly`: `Spec => []EndsOnce` | |
| | `MultitasksFinish` | if `Orderly`: `Spec => []DoneWhenAllDone` | |
| `Devices_proofs` | `ClientsReadTheirWrites` | `RpcSpec => []ReadsItsWrites` | `RInv` |
| | `MemoryIsOfTheConnection` | `RpcSpec => []NothingLeaks` | |
| | `DevicesComputeOwnInputs` | if `Unhurried`: `PipeSpec => []ComputesOwnInputs` | `PipeInv` |
| `GraphAlloc_proofs` | `PlansTile` | `GraphSpec => []MemoryTiled` | `GInv` |
| | `PlansUseDynAlloc` | if `AnyBuffer \in Buffers`: `SmallSpec => Dyn!Spec` (the refinement of `DynAlloc`) | `SmallInv` |
| `SlotCache_proofs` | `PromptsFit` | `Spec => []PromptFits` | `PromptsInv` |
| | `CacheTokensAreStored` | if `Plain`: `Spec /\ NeverHalfway => []CachedIsStored` | `SlotsInv` |
| | `SlotsSeeTheirText` | if `Plain`: `Spec /\ NeverHalfway => []SeesItsText` | |
| | `RoomForAToken` | if `Plain`: `Spec /\ NeverHalfway => AlwaysRoom` | |
| | `OneUbatchNeverHalfway` | if `Plain` and `NBatch <= NUbatch`: `Spec => NeverHalfway` | |

**The hypotheses.** Four components need something of the users of a component, and
section 5 says what happens when it is not so; the runs are instances of the
same cases.

* `Settled`: a caller applies pending shifts (by a decode or
  `llama_kv_cache_update`) before it saves or restores.
* `Orderly`: decodes succeed, no request sets the system prompt, and one with
  several prompts is not streamed. `TypeCorrect` and `SleepsIdle` do without.
* `Unhurried`: where devices copy to each other and use events, results are asked
  for at least once in `n_copies` batches, and the CPU computes at most the first
  split. The wait for an event is queued on the wrong stream there, so that
  only the rotation of the copies keeps a copy from overwriting an input in use; an
  abort on the CPU in a later split skips a rotation. Without peers, without
  events or with one copy nothing is needed.
* `Plain`: no request has a system prompt, and none comes before the loop has first
  been idle. Requests with a system prompt are in `MCSlotCache`, which passes, but are
  not proved; one that comes early is a hazard no property covers. `PromptsFit` does
  without.
* `NeverHalfway`: a view that fails for want of room fails at its first ubatch. It is
  proved where a batch is one ubatch (`NBatch <= NUbatch`); with the default, 2048
  over 512, it is a hypothesis about the run, and a view of several ubatches that all
  find room is covered. Without it `SeesItsText` is false: a view that fails after its
  first ubatch is decoded again from its beginning (`slotcache_retry`, section 5).

`WorkAssumption` of `ThreadTeam` has what the code asserts of a node: sizes that
are not zero, rows that are a multiple of the interleaved kernel's
(`ggml-aarch64.c:376` and the like). `PipelineAssumption` says that the first split
reads what the user sets. `GraphSpec` is any graphs with `IsGraph` (sizes, sources
and views that are in the graph) planned one after the other, in any buffers; that
`Sched` hands over such graphs only is checked with `IsDynAlloc`. `SmallSpec` bounds
their sizes by `LargestTensor`, any number, because `DynAlloc` names a bound.

**KV cache.** `IInv` is `Sound(cache)` together with `Rooted(cache)` and the type
of `call`. `Sound` is what a single operation needs and gives: types, live =
taken, `used` exact, rows at their positions up to delta. `Rooted` says that
without the flag no delta is pending, which is needed because find_slot does not
reset the delta of a cell it fills: a token placed there is right only because the
update just before it has reset all of them. Each operation has a lemma
`...Sound`. The counting arguments (`SeqRm` frees as many cells as it subtracts;
holes before `used` are as many as cells behind it) use the theorems on finite
sets; `SlotIsWindow` shows that a search that succeeds returns free cells;
`RoundsUp` that padding never rounds down. TLC checks the same facts as `TypeOK`,
`UsedExact` and `RowsCoherent`.

For the refinement, the tokens a cache stores are the image of its live cells, and
each operation has a second lemma that says what becomes of that set. Moving cells
is a bijection between the cells and leaves it alone; that two live cells may hold
equal tokens costs nothing, since the store is a set and a call cannot tell them
apart. A decode may place any prefix of its batch.

**The loops of the cache.** `KVLayout` says what find_slot and the defragmentation
find, without saying how; `Loops_proofs` shows that the loops find it, so that every
theorem about `KVCache` is one about the loops. `SearchInv` says that every start
from the first head to the present one has been tried and has no window, and that
`n_tested` is how many that is; the proof is that skipping to the cell behind a taken
one leaves out no start that could have worked, also across the end of the cache.

`DefragInv` describes the cache in the middle of the defragmentation by the set *F*
of holes filled so far: it is `Filled(b, m, F, D)`, where *b* is the cache on entry,
*m* the plan and *D* the holes whose rows have followed. While holes are looked for
(`Scanning`) *F* is the holes below `i0`; while one is filled (`Filling`) also those of the
block below `i0 + nf`, and `i1` is between the cells planned for the first hole of
the block and for the next; while rows are copied (`Copying`) *F* is final and the
rows of *K*, whole runs, are still to come. `moves` is the number of runs begun in *F*.
Three facts carry it. There is a plan at all (`PlanExists`): holes and movers are
equally many, both can be ranked, holes block by block from the left and within a
block backwards, and ranks are met. The cell the loop takes for a block, the one with as many
takable cells from it on as the block is long, is the one planned for its first hole
(`TakableIs`, `RankFalls`). And stopping at `max_moves` cuts the plan where
`MovedBy` cuts it (`Stops`): after the last run that may begin, either no hole is left
or the next one begins a run. That the graph has exactly `moves` copies is that the first
run left always begins with a hole that begins a run (`BeginsNext`).

**Recurrent cache.** `RecurrentInv` is `StatesFollow` with what it needs: types, that a
cell with a sequence has a position, and that without a pending copy every `src` is its
own cell, so that an update copies nothing else. What a batch does to the state of each
sequence and what it adds to `hist` are both read off `Trace`, which is a recursive
function; that it has the values its equation says (`TracesExist`) is shown from a
least prefix without one. A chain of copies is followed by the update in one step, so
the source must keep its state until then: this is the hypothesis `~AnyChain`.

**Outputs.** The number of a token is its rank among the tokens that are wanted
(`MappedIs`), a finite set of tokens has an order in which ranks count up
(`OrderedNumbers`), and the tokens of a ubatch follow those before it in that order
(`NumbersFrom`). So `OutInv` says of a decode under way (`Gathering`) that
`n_outputs_prev` is the rank of `cur_token` and that the rows below it are in place; past
the end of the batch the rank is the number of all outputs. A snapshot is of such a
batch (`Snapshot`), hence what a restore finds for a token is the number it had
(`RestoresPlaces`). It needs `~SavesAnyTime`, since after a decode that found no slot
`n_outputs` is that of a ubatch.

**Snapshots.** `KInv` adds to the cache what the snapshot says (`SnapInv`: it fits
into the cache, and what it holds per sequence is what was there) and that only a
restore of the whole cache that was cut short leaves a wrong `used`. A restore reads
the cells in the order they were written, so the proof needs that a finite set of
cells has one; that is shown by a least counterexample (`OrderExists`).

**Threads.** The danger at the barrier is a thread that still spins on the old
generation when others have come to the next barrier. `InStep` says that only such
a thread may be one crossing behind, and by no more than one; `Counts` that the
counter is the number of those that wait for the present generation, and that there
is a last one only when all wait. Neither is inductive alone: that
`n_barrier_passed` advances once per round needs the unique last thread, and its
uniqueness needs the count. Every step of `BarrierNext` is then a step of `Rounds`
or none, and every step of the team is one of the barrier or leaves its variables
alone.

`TeamInv` stands on it. `Formation`: who is on an earlier node than another, or
before its middle barrier, is so by one crossing. `Counter`: while a product is in
hand, the shared counter has given out exactly the chunks below it. `Converted`:
the work buffer is of the node in hand. `Parted`: what is written of a node is the
union of the parts that have been given out and are no longer owed. That parts do
not overlap and leave nothing out is arithmetic: stripes (`dr * ith` up to
`min(dr * (ith + 1), nr)`), chunks as a grid of quotients and remainders, columns
rounded to the interleaving.

**Server.** `Awake` says the loop asks for another round whenever it goes on with
work, and what is deferred could not have run. `OrderlyInv` says of each task that
it is in at most one place (`Accounted`: a queue, the deferred, a slot, a result),
of each multitask that it is open exactly while a part has not answered
(`Gathers`), and of each response that only its last result ends it (`Responds`);
`SlotsInStep` and `Registered` relate the slots to where the loop is, and who waits
to who has posted. Places are counted by `Occurrences` in sequences, so most of
the length is about how one append, removal or pop changes a count.

**RPC.** `RInv` follows one call at a time: what is asked is asked by the client that
waits (`Asked`), of a buffer of its own (`Own`), its buffers have the values it wrote
but for the call in hand (`Holds`), and what has been answered is true (`Truthful`).
A step for one client leaves the others alone because they share no connection
(`Apart`), and at most one has been accepted.

**Allocator.** `GInv` says that the free blocks and the tensors tile the memory of
each buffer and lie below its `max_size`. Most of the work is in lists of blocks:
what is freed is merged with a neighbour on either side, or inserted in order, or, if
empty, not sorted at all; the tiles are then those of before and the freed one.
The order of the list is not part of the invariant and is not needed. What a step
does to the memory is one of four things, stated once: nothing, a hand-over
(`HandsOver`), an allocation (`Allocates`) or a release (`Releases`). Each keeps the
tiles, and each is a step of `DynAlloc` in one buffer and none in the others: an
`Allocate` of the plan hands over or allocates, an `Update` releases, a new plan
resets every buffer. So the planner never gives memory to a tensor that has some,
never frees what is not allocated, and frees with the range that was given.

**Pipeline.** `PipeInv` describes all that is pending by four predicates on the
streams and says where each stands to the host (`InPlace`), to each other (`Single`,
`Awaited`, `Recorded`), and to the inputs: each pending computation finds its input
in place, or in a copy that is before it in its stream, or in one it awaits
(`AllReady`), and each pending copy finds the result of its own batch when its turn
comes (`Current`). That a wait for an event suffices needs the number of records
that are pending (`Counted`). Without events the reader is idle (`Quiet`); with
peers, batches on the way have copies of their own (`Ahead`).

**Slots.** `SlotsInv` relates three things for each slot: what it believes (`past`,
`cached`, the ghost `seen`), what the cache has of its sequence, and what the batch
still has for it (`Dues`: its tokens behind the front of what is decoded). For a slot
with a text, the cache holds exactly the places of the text that are not due
(`HoldsText`), and what is due is of the text, each place once (`DuesOK`). For a
slot without, the cache holds what `cached` names, and nothing beyond the share
(`HoldsCached`): that is all a released slot keeps, because a request may have been
cancelled in the middle. Of the cache it needs `Good`: cells belong to one slot each,
no slot has a position twice, rows are at their positions up to delta. Each operation of
`KVCache` has a lemma that says what it does to the tokens a slot has (`RmHas`,
`AddHas`, `ShiftedHas`, `PlaceHas`), and the steps of the server use only those; that a
search returns free cells is taken from `KVLayout_proofs`, which is
instantiated. The room for a single token is a count: a slot has at most
`NCtx - 1` positions, so `NSlots` of them leave a cell. TLC has checked `SlotsInv` on the
instance of `MCSlotCache` without system prompts, and on that of `MCSlotCacheRetry`
(two ubatches to a view) without the steps that fail halfway. `PromptFits` needs much
less (`PromptsInv`): a slot that is to load a prompt has a request, and its tokens,
once set, are what the truncation returns (`TruncatedFits`).

**Model-checked only.** Liveness, which is outside what the prover does;
`ReadsItsSources` and `RunsWhereItCan` of the scheduler; `IsDynAlloc` for the graphs
that `Sched` builds (the prover takes no instance with a parameter, so the
refinement is proved of the planner, for one buffer that may be any); the properties of `SlotCache` with system prompts, other than
`PromptFits`; that the search ends (`Terminates`); and the results of
`Speculative`, `Merges` and `Grammar`. The last declares recursive operators, and
the others compute with folds whose results are inductions over data.

## 5. Findings

Each is a run that must end in a violation; `PROJECT.json` quotes the line that
says otherwise.

* `team_abort`: a worker reads the status of the node after the one whose barrier
  it has just passed, leaves, and the others wait for it for ever.
* `outputs_full`: a decode that finds no slot at a later ubatch leaves the count
  of that ubatch with the ids of the whole batch; saving the state then fails an
  assertion.
* `grammar_nullable`: left recursion behind a rule that is empty only through
  other rules is not detected.
* `server_lost`: slot actions (and lora changes) are posted before their handler
  registers; the answer can be dropped, and the handler blocks for ever.
* `slotcache_retry`: with `n_batch` over `n_ubatch` (2048 over 512 by default) a
  decode that fails at a later ubatch is retried with its first tokens already
  stored: they are stored and attended to twice.

Seen while modelling, and described here only:

* saving or restoring a sequence while a shift is pending pairs new positions with
  old rows, which no later update brings to their positions (`llama.cpp:17810`;
  `Settled = FALSE` in `KVState`);
* a whole-cache snapshot that ends early throws past the cleanup of
  `read_kv_cache` and leaves `used` at 0 with cells in use (`llama.cpp:18006`);
* a request with a system prompt releases the slots of others, whose handlers are
  never answered (`server.cpp:1630`);
* a copy of a recurrent sequence that is itself a pending copy, or whose source is
  overwritten before the update, can get another state than it should, although
  the comment at `llama.cpp:3222` speaks of chains (`AnyChain = TRUE`);
* `llama_graph_compute` ignores the status of the scheduler (`llama.cpp:14739`):
  after an abort the rows of the batch are those of an earlier one, and
  `llama_decode` returns 0;
* with more batches ahead than there are copies, a copy between CUDA peers may
  overwrite an input its reader still needs: the wait for the event is queued on
  the destination, the copy on the source (`ggml-cuda.cu:2387`,
  `ggml-backend.c:1774`); the server asks for results often enough. The same
  happens after an abort on the CPU in a split that is not the first, since the
  copy is not rotated then;
* the free blocks are not sorted after an empty tensor is freed, in spite of
  "keep the array sorted" (`ggml-alloc.c:275`); `MemoryTiled` holds without;
* a graph with as many nodes and leafs as the last and other edges is allocated
  with its plan, where `ggml-alloc.h:63` promises a reallocation when the topology
  changes;
* stochastic verification with several branches removes the wrong sequence from
  `active_seqs` (`speculative.cpp:324` erases `s` for `i`), accepts tokens of a
  branch whose earlier tokens differ from those put out, and reads past the end of
  a shorter branch (`:320`); the results of `llama_decode` are not looked at; and
  tokens go on being accepted after an end of generation;
* inverse classes reject a partial character although other completions match it,
  against the comment at `llama-grammar.cpp:117`; the end is allowed in the
  middle of a character if an empty stack is left; continuation bytes inside a
  token are not checked; `mirostat_mu` is updated twice when a token is drawn
  again;
* the RPC backend sizes a buffer by the first graph (a static), reads the
  destination of `copy_tensor` at the size of another type, and sends from two
  threads without a lock; two spellings of one endpoint block each other;
* restoring the snapshot of an empty sequence passes find_slot and then asserts
  that the cell at `head` has the sequence that was just removed everywhere
  (`src/llama.cpp:17841`; `LoadSeqEmpty`);
* a completion for a slot that does not exist is deferred for ever
  (`server.cpp:1615`); slot actions test for it and send an error;
* a cancel that finds its slot still loading the prompt does nothing, as
  `release` acts only on a slot that is processing (`server.cpp:1655`), nor does
  the cancel of a request with several prompts, whose slots carry other ids;
* with several prompts and `stream`, the first piece of text of a prompt counts
  as its end (`server.cpp:537`);
* a signal between the installation of its handler and `start_loop` is
  overwritten by it (`server.cpp:464`);
* after a failed decode an idle slot sends an error to the id of its last task, so
  a response can be followed by an error: `EndsOnce` is checked without
  `DecodeFails`;
* setting a system prompt clears the cache but leaves the `cache_tokens` of every
  slot, so that a later prompt with `cache_prompt` skips tokens that are not
  there (`server.cpp:2168`);
* the context shift counts `n_keep` from the start of the system prompt in the KV
  cache and from its end in `cache_tokens` (`server.cpp:1973`), and with `n_keep`
  below the length of the system prompt it moves cells all slots share;
* erasing a slot removes its share of the system prompt too, and nothing brings it
  back (`server.cpp:1846`);
* after `cache_prompt: false`, a prompt of several batches leaves `cache_tokens`
  filled with token 0 (`server.cpp:2229`);
* a request taken before the first idle round is followed by a clearing of the
  cache that leaves `cache_tokens` (`server.cpp:1929`);
* `llama.h` writes `[0, p1]` for `p0 < 0` where the code excludes `p1`;
* `result.error && subres.error` starts from false, so a multitask never reports
  an error;
* a model without RoPE keeps `has_shift` set for ever.

## 6. Abstractions

* Tokens, texts, prompts and probabilities are model values or counts; attention,
  sampling and graphs are left out, except for which rows they read and write.
* `seq_id` limits and `can_shift` are left out of `KVCache`, the counter `used` and
  shifts below 0 out of `Recurrent`, and so is a
  defragmentation, which `llama_kv_cache_update` would run on a recurrent cache too.
* `ThreadTeam` has one thread of the pool per `ith` and two or more of them; left
  out are OpenMP, the llamafile branch, the work buffer of other operators, NUMA.
* `Sched` has one copy of each input (`Pipeline` has more) and no placements by the
  user.
* `Outputs` leaves out pooled embeddings and `llama_encode`; `Merges` the splitting
  into words, ids and the byte fallback, and the other two tokenizers; `Grammar`
  the parser of grammars and their copying; its recursion ends at `MaxDepth`.
* In `Rpc` a request is sent and answered as a whole, and a buffer holds one value,
  which setting a tensor, clearing the buffer and computing a graph write alike.
* The data race on `queue_multitasks` has no outcome a model could state; the
  iteration is modelled as if it held the lock.
* A signal is a thread of its own, although its handler may interrupt the main
  thread while it holds the mutex it wants.
* `/lora-adapters` behaves like a slot action that is never deferred; `/props`,
  `/models`, `/tokenize` and static files share no state.

* Not modelled at all: the kernels, quantization and drivers, which are numerics;
  GGUF, the loader, the log, option parsing and the conversion scripts, which are
  sequential I/O; the n-gram cache, whose maps only decide what is drafted; and
  vendored code (`json.hpp`, `httplib.h`, `stb_image.h`, the Unicode tables).
  These are most of the repository's lines.

## 7. Plan

Done so far: all modules of section 2 and the theorems of section 4. Next:

1. Proofs: that `Sched` builds graphs with `IsGraph`, with which `PlansUseDynAlloc`
   gives `IsDynAlloc`; `ReadsItsSources`; the other theorems of `SlotCache` with a
   system prompt, whose cells all sequences share.
2. `SlotCache` extended: saved and restored slots, self-extend (`ga_n`).
3. `lookahead` on the calls of `Speculative`.
