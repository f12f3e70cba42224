----------------------------- MODULE ThreadTeam -----------------------------
(***************************************************************************)
(* ggml_graph_compute on the CPU: the calling thread and its workers run   *)
(* the nodes of a graph one after the other, share the work of each node   *)
(* and meet at a barrier after it.  A matrix product first converts src1   *)
(* into the work buffer, meets at a barrier of its own and then hands out  *)
(* its result in chunks, the first of each thread by number, the others    *)
(* through a shared counter.                                               *)
(***************************************************************************)
EXTENDS SpinBarrier, Sequences

CONSTANTS
    chunk_size,  \* 16 in the code
    Cases        \* [graph, abort]: the nodes, and whether the callback may abort

VARIABLES
    cgraph,         \* the nodes, see MatMul, RowOp and SingleOp
    abort_callback, \* whether there is a callback that may return true
    pc,             \* per thread; thread 0 is the caller
    node_n,         \* per thread, the node it is at
    cur,            \* per thread, the local current_chunk of a matrix product
    current_chunk,  \* the shared counter
    ec,             \* status of the computation, a plain int
    wdata,          \* per row of the work buffer, the node it was written for
    written,        \* per node, the elements of its result written so far
    twice           \* history: elements written more than once

work == <<cur, current_chunk, wdata, written, twice>>
vars == <<barrier, cgraph, abort_callback, pc, node_n, ec, work>>

----------------------------------------------------------------------------
(* The nodes and the parts of their results.                               *)

\* a matrix product of nr0 x nr1 elements; interleave is the number of
\* columns of the kernel for interleaved weights, 0 if there is none
MatMul(nr0, nr1, convert, interleave) ==
    [op |-> "mul_mat", nr0 |-> nr0, nr1 |-> nr1, convert |-> convert, interleave |-> interleave]

\* an operator whose rows are divided by the number of threads
RowOp(nr) == [op |-> "rows", nr0 |-> nr, nr1 |-> 1]

\* an operator with n_tasks = 1
SingleOp == [op |-> "single", nr0 |-> 1, nr1 |-> 1]

LessOf(a, b) == IF a < b THEN a ELSE b
CeilDiv(a, b) == (a + b - 1) \div b

Elements(node) == (0 .. node.nr0 - 1) \X (0 .. node.nr1 - 1)

ChunkSize(node) == IF node.nr0 = 1 \/ node.nr1 = 1 THEN 4 * chunk_size ELSE chunk_size

\* few chunks for the team: one for each thread, along the longer dimension
Chunking(node) ==
    LET n0 == CeilDiv(node.nr0, ChunkSize(node))
        n1 == CeilDiv(node.nr1, ChunkSize(node))
    IN  IF n0 * n1 >= 4 * n_threads THEN <<n0, n1>>
        ELSE IF node.nr0 > node.nr1 THEN <<n_threads, 1>> ELSE <<1, n_threads>>

NChunks(node) == Chunking(node)[1] * Chunking(node)[2]

Stripe(n, chunks, i) ==
    CeilDiv(n, chunks) * i .. LessOf(CeilDiv(n, chunks) * (i + 1), n) - 1

Chunk(node, c) ==
    LET n == Chunking(node)
    IN  Stripe(node.nr0, n[1], c % n[1]) \X Stripe(node.nr1, n[2], c \div n[1])

\* the rows of src0 of thread t, rounded up to whole columns of the kernel
GemvRows(node, t) ==
    LET RoundUp(i) == CeilDiv(i, node.interleave) * node.interleave
    IN  RoundUp((t * node.nr0) \div n_threads) .. RoundUp(((t + 1) * node.nr0) \div n_threads) - 1

\* What the code asserts of a product whose weights are interleaved: its
\* columns come in whole groups of the kernel.
IsNode(node) ==
    /\ node.op \in {"mul_mat", "rows", "single"}
    /\ node.nr0 \in Nat \ {0} /\ node.nr1 \in Nat \ {0}
    /\ node.op # "mul_mat" => node.nr1 = 1
    /\ node.op = "single" => node.nr0 = 1
    /\ node.op = "mul_mat" => node.convert \in BOOLEAN /\ node.interleave \in Nat
    /\ node.op = "mul_mat" /\ node.interleave > 0 => node.nr0 % node.interleave = 0

ASSUME WorkAssumption ==
    /\ chunk_size \in Nat \ {0}
    /\ \A case \in Cases :
           /\ case.abort \in BOOLEAN
           /\ Len(case.graph) \in Nat \ {0} /\ DOMAIN case.graph = 1 .. Len(case.graph)
           /\ \A k \in DOMAIN case.graph : IsNode(case.graph[k])

Share(node, t) ==
    CASE node.op = "single"  -> IF t = 0 THEN Elements(node) ELSE {}
      [] node.op = "rows"    -> Stripe(node.nr0, n_threads, t) \X {0}
      [] node.op = "mul_mat" -> GemvRows(node, t) \X (0 .. node.nr1 - 1)

----------------------------------------------------------------------------

Init ==
    /\ BarrierInit
    /\ \E case \in Cases : cgraph = case.graph /\ abort_callback = case.abort
    /\ pc = [t \in Threads |-> IF t = 0 THEN "create" ELSE "unborn"]
    /\ node_n = [t \in Threads |-> 1]
    /\ cur = [t \in Threads |-> 0]
    /\ current_chunk = 0
    /\ ec = "success"
    /\ wdata = [r \in {} |-> 0]
    /\ written = [k \in DOMAIN cgraph |-> {}]
    /\ twice = {}

Node(t) == cgraph[node_n[t]]

Jump(t, l) == pc' = [pc EXCEPT ![t] = l]

Given == UNCHANGED <<cgraph, abort_callback>>

Write(t, elems) ==
    /\ written' = [written EXCEPT ![node_n[t]] = @ \cup elems]
    /\ twice' = twice \cup (written[node_n[t]] \cap elems)

\* thread 0 starts the workers in order and then works itself
Create(t) ==
    /\ pc[0] = "create" /\ pc[t] = "unborn"
    /\ \A u \in 1 .. t - 1 : pc[u] # "unborn"
    /\ pc' = [pc EXCEPT ![t] = "start", ![0] = IF t = n_threads - 1 THEN "start" ELSE @]
    /\ Given /\ UNCHANGED <<barrier, node_n, ec, work>>

\* ggml_compute_forward, of any operator without a barrier inside
Compute(t) ==
    /\ pc[t] = "start" /\ Node(t).op # "mul_mat"
    /\ Write(t, Share(Node(t), t))
    /\ Jump(t, "callback")
    /\ Given /\ UNCHANGED <<barrier, node_n, ec, cur, current_chunk, wdata>>

\* mutation: workers meet before the product only if chunks are handed out
AfterConvertGemv(t) ==
    IF t = 0 THEN "counter" ELSE IF Node(t).interleave > 0 THEN "gemv" ELSE "middle"

AfterConvert(t) == IF t = 0 THEN "counter" ELSE "middle"

\* the rows of src1 of thread t, into the work buffer
Convert(t) ==
    /\ pc[t] = "start" /\ Node(t).op = "mul_mat"
    /\ LET rows == {r \in 0 .. Node(t).nr1 - 1 : Node(t).convert /\ r % n_threads = t}
       IN  wdata' = [r \in DOMAIN wdata \cup rows |-> IF r \in rows THEN node_n[t] ELSE wdata[r]]
    /\ Jump(t, AfterConvert(t))
    /\ Given /\ UNCHANGED <<barrier, node_n, ec, cur, current_chunk, written, twice>>

\* mutation: the counter starts with the last chunk that is given out by number
FirstFreeLow == n_threads - 1

FirstFree == n_threads

\* every thread starts at its own number
SetCounter ==
    /\ pc[0] = "counter"
    /\ current_chunk' = FirstFree
    /\ Jump(0, "middle")
    /\ Given /\ UNCHANGED <<barrier, node_n, ec, cur, wdata, written, twice>>

AfterMiddle(t) == IF Node(t).interleave > 0 THEN "gemv" ELSE "chunk"

\* a step of the barrier, and what the thread does when it returns
Meet(t) ==
    /\ pc[t] \in {"middle", "end"}
    /\ BarrierStep(t)
    /\ IF crossed' = crossed THEN UNCHANGED <<pc, cur>>
       ELSE IF pc[t] = "middle"
       THEN cur' = [cur EXCEPT ![t] = t] /\ Jump(t, AfterMiddle(t))
       ELSE Jump(t, "status") /\ UNCHANGED cur
    /\ Given /\ UNCHANGED <<node_n, ec, current_chunk, wdata, written, twice>>

Gemv(t) ==
    /\ pc[t] = "gemv"
    /\ Write(t, Share(Node(t), t))
    /\ Jump(t, "callback")
    /\ Given /\ UNCHANGED <<barrier, node_n, ec, cur, current_chunk, wdata>>

OneChunk(t) ==
    /\ pc[t] = "chunk"
    /\ IF cur[t] < NChunks(Node(t))
       THEN /\ Write(t, Chunk(Node(t), cur[t]))
            /\ Jump(t, IF n_threads >= NChunks(Node(t)) THEN "callback" ELSE "next")
       ELSE /\ Jump(t, "callback")
            /\ UNCHANGED <<written, twice>>
    /\ Given /\ UNCHANGED <<barrier, node_n, ec, cur, current_chunk, wdata>>

\* atomic_fetch_add
NextChunk(t) ==
    /\ pc[t] = "next"
    /\ cur' = [cur EXCEPT ![t] = current_chunk]
    /\ current_chunk' = current_chunk + 1
    /\ Jump(t, "chunk")
    /\ Given /\ UNCHANGED <<barrier, node_n, ec, wdata, written, twice>>

Callback(t) ==
    /\ pc[t] = "callback"
    /\ \/ ec' = ec
       \/ t = 0 /\ abort_callback /\ ec' = "aborted"
    /\ Jump(t, "end")
    /\ Given /\ UNCHANGED <<barrier, node_n, work>>

Status(t) ==
    /\ pc[t] = "status"
    /\ IF ec # "success" \/ node_n[t] = Len(cgraph)
       THEN Jump(t, "exit") /\ UNCHANGED node_n
       ELSE Jump(t, "start") /\ node_n' = [node_n EXCEPT ![t] = @ + 1]
    /\ Given /\ UNCHANGED <<barrier, ec, work>>

\* thread 0 joins its workers
Join ==
    /\ pc[0] = "exit" /\ \A t \in Threads \ {0} : pc[t] = "exit"
    /\ Jump(0, "returned")
    /\ Given /\ UNCHANGED <<barrier, node_n, ec, work>>

Returned == pc[0] = "returned" /\ UNCHANGED vars

Step(t) ==
    \/ Compute(t) \/ Convert(t) \/ Meet(t) \/ Gemv(t)
    \/ OneChunk(t) \/ NextChunk(t) \/ Callback(t) \/ Status(t)

Main == (\E t \in Threads : Create(t)) \/ SetCounter \/ Join

Next == Main \/ (\E t \in Threads : Step(t)) \/ Returned

\* Every thread is scheduled again and again; sched_yield in the spin loop
\* lets the others run.
Fairness == WF_vars(Main) /\ \A t \in Threads : WF_vars(Step(t))

Spec == Init /\ [][Next]_vars /\ Fairness

----------------------------------------------------------------------------

\* No element of a result is computed by two threads, or twice by one:
\* the chunks given out by number and those given out by the counter, and
\* the ranges of the rows, do not overlap.
WrittenOnce == twice = {}

\* A thread that computes a node reads results of earlier nodes; all of them
\* are complete, whoever computed them, and so are those of a computation that
\* reports success.
ReadsComplete ==
    /\ \A t \in Threads : pc[t] \in {"start", "chunk", "gemv"} =>
           \A k \in 1 .. node_n[t] - 1 : written[k] = Elements(cgraph[k])
    /\ pc[0] = "returned" /\ ec = "success" =>
           \A k \in DOMAIN cgraph : written[k] = Elements(cgraph[k])

\* While a thread multiplies, every row of the work buffer it reads is
\* converted, and none is overwritten yet for a later node.
ReadsConverted ==
    \A t \in Threads : pc[t] \in {"chunk", "gemv"} /\ Node(t).convert =>
        \A r \in 0 .. Node(t).nr1 - 1 : r \in DOMAIN wdata /\ wdata[r] = node_n[t]

ReadsReady == ReadsComplete /\ ReadsConverted

\* The call returns.
Returns == <>(pc[0] = "returned")

\* A callback that returns true ends the computation.
AbortEnds == (ec = "aborted") ~> (pc[0] = "returned")

=============================================================================
