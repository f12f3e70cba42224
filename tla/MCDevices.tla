----------------------------- MODULE MCDevices -----------------------------
(* The machinery of ggml, each part alone: a behaviour is one of the team of *)
(* threads, of the host with its devices, of the RPC server with its clients, *)
(* or of the scheduler with its allocators, while the others have ended.      *)
EXTENDS MCThreadTeam, Pipeline, TensorMemory, Rpc, FiniteSets

CONSTANT max_inputs

VARIABLES
    machine, graph, ids, pass, splits, links, placed, todo, node, source, allocs,
    data, plan, rounds, prev

sched == <<machine, graph, ids, pass, splits, links, placed, hn, blocks, maxs, todo, node, source,
           allocs, data, plan, rounds, prev>>
allVars == <<vars, pipevars, rpcvars, sched>>

----------------------------------------------------------------------------
(* Two devices, and the CPU for the embedding.                             *)

Sp(b, ins) == [backend |-> b, inputs |-> ins]
TwoDevices == <<Sp(0, <<>>), Sp(1, <<"hidden", "user">>), Sp(2, <<"hidden", "user">>)>>

\* a layer back on the first device
Back == <<Sp(1, <<"user">>), Sp(2, <<"hidden">>), Sp(1, <<"hidden", "user">>)>>

Setup(parts, n, events, peers, eval, ahead) ==
    [splits |-> parts, n_copies |-> n, events |-> events, peers |-> peers, eval |-> eval,
     ahead |-> ahead]

\* Results are asked for after each round through the copies when devices
\* write to each other; with more batches ahead ComputesOwnInputs fails.
MCSetups ==
    {Setup(sp, 2, TRUE, TRUE, FALSE, 2) : sp \in {TwoDevices, Back}}
      \cup {Setup(sp, 2, ev, FALSE, e, 4) : sp \in {TwoDevices, Back}, ev, e \in BOOLEAN}
      \cup {Setup(sp, 1, TRUE, TRUE, FALSE, 4) : sp \in {TwoDevices, Back}}

----------------------------------------------------------------------------
(* Every graph of three operations over an input, a cache and a weight, and *)
(* layers of a model, on a computer with two devices or with one and BLAS.  *)

\* BLAS supports its operators alone, the others leafs and views too
BLAS == [ops |-> {"mul"}, buft |-> "host", reads |-> {"host"}, offload |-> FALSE]
B(ops, buft, reads, offload) ==
    [ops |-> ops \cup {"none", "view"}, buft |-> buft, reads |-> reads, offload |-> offload]
CPU(reads) == B({"mul", "rope", "cpy"}, "host", reads, FALSE)

\* a device that takes over big products, and BLAS; two devices, the first
\* with memory the CPU can read
MCMachines == {
    <<B({"mul", "cpy"}, "gpu", {"gpu"}, TRUE), BLAS, CPU({"host"})>>,
    <<B({"rope", "cpy"}, "gpu", {"gpu"}, FALSE), B({"mul", "cpy"}, "gpu2", {"gpu2"}, FALSE),
      CPU({"host", "gpu"})>> }

Leaf(buf, weight, input) ==
    [src |-> <<>>, op |-> "none", view |-> 0, buf |-> buf, weight |-> weight, input |-> input,
     size |-> 2, layout |-> "rows", inplace |-> FALSE, output |-> FALSE, big |-> TRUE]

\* products are small, the position is applied in place
GraphNode(op, s, view, size) ==
    [src |-> s, op |-> op, view |-> view, buf |-> "", weight |-> FALSE, input |-> FALSE,
     size |-> size, layout |-> "rows", inplace |-> op = "rope", output |-> FALSE, big |-> TRUE]

Transposed(v) == [v EXCEPT !.layout = "cols"]

\* an input, a cache on the first device, a weight on the CPU
Leafs == <<Leaf("", FALSE, TRUE), Leaf("gpu", FALSE, FALSE), Leaf("host", TRUE, FALSE)>>

Read(ts) == UNION {{ts[n].src[k] : k \in DOMAIN ts[n].src} : n \in DOMAIN ts}

NextNodes(ts) ==
    LET n == Len(ts)
        Of(x) == IF ts[x].view = 0 THEN x ELSE ts[x].view
        Pairs == {<<x>> : x \in 1 .. n} \cup {<<x, y>> : x, y \in 1 .. n}
        Sorted == {s \in Pairs : Len(s) = 2 => s[1] < s[2]}
        views == {GraphNode("view", <<x>>, Of(x), ts[x].size) : x \in 4 .. n}
    IN  {GraphNode("mul", s, 0, 1) : s \in Sorted}
          \cup {GraphNode("rope", s, 0, ts[s[1]].size) : s \in Sorted}
          \cup views \cup {Transposed(v) : v \in views}
          \cup {GraphNode("cpy", <<x, 2>>, 2, ts[x].size) : x \in 4 .. n}

Grown(S, many) ==
    UNION {{Append(ts, c) : c \in {c \in NextNodes(ts) :
        Cardinality((4 .. Len(ts)) \ (Read(ts) \cup Read(<<c>>))) < many}} : ts \in S}

\* a layer: projections, the cache written and read back, attention, output
Layer(a, b, c) ==
    Leafs \o <<GraphNode(a, <<1, 3>>, 0, 2), GraphNode("rope", <<4>>, 0, 2), GraphNode("cpy", <<5, 2>>, 2, 2),
                GraphNode("view", <<2>>, 2, 2), GraphNode(b, <<4, 7>>, 0, 2), GraphNode("view", <<8>>, 8, 2),
                GraphNode(c, <<9, 3>>, 0, 2), GraphNode("mul", <<10, 1>>, 0, 1)>>

\* operators that read more than one split may copy: the second one starts a
\* split of its own if the first one has filled it, and if not, it overfills it
Wide(p, q) ==
    Leafs \o <<GraphNode("mul", <<1, 2>>, 0, 1), GraphNode("mul", <<2>>, 0, 1),
                GraphNode("rope", p, 0, 1), GraphNode("rope", q, 0, 1)>>

\* the last tensor, and in a layer one in the middle, are outputs
Outputting(ts) ==
    [nl |-> 3, t |-> [k \in DOMAIN ts |-> [ts[k] EXCEPT !.output = k \in {Len(ts), 8}]]]

MCGraphs ==
    {Outputting(ts) : ts \in Grown(Grown(Grown({Leafs}, 3), 2), 1)
                           \cup {Layer(a, b, c) : a, b, c \in {"mul", "rope"}}
                           \cup {Wide(p, q) : p, q \in {<<4, 2>>, <<4, 5>>, <<5>>}}}

\* a graph for a batch of another size: small, none of it needed, or larger
Resized(g, d, big) ==
    [g EXCEPT !.t = [k \in DOMAIN @ |->
        IF @[k].buf # "" THEN @[k]
        ELSE [@[k] EXCEPT !.size = IF @ + d < 0 THEN 0 ELSE @ + d, !.big = big]]]

MCSecond(g) == {Resized(g, 0, FALSE), Resized(g, -2, FALSE), Resized(g, 1, TRUE)}

S == INSTANCE Sched WITH
    Machines <- MCMachines, Graphs <- MCGraphs, Second <- MCSecond, MaxTensors <- 30,
    MaxTensor <- 3, copied <- links, i <- node, j <- source, pc <- plan

----------------------------------------------------------------------------
(* The ends at which the two others are.                                   *)

TeamEnded ==
    /\ BarrierInit
    /\ cgraph = <<SingleOp>> /\ abort_callback = FALSE
    /\ pc = [t \in Threads |-> IF t = 0 THEN "returned" ELSE "exit"]
    /\ node_n = [t \in Threads |-> 1] /\ cur = [t \in Threads |-> 0]
    /\ current_chunk = 0 /\ ec = "success" /\ wdata = [r \in {} |-> 0]
    /\ written = <<Elements(SingleOp)>> /\ twice = {}

PipelineEnded ==
    /\ setup = Setup(<<Sp(0, <<>>)>>, 1, FALSE, FALSE, FALSE, 1)
    /\ cur_copy = 0 /\ i = 1 /\ j = 1 /\ next = "next" /\ batch = Batches
    /\ stream = <<>> /\ busy = <<>> /\ recorded = <<>> /\ reached = <<>>
    /\ copied = {} /\ slot = <<>> /\ hidden = <<Batches>>

ClientsGone == calls = [c \in Clients |-> MaxCalls + 1] /\ NobodyConnected

EmptyGraph == [nl |-> 0, t |-> <<>>]

SchedEnded ==
    /\ machine = <<CPU({"host"})>> /\ graph = EmptyGraph
    /\ ids = <<>> /\ pass = 6 /\ splits = <<>> /\ links = {}
    /\ placed = EmptyGraph /\ hn = <<>> /\ todo = <<>> /\ node = 0 /\ source = 0
    /\ blocks = [b \in Buffers |-> Fresh] /\ maxs = [b \in Buffers |-> 0]
    /\ allocs = <<>> /\ data = <<>> /\ plan = "ready" /\ rounds = 2 /\ prev = <<>>

----------------------------------------------------------------------------

DevicesInit ==
    \/ Init /\ PipelineEnded /\ ClientsGone /\ SchedEnded
    \/ TeamEnded /\ PipeInit /\ ClientsGone /\ SchedEnded
    \/ TeamEnded /\ PipelineEnded /\ RpcInit /\ SchedEnded
    \/ TeamEnded /\ PipelineEnded /\ ClientsGone /\ S!SchedInit

DevicesNext ==
    \/ Next /\ UNCHANGED <<pipevars, rpcvars, sched>>
    \/ PipeNext /\ UNCHANGED <<vars, rpcvars, sched>>
    \/ RpcNext /\ UNCHANGED <<vars, pipevars, sched>>
    \/ S!SchedNext /\ UNCHANGED <<vars, pipevars, rpcvars>>

DevicesSpec ==
    DevicesInit /\ [][DevicesNext]_allVars /\ Fairness /\ PipeFairness /\ RpcFairness

----------------------------------------------------------------------------

\* Every operation is in a split of a backend that has the operator, and can
\* read all its sources and write its result where it runs.
RunsWhereItCan == S!RunsWhereSupported /\ S!ReadsWhatIsThere

\* Every operation, and every copy to another backend, finds in its sources
\* what their own operations wrote, in memory it can read; outputs survive.
ReadsItsSources == S!ReadsItsSources

\* The planner is given graphs it can plan, and frees what is allocated, at the
\* address and with the size it was given.
IsDynAlloc == S!IsDynAlloc

=============================================================================
