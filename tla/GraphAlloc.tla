----------------------------- MODULE GraphAlloc -----------------------------
(***************************************************************************)
(* ggml_gallocr: where the tensors of a graph live.  A plan walks the      *)
(* nodes in the order they are computed, allocates each result, in place   *)
(* of a parent where it can, and frees the parents nobody reads again; the *)
(* plan is then used for every later graph it is thought to fit.           *)
(***************************************************************************)
EXTENDS TensorMemory, FiniteSets

\* A graph: leafs 1 .. nl, then the nodes in order; per tensor its kind, size,
\* layout (its type, shape and strides), sources, the tensor it is a view of (0
\* if none), buffer id, and whether it is an output.  Leafs are inputs, other
\* constants, or already allocated outside ("external"); nodes are "plain",
\* "inplace" if the operator can work in place, "view", "input" if they are the
\* scheduler's copies of a pipelined graph, or "dep": a view without operator
\* that only keeps its source from being freed.
VARIABLES
    graph,    \* the graph being planned or ready to be computed
    todo,     \* tensors still to be allocated for the current node
    i, j,     \* the node, and the source, the plan is at
    allocs,   \* n_leafs, n_nodes, leaf_allocs and node_allocs
    data,     \* addresses of the tensors of the graph that is ready
    pc,
    rounds    \* graphs allocated, at most 2

plan == <<hn, blocks, maxs, todo, i, j>>
vars == <<graph, plan, allocs, data, pc, rounds>>

Ids(g) == DOMAIN g.t
Leafs(g) == 1 .. g.nl
Nodes(g) == g.nl + 1 .. Len(g.t)
NNodes(g) == Len(g.t) - g.nl

IsView(g, t) == g.t[t].view # 0
External(g, t) == g.t[t].kind = "external" \/ (IsView(g, t) /\ g.t[g.t[t].view].kind = "external")

\* occurrences of t among the sources of all nodes, and its views
Children(g, t) ==
    Cardinality({r \in Nodes(g) \X (1 .. 3) :
                    r[2] \in DOMAIN g.t[r[1]].src /\ g.t[r[1]].src[r[2]] = t})
Views(g, t) == Cardinality({n \in Nodes(g) : g.t[n].view = t /\ g.t[n].kind # "dep"})

Unset == [buffer |-> 0, offset |-> 0, size |-> 0, allocated |-> FALSE, children |-> 0, views |-> 0]

NoPlan == [leaf |-> <<>>, dst |-> <<>>, src |-> <<>>]

Init ==
    /\ graph = [nl |-> 0, t |-> <<>>]
    /\ hn = <<>> /\ todo = <<>> /\ i = 0 /\ j = 0
    /\ blocks = [b \in Buffers |-> Fresh]
    /\ maxs = [b \in Buffers |-> 0]
    /\ allocs = NoPlan
    /\ data = <<>>
    /\ pc = "idle" /\ rounds = 0

----------------------------------------------------------------------------
(* The plan.                                                               *)

\* leafs first, then the inputs in the order in which nodes use them
FirstOnes(g) ==
    LET used(n) == <<n>> \o g.t[n].src
        inputOf(n, s) == IF g.t[s].kind = "input" THEN << <<s, g.t[n].buffer>> >> ELSE <<>>
        inputsOf(n) == FlattenSeq([m \in DOMAIN used(n) |-> inputOf(n, used(n)[m])])
    IN  [k \in Leafs(g) |-> <<k, g.t[k].buffer>>]
          \o FlattenSeq([k \in 1 .. NNodes(g) |-> inputsOf(g.nl + k)])

\* ggml_gallocr_reserve_n up to the first allocation
Begin(g) ==
    /\ graph' = g
    /\ blocks' = [b \in Buffers |-> Fresh]
    /\ maxs' = [b \in Buffers |-> 0]
    /\ hn' = [t \in Ids(g) |->
                 [Unset EXCEPT !.size = Aligned(g.t[t].size),
                              !.children = Children(g, t), !.views = Views(g, t)]]
    /\ todo' = FirstOnes(g)
    /\ i' = g.nl /\ j' = 1
    /\ pc' = "plan"

Own(t) == hn[t].allocated

SameLayout(a, b) ==
    graph.t[a].size = graph.t[b].size /\ graph.t[a].layout = graph.t[b].layout

\* mutation: a parent may be overwritten although it has views
LastReadNoViews(p) == hn[p].children = 1

LastRead(p) == hn[p].children = 1 /\ hn[p].views = 0

\* Parents whose memory n may take.  A view never is: it is not allocated
\* itself, so not own.
Reusable(n) ==
    {k \in DOMAIN graph.t[n].src :
        LET p == graph.t[n].src[k]
        IN  /\ graph.t[n].kind = "inplace"
            /\ Own(p) /\ ~graph.t[p].output
            /\ SameLayout(n, p) /\ LastRead(p)}

FirstReusable(n) == CHOOSE k \in Reusable(n) : \A m \in Reusable(n) : k <= m

\* neither allocated, nor a view, nor outside
Needed(t) == ~Own(t) /\ ~IsView(graph, t) /\ ~External(graph, t)

\* a step of ggml_gallocr_allocate_node for <<tensor, buffer_id>>
Allocate ==
    LET t == Head(todo)[1]
        b == Head(todo)[2]
        s == hn[t].size
    IN  /\ pc = "plan" /\ todo # <<>>
        /\ todo' = Tail(todo)
        /\ IF ~Needed(t) THEN UNCHANGED <<hn, blocks, maxs>>
           ELSE IF Reusable(t) # {}
           THEN LET p == graph.t[t].src[FirstReusable(t)]
                IN  /\ hn' = [hn EXCEPT ![t].allocated = TRUE, ![t].buffer = hn[p].buffer,
                                        ![t].offset = hn[p].offset, ![p].allocated = FALSE]
                    /\ UNCHANGED <<blocks, maxs>>
           ELSE LET k == BestFit(blocks[b], s)
                    o == blocks[b][k].offset
                IN  /\ k # 0
                    /\ hn' = [hn EXCEPT ![t].allocated = TRUE, ![t].buffer = b, ![t].offset = o]
                    /\ blocks' = [blocks EXCEPT ![b] = Cut(@, k, s)]
                    /\ maxs' = [maxs EXCEPT ![b] = IF o + s > @ THEN o + s ELSE @]
        /\ UNCHANGED <<graph, i, j, allocs, data, pc, rounds>>

\* the next node: its sources, should they not be allocated yet, and itself
NextNode ==
    /\ pc = "plan" /\ todo = <<>>
    /\ IF i \in Nodes(graph) THEN j > Len(graph.t[i].src) ELSE TRUE
    /\ i < Len(graph.t)
    /\ i' = i + 1 /\ j' = 1
    /\ todo' = [k \in DOMAIN graph.t[i + 1].src |-> <<graph.t[i + 1].src[k], graph.t[i + 1].buffer>>]
                 \o << <<i + 1, graph.t[i + 1].buffer>> >>
    /\ UNCHANGED <<graph, hn, blocks, maxs, allocs, data, pc, rounds>>

MayFree(t) == ~graph.t[t].output

\* mutation: a source is freed although its memory was given away in place
FreedWithAny(p, h) ==
    LET v == graph.t[p].view
    IN  IF h[p].children # 0 \/ h[p].views # 0 THEN {}
        ELSE IF IsView(graph, p)
        THEN {u \in {v} : h[v].views = 0 /\ h[v].children = 0 /\ h[v].allocated /\ MayFree(v)}
        ELSE {u \in {p} : MayFree(p)}

\* what is freed when source p of node i is done with, given its counters
FreedWith(p, h) ==
    LET v == graph.t[p].view
    IN  IF h[p].children # 0 \/ h[p].views # 0 THEN {}
        ELSE IF IsView(graph, p)
        THEN {u \in {v} : h[v].views = 0 /\ h[v].children = 0 /\ h[v].allocated /\ MayFree(v)}
        ELSE {u \in {p} : h[p].allocated /\ MayFree(p)}

\* one source of the node is read: its counters, the counter of the tensor
\* it is a view of, and the memory nobody needs any more
Update ==
    LET p == graph.t[i].src[j]
        v == graph.t[p].view
        h1 == [hn EXCEPT ![p].children = @ - 1]
        h2 == IF IsView(graph, p) /\ h1[p].children = 0 /\ h1[p].views = 0
              THEN [h1 EXCEPT ![v].views = @ - 1] ELSE h1
    IN  /\ pc = "plan" /\ todo = <<>> /\ i \in Nodes(graph) /\ j <= Len(graph.t[i].src)
        /\ IF FreedWith(p, h2) = {} THEN hn' = h2 /\ UNCHANGED blocks
           ELSE LET u == CHOOSE u \in FreedWith(p, h2) : TRUE
                IN  /\ hn' = [h2 EXCEPT ![u].allocated = FALSE]
                    /\ blocks' = [blocks EXCEPT ![hn[u].buffer] =
                                    Freed(@, hn[u].offset, hn[u].size)]
        /\ j' = j + 1
        /\ UNCHANGED <<graph, maxs, todo, i, allocs, data, pc, rounds>>

----------------------------------------------------------------------------
(* The graph is given its addresses.                                       *)

Nowhere == [buffer |-> -1, offset |-> 0, size_max |-> 0]

\* an entry of node_allocs or leaf_allocs
Entry(t) ==
    IF IsView(graph, t) \/ External(graph, t) THEN Nowhere
    ELSE [buffer |-> hn[t].buffer, offset |-> hn[t].offset, size_max |-> graph.t[t].size]

Stored ==
    [leaf |-> [k \in Leafs(graph) |-> Entry(k)],
     dst  |-> [k \in 1 .. NNodes(graph) |-> Entry(graph.nl + k)],
     src  |-> [k \in 1 .. NNodes(graph) |->
                  [m \in DOMAIN graph.t[graph.nl + k].src |-> Entry(graph.t[graph.nl + k].src[m])]]]

\* The entries that name t: the leafs, then for each node its sources and
\* itself; the first one gives it its address.
Naming(g, a, t) ==
    (IF t \in Leafs(g) THEN <<a.leaf[t]>> ELSE <<>>)
      \o FlattenSeq([k \in 1 .. NNodes(g) |->
             LET n == g.nl + k
                 used == SelectSeq([m \in DOMAIN g.t[n].src |-> m], LAMBDA m : g.t[n].src[m] = t)
             IN  [m \in DOMAIN used |-> a.src[k][used[m]]]
                   \o (IF t = n THEN <<a.dst[k]>> ELSE <<>>)])

\* ggml_gallocr_init_tensor over the graph
Addresses(g, a) ==
    [t \in {t \in Ids(g) : ~IsView(g, t) /\ ~External(g, t)} |-> Naming(g, a, t)[1]]

Planned ==
    /\ pc = "plan" /\ todo = <<>> /\ i = Len(graph.t) /\ j > Len(graph.t[i].src)
    /\ allocs' = Stored
    /\ data' = Addresses(graph, Stored)
    /\ pc' = "ready"
    /\ UNCHANGED <<graph, plan, rounds>>

\* ggml_gallocr_node_needs_realloc, whose result says that it does not
FitsEntry(g, t, e) ==
    (IF IsView(g, t) \/ External(g, t) THEN 0 ELSE g.t[t].size) <= e.size_max

\* Only the numbers and the sizes are compared, not who reads what.
NeedsRealloc(g) ==
    \/ Len(allocs.dst) # NNodes(g) \/ Len(allocs.leaf) # g.nl
    \/ \E k \in 1 .. NNodes(g) :
          \/ ~FitsEntry(g, g.nl + k, allocs.dst[k])
          \/ \E m \in DOMAIN g.t[g.nl + k].src :
                IF m \in DOMAIN allocs.src[k]
                THEN ~FitsEntry(g, g.t[g.nl + k].src[m], allocs.src[k][m])
                ELSE ~FitsEntry(g, g.t[g.nl + k].src[m], Nowhere)

\* ggml_backend_sched_alloc_splits: ggml_gallocr_alloc_graph, and when it
\* refuses, or a tensor has moved to other buffers, a new reservation first
AllocSplits(g, moved) ==
    /\ pc \in {"idle", "ready"} /\ rounds < 2
    /\ rounds' = rounds + 1
    /\ IF moved \/ NeedsRealloc(g)
       THEN Begin(g) /\ UNCHANGED <<allocs, data>>
       ELSE /\ graph' = g
            /\ data' = Addresses(g, allocs)
            /\ pc' = "ready"
            /\ UNCHANGED <<plan, allocs>>

Walk == Allocate \/ NextNode \/ Update \/ Planned

----------------------------------------------------------------------------

\* The graphs an allocator is given: sources and views are tensors of the
\* graph, and sizes are not negative.
IsGraph(g) ==
    /\ g.nl \in Nat /\ Len(g.t) \in Nat /\ g.nl <= Len(g.t) /\ DOMAIN g.t = 1 .. Len(g.t)
    /\ \A t \in Ids(g) :
           /\ g.t[t].size \in Nat /\ g.t[t].buffer \in Buffers
           /\ g.t[t].view \in Ids(g) \cup {0}
           /\ g.t[t].src \in Seq(Ids(g))

----------------------------------------------------------------------------
(* What a computation finds: each tensor is written at its node, leafs     *)
(* before all nodes.                                                       *)

Root(t) == IF IsView(graph, t) THEN graph.t[t].view ELSE t

Written(t) == IF t \in Leafs(graph) THEN 0 ELSE t

\* bytes of t in the buffers; views and deps have none of their own
Bytes(t) ==
    IF t \in DOMAIN data
    THEN {data[t].buffer} \X (data[t].offset .. data[t].offset + graph.t[t].size - 1)
    ELSE {}

Intact(r, when) ==
    \A w \in DOMAIN data :
        w # r /\ Written(w) >= Written(r) /\ Written(w) < when => Bytes(w) \cap Bytes(r) = {}

\* a node may write over a source it reads only in place, element by element
InPlace(n, s) ==
    Bytes(n) \cap Bytes(Root(s)) = {}
      \/ /\ graph.t[n].kind = "inplace" /\ s = Root(s) /\ SameLayout(n, s)
         /\ data[n].offset = data[s].offset

\* Every node finds in its sources what their own nodes wrote, although
\* memory is reused; outputs are still there at the end.
ReadsItsSources ==
    pc = "ready" =>
        /\ \A n \in Nodes(graph) : \A k \in DOMAIN graph.t[n].src :
               LET s == graph.t[n].src[k]
               IN  Intact(Root(s), n) /\ InPlace(n, s)
        /\ \A t \in DOMAIN data : graph.t[t].output => Intact(t, Len(graph.t) + 1)

=============================================================================
