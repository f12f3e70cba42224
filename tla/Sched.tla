------------------------------- MODULE Sched -------------------------------
(***************************************************************************)
(* ggml_backend_sched_alloc_graph: a graph is split over the backends, the *)
(* copies of the inputs of each split are put in front of it, and          *)
(* ggml-alloc places the result, anew or as it placed the graph before.    *)
(***************************************************************************)
EXTENDS SplitGraph, TensorMemory

CONSTANTS
    MaxTensors,  \* tensors of a graph
    MaxTensor,   \* largest size of a tensor
    Second(_)    \* the graphs that may follow a graph

VARIABLES
    placed, todo, i, j, allocs, data, pc, rounds,
    prev      \* prev_node_backend_ids and prev_leaf_backend_ids

A == INSTANCE GraphAlloc WITH graph <- placed

alloc == <<placed, hn, blocks, maxs, todo, i, j, allocs, data, pc, rounds>>
allVars == <<vars, alloc, prev>>

\* backends with the same buffer type share one allocator
BufferOf(b) == Least({a \in 1 .. b : machine[a].buft = machine[b].buft})

\* the nodes of the copied graph
Item(kind, t, b) == [kind |-> kind, t |-> t, b |-> b]

ItemsOf(s) ==
    LET b == splits[s].backend
        ins == splits[s].inputs
        start == splits[s].start
    IN  FlattenSeq([k \in DOMAIN ins |-> <<Item("dep", ins[k], b), Item("copy", ins[k], b)>>])
          \o [k \in 1 .. End(s) - start + 1 |-> Item("node", start + k - 1, ids[start + k - 1])]

Items == FlattenSeq([s \in DOMAIN splits |-> ItemsOf(s)])

Place(kind, t, b) ==
    graph.nl + CHOOSE k \in DOMAIN Items : Items[k].kind = kind /\ Items[k].t = t
                                           /\ (kind = "copy" => Items[k].b = b)

Id(t) == IF t <= graph.nl THEN t ELSE Place("node", t, 0)

\* ggml_view_tensor of a view is a view of the whole
Whole(t) == IF T(t).view # 0 THEN T(t).view ELSE t

SourceOf(n, k) ==
    IF <<n, k>> \in copied THEN Place("copy", T(n).src[k], ids[n]) ELSE Id(T(n).src[k])

Tensor(kind, t, s, view, b) ==
    [kind |-> kind, size |-> T(t).size, layout |-> T(t).layout, src |-> s, view |-> view,
     output |-> kind # "dep" /\ T(t).output, buffer |-> BufferOf(b)]

LeafKind(t) == IF T(t).buf # "" THEN "external" ELSE IF T(t).input THEN "input" ELSE "const"

NodeOf(item) ==
    LET t == item.t
    IN  CASE item.kind = "dep"  -> Tensor("dep", t, <<Id(t)>>, Id(Whole(t)), ids[t])
          [] item.kind = "copy" -> [Tensor("plain", t, <<>>, 0, item.b) EXCEPT !.output = FALSE]
          [] item.kind = "node" ->
                 Tensor(IF T(t).view # 0 THEN "view" ELSE IF T(t).inplace THEN "inplace" ELSE "plain",
                        t, [k \in DOMAIN T(t).src |-> SourceOf(t, k)],
                        IF T(t).view = 0 THEN 0 ELSE Id(T(t).view), ids[t])

\* sched->graph
Copy ==
    [nl |-> graph.nl,
     t  |-> [t \in 1 .. graph.nl |-> Tensor(LeafKind(t), t, <<>>, 0, ids[t])]
              \o [k \in DOMAIN Items |-> NodeOf(Items[k])]]

\* the backend ids are those of the source for a dep
BackendIds ==
    [leaf |-> [t \in 1 .. graph.nl |-> ids[t]],
     node |-> [k \in DOMAIN Items |->
                  IF Items[k].kind = "dep" THEN ids[Items[k].t] ELSE Items[k].b]]

\* backend_ids_changed
Moved(new) ==
    \E f \in {"leaf", "node"} :
        \E k \in DOMAIN new[f] \cap DOMAIN prev[f] : BufferOf(new[f][k]) # BufferOf(prev[f][k])

SchedInit ==
    /\ Init
    /\ A!Init
    /\ prev = [leaf |-> <<>>, node |-> <<>>]

\* the passes, the first time or for the next graph
SplitStep == SplitGraph /\ UNCHANGED <<alloc, prev>>

AllocSplits ==
    /\ pass = 5 /\ pass' = 6
    /\ A!AllocSplits(Copy, Moved(BackendIds))
    /\ prev' = BackendIds
    /\ UNCHANGED <<machine, graph, ids, splits, copied>>

AllocStep == A!Walk /\ UNCHANGED <<vars, prev>>

\* ggml_backend_sched_reset, and the next graph
NextGraph ==
    /\ pass = 6 /\ pc = "ready" /\ rounds = 1
    /\ graph' \in Second(graph)
    /\ ids' = [t \in DOMAIN graph'.t |-> 0] /\ pass' = 0 /\ splits' = <<>> /\ copied' = {}
    /\ UNCHANGED <<machine, alloc, prev>>

Done == ((pc = "ready" /\ rounds = 2) \/ pass = -1) /\ UNCHANGED allVars

SchedNext == SplitStep \/ AllocSplits \/ AllocStep \/ NextGraph \/ Done

SchedSpec == SchedInit /\ [][SchedNext]_allVars

\* memory that backend b can read, though a tensor may have inherited its
\* place from a source on another backend
Reachable(b, t) ==
    LET r == A!Root(t)
    IN  r \in DOMAIN data => Reads(b, machine[data[r].buffer].buft)

\* Whatever the split and whatever was planned for the graph before, every
\* operation, and every copy to another backend, finds in its sources what
\* their own operations wrote, in memory it can read; and outputs survive.
ReadsItsSources ==
    pass = 6 /\ pc = "ready" =>
        /\ A!ReadsItsSources
        /\ \A k \in {k \in DOMAIN Items : Items[k].kind = "node" /\ ~IsViewOp(Items[k].t)} :
               \A s \in {graph.nl + k} \cup ToSet(placed.t[graph.nl + k].src) :
                   Reachable(ids[Items[k].t], s)

Dyn(b) == INSTANCE DynAlloc WITH
    free_blocks <- blocks[b], max_size <- maxs[b], live <- LiveIn(b),
    Tensors <- 1 .. MaxTensors

\* The planner is given graphs it can plan, and uses each allocator as any
\* user may: it frees what is allocated, at the address and with the size it
\* was given.
IsDynAlloc ==
    /\ []A!IsGraph(placed)
    /\ \A b \in Buffers : Dyn(b)!Init
    /\ [][\A b \in Buffers :
             \/ <<blocks[b], maxs[b], LiveIn(b)>>' = <<blocks[b], maxs[b], LiveIn(b)>>
             \/ Dyn(b)!Next]_allVars

=============================================================================
