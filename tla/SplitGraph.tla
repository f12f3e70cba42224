----------------------------- MODULE SplitGraph -----------------------------
(***************************************************************************)
(* ggml_backend_sched_split_graph: every operation of a graph is given a   *)
(* backend in four passes, and the fifth cuts the graph into splits of one *)
(* backend each, whose inputs from elsewhere are copied.                   *)
(***************************************************************************)
EXTENDS Integers, FiniteSets, SequencesExt

CONSTANTS
    Machines,      \* sequences of backends, the last one the CPU; see below
    Graphs,
    max_inputs     \* GGML_SCHED_MAX_SPLIT_INPUTS

\* A backend: the operators it supports, the buffer type it allocates, the
\* buffer types it can read, and whether it takes over big operations whose
\* weights are on the CPU.  A tensor: its sources, operator ("view" if it is a view
\* operator, "none" for a leaf), the tensor it is a view of (0 if none), the
\* type of the buffer it is already in ("" if none), and whether it is a
\* weight, an input, or big; for Sched its size, layout, whether it can be
\* computed in place and is an output.  Leafs are 1 .. nl, the nodes follow.
VARIABLES
    machine, graph,
    ids,      \* tensor_backend_id, 0 for -1
    pass,     \* passes done, -1 once the program has aborted
    splits,   \* backend, first node, and tensors that are copied to it
    copied    \* the sources that were replaced by a copy, as <<node, source>>

vars == <<machine, graph, ids, pass, splits, copied>>

n_backends == Len(machine)
Ids == DOMAIN graph.t
T(t) == graph.t[t]
IsViewOp(n) == T(n).op = "view"
Ops == SelectSeq([k \in 1 .. Len(graph.t) - graph.nl |-> graph.nl + k], LAMBDA n : ~IsViewOp(n))

SupportsOp(b, t) == T(t).op \in machine[b].ops
Reads(b, type) == type \in machine[b].reads

Least(S) == IF S = {} THEN 0 ELSE CHOOSE x \in S : \A y \in S : x <= y

\* ggml_backend_sched_backend_from_buffer
FromBuffer(t, op) ==
    Least({b \in 1 .. n_backends : T(t).buf # "" /\ Reads(b, T(t).buf) /\ SupportsOp(b, op)})

\* what the first weight among the sources says
FromWeight(t) ==
    LET w == Least({k \in DOMAIN T(t).src : T(T(t).src[k]).weight})
        b == FromBuffer(T(t).src[w], t)
        takers == {a \in 1 .. b - 1 : SupportsOp(a, t) /\ machine[a].offload /\ T(t).big}
    IN  IF w = 0 THEN 0
        ELSE IF b = n_backends /\ takers # {} THEN Least(takers) ELSE b

\* ggml_backend_sched_backend_id_from_cur
FromCur(t) ==
    LET own == FromBuffer(t, t)
        whole == IF T(t).view = 0 THEN 0 ELSE FromBuffer(T(t).view, t)
    IN  IF own # 0 THEN own
        ELSE IF whole # 0 THEN whole
        ELSE IF T(t).input THEN n_backends
        ELSE FromWeight(t)

Init ==
    /\ machine \in Machines /\ graph \in Graphs
    /\ ids = [t \in Ids |-> 0]
    /\ pass = 0 /\ splits = <<>>
    /\ copied = {}

Pass(k) == pass = k - 1 /\ pass' = k /\ UNCHANGED <<machine, graph>>

Pass1 ==
    /\ Pass(1)
    /\ ids' = [t \in Ids |-> FromCur(t)]
    /\ UNCHANGED <<splits, copied>>

SpreadsTo(b, n) == b # 0 /\ SupportsOp(b, n)

\* along the nodes, each backend to the unassigned ones behind it
Spread(a, order, skipped) ==
    FoldLeft(LAMBDA acc, n :
        IF acc.ids[n] # 0
        THEN [acc EXCEPT !.cur = IF acc.ids[n] \in skipped THEN 0 ELSE acc.ids[n]]
        ELSE IF SpreadsTo(acc.cur, n) THEN [acc EXCEPT !.ids[n] = acc.cur] ELSE acc,
        [ids |-> a, cur |-> 0], order).ids

\* first all but the CPU, down and up, then the rest
Pass2 ==
    /\ Pass(2)
    /\ LET down == Spread(ids, Ops, {n_backends})
           up   == Spread(down, Reverse(Ops), {n_backends})
           rest == Spread(up, Ops, {})
       IN  ids' = Spread(rest, Reverse(Ops), {})
    /\ UNCHANGED <<splits, copied>>

\* ggml_backend_sched_buffer_supported
BufferSupported(a, t, b) ==
    LET own  == IF T(t).view # 0 THEN T(T(t).view).buf ELSE T(t).buf
        at   == IF a[t] = 0 /\ T(t).view # 0 THEN a[T(t).view] ELSE a[t]
        type == IF own # "" THEN own ELSE IF at # 0 THEN machine[at].buft ELSE ""
    IN  type # "" /\ Reads(b, type)

Located(a, t) == a[t] # 0 \/ (T(t).view # 0 /\ a[T(t).view] # 0)

\* for a node nobody could be spread to, the backend that reads most sources
MostSupported(a, n) ==
    LET Count(b) == Cardinality({k \in DOMAIN T(n).src :
                        Located(a, T(n).src[k]) /\ BufferSupported(a, T(n).src[k], b)})
        able == {b \in 1 .. n_backends : SupportsOp(b, n)}
    IN  Least({b \in able : \A c \in able : Count(c) <= Count(b)})

\* for the others, a backend before it with the same buffers
Upgraded(a, n) ==
    LET better == {b \in 1 .. a[n] - 1 :
                      /\ machine[b].buft = machine[a[n]].buft
                      /\ SupportsOp(b, n)
                      /\ \A k \in DOMAIN T(n).src : BufferSupported(a, T(n).src[k], b)}
    IN  IF better = {} THEN a[n] ELSE Least(better)

Pass3 ==
    /\ Pass(3)
    /\ ids' = FoldLeft(LAMBDA a, n :
                  [a EXCEPT ![n] = IF @ = 0 THEN MostSupported(a, n) ELSE Upgraded(a, n)],
                  ids, Ops)
    /\ UNCHANGED <<splits, copied>>

\* views follow their source, other sources their first reader
Placed(a, n) ==
    LET own == [a EXCEPT ![n] = IF @ = 0 /\ T(n).view # 0 THEN a[T(n).view] ELSE @]
    IN  FoldLeft(LAMBDA c, s :
            [c EXCEPT ![s] = IF @ # 0 THEN @
                             ELSE IF T(s).view # 0 THEN c[T(s).view] ELSE c[n]],
            own, T(n).src)

Pass4 ==
    /\ Pass(4)
    /\ ids' = FoldLeft(Placed, ids, [k \in 1 .. Len(graph.t) - graph.nl |-> graph.nl + k])
    /\ UNCHANGED <<splits, copied>>

\* mutation: what the other backend reads is compared, not what this one does
ReadsThere(s, b) == ids[s] # b /\ ~Reads(ids[s], machine[b].buft)

NeedsCopy(s, b) == ids[s] # b /\ ~BufferSupported(ids, s, b)

\* the current split cannot take node n, given the copies that exist
StartsSplit(split, copies, n) ==
    \/ ids[n] # split.backend
    \/ /\ split.inputs # <<>>
       /\ \E k \in DOMAIN T(n).src :
             LET s == T(n).src[k]
             IN  \/ T(s).weight /\ ids[s] # split.backend
                 \/ /\ Len(split.inputs) = max_inputs
                    /\ NeedsCopy(s, split.backend) /\ <<s, split.backend>> \notin copies

Started(acc, n) ==
    IF StartsSplit(Last(acc.splits), acc.copies, n)
    THEN [acc EXCEPT !.splits = Append(@, [backend |-> ids[n], start |-> n, inputs |-> <<>>])]
    ELSE acc

\* source k of node n, copied once for each backend that cannot read it
Linked(acc, n, k) ==
    LET s == T(n).src[k]
        b == Last(acc.splits).backend
        new == <<s, b>> \notin acc.copies
    IN  IF ~NeedsCopy(s, b) THEN acc
        ELSE [acc EXCEPT
                 !.splits[Len(acc.splits)].inputs = IF new THEN Append(@, s) ELSE @,
                 !.copies = @ \cup {<<s, b>>},
                 !.copied = @ \cup {<<n, k>>}]

\* pass 5 over all operations
Divided ==
    LET begin ==
            [splits |-> <<[backend |-> IF Ops = <<>> THEN 0 ELSE ids[Ops[1]],
                          start |-> graph.nl + 1, inputs |-> <<>>]>>,
             copies |-> {}, copied |-> {}]
    IN  FoldLeft(LAMBDA acc, n :
            FoldLeft(LAMBDA a, k : Linked(a, n, k), Started(acc, n),
                     [k \in DOMAIN T(n).src |-> k]), begin, Ops)

\* a split that was not full has been given more inputs than it has room for
Overfull(parts) == \E i \in DOMAIN parts : Len(parts[i].inputs) > max_inputs

Pass5 ==
    /\ Pass(5)
    /\ ~Overfull(Divided.splits)
    /\ splits' = Divided.splits /\ copied' = Divided.copied
    /\ UNCHANGED ids

\* GGML_ASSERT(n_inputs < GGML_SCHED_MAX_SPLIT_INPUTS)
Abort ==
    /\ pass = 4 /\ Overfull(Divided.splits)
    /\ pass' = -1
    /\ UNCHANGED <<machine, graph, ids, splits, copied>>

SplitGraph == Pass1 \/ Pass2 \/ Pass3 \/ Pass4 \/ Pass5 \/ Abort

----------------------------------------------------------------------------

End(i) == IF i = Len(splits) THEN Len(graph.t) ELSE splits[i + 1].start - 1

SplitOf(n) == CHOOSE i \in DOMAIN splits : n \in splits[i].start .. End(i)

\* Every operation is in a split of a backend that has the operator and can
\* write its result.
RunsWhereSupported ==
    pass >= 5 => \A k \in DOMAIN Ops :
        LET n == Ops[k]
            b == splits[SplitOf(n)].backend
        IN  b = ids[n] /\ SupportsOp(b, n) /\ BufferSupported(ids, n, b)

\* Every operation can read all its sources where it runs: they are in memory
\* its backend can read, or copied to it at the start of this split or of an
\* earlier one, after they were computed.
ReadsWhatIsThere ==
    pass >= 5 => \A m \in DOMAIN Ops : \A k \in DOMAIN T(Ops[m]).src :
        LET n == Ops[m]
            b == splits[SplitOf(n)].backend
            s == T(n).src[k]
            whole == IF T(s).view # 0 THEN T(s).view ELSE s
        IN  IF <<n, k>> \notin copied
            THEN BufferSupported(ids, s, b)
            ELSE \E i \in 1 .. SplitOf(n) :
                     /\ splits[i].backend = b /\ Contains(splits[i].inputs, s)
                     /\ whole < splits[i].start

=============================================================================
