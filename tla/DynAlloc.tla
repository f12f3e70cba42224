------------------------------ MODULE DynAlloc ------------------------------
(***************************************************************************)
(* ggml_dyn_tallocr with its users: tensors are allocated, handed over to  *)
(* the tensor that replaces them in place, and freed, in any order.        *)
(***************************************************************************)
EXTENDS FreeList

CONSTANTS Tensors, MaxTensor   \* sizes are 0 .. MaxTensor

VARIABLES
    free_blocks,
    max_size,    \* the size the buffer will need
    live         \* the ranges of the tensors that are allocated

vars == <<free_blocks, max_size, live>>

Init == free_blocks = Fresh /\ max_size = 0 /\ live = <<>>

\* a size that is too large for every block aborts the program
Alloc(t, size) ==
    LET s == Aligned(size)
        i == BestFit(free_blocks, s)
    IN  /\ t \notin DOMAIN live /\ i # 0
        /\ LET o == free_blocks[i].offset
           IN  /\ live' = [u \in DOMAIN live \cup {t} |-> IF u = t THEN Block(o, s) ELSE live[u]]
               /\ max_size' = IF o + s > max_size THEN o + s ELSE max_size
        /\ free_blocks' = Cut(free_blocks, i, s)

Free(t) ==
    /\ t \in DOMAIN live
    /\ free_blocks' = Freed(free_blocks, live[t].offset, live[t].size)
    /\ live' = [u \in DOMAIN live \ {t} |-> live[u]]
    /\ UNCHANGED max_size

\* u takes the place of t
HandOver(t, u) ==
    /\ t \in DOMAIN live /\ u \notin DOMAIN live
    /\ live' = [v \in (DOMAIN live \ {t}) \cup {u} |-> IF v = u THEN live[t] ELSE live[v]]
    /\ UNCHANGED <<free_blocks, max_size>>

Reset == free_blocks' = Fresh /\ max_size' = 0 /\ live' = <<>>

Next ==
    \/ \E t \in Tensors, size \in 0 .. MaxTensor : Alloc(t, size)
    \/ \E t \in Tensors : Free(t)
    \/ \E t, u \in Tensors : HandOver(t, u)
    \/ Reset

Spec == Init /\ [][Next]_vars

\* Nothing is given to two tensors, and nothing is lost when tensors are freed.
Tiled == TiledBy(free_blocks, live)

\* The buffer is as large as the end of the last tensor.
MaxCovers == \A t \in DOMAIN live : BlockEnd(live[t]) <= max_size

=============================================================================
