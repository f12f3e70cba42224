---------------------------- MODULE TensorMemory ----------------------------
(***************************************************************************)
(* The memory of the buffers while ggml_gallocr plans a graph: what is     *)
(* free, what has been given to tensors, and how large a buffer must be.   *)
(***************************************************************************)
EXTENDS FreeList

CONSTANT Buffers    \* buffer ids, 0 .. n_buffers - 1

VARIABLES
    hn,       \* hash_values, per tensor, with the size that is allocated for it
    blocks,   \* the free blocks of each buffer
    maxs      \* max_size of each buffer

\* The tensors with memory of their own in buffer b, for the allocator.
LiveIn(b) ==
    [t \in {t \in DOMAIN hn : hn[t].allocated /\ hn[t].buffer = b} |->
        Block(hn[t].offset, hn[t].size)]

\* During a plan, memory is never given out twice and never lost, and the
\* buffer is large enough for all of it.
MemoryTiled ==
    \A b \in Buffers :
        /\ TiledBy(blocks[b], LiveIn(b))
        /\ \A t \in DOMAIN LiveIn(b) : BlockEnd(LiveIn(b)[t]) <= maxs[b]

=============================================================================
