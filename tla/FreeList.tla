------------------------------ MODULE FreeList ------------------------------
(***************************************************************************)
(* The free blocks of ggml_dyn_tallocr: an array of blocks kept in the     *)
(* order of their offsets, from which tensors are cut and to which they    *)
(* return.  Sizes may be 0: a batch without outputs has empty tensors.     *)
(***************************************************************************)
EXTENDS Integers, SequencesExt

CONSTANTS
    alignment,
    MaxSize      \* SIZE_MAX/2 in the code

ASSUME SizesAssumption ==
    /\ alignment \in Nat \ {0}
    /\ MaxSize \in Nat \ {0} /\ MaxSize % alignment = 0

Block(o, s) == [offset |-> o, size |-> s]
BlockEnd(b) == b.offset + b.size
Span(b) == b.offset .. BlockEnd(b) - 1

\* aligned_offset(NULL, size, alignment)
Aligned(size) == ((size + alignment - 1) \div alignment) * alignment

Fresh == <<Block(0, MaxSize)>>

\* mutation: an equally large block is enough for any size
FitsLess(b, size) == b.size > 0

Fits(b, size) == b.size >= size

\* the smallest block that fits, the later of equals; the last block of the
\* array only if no other fits; 0 if none does
BestFit(blocks, size) ==
    LET n  == Len(blocks)
        ok == {i \in 1 .. n - 1 : Fits(blocks[i], size)}
        last == {i \in {n} : Fits(blocks[i], size)}
        best == {i \in ok : \A k \in ok :
                    \/ blocks[i].size < blocks[k].size
                    \/ blocks[i].size = blocks[k].size /\ k <= i}
    IN  IF ok # {} THEN CHOOSE i \in best : TRUE ELSE IF last # {} THEN n ELSE 0

\* the blocks once `size` bytes are cut from the front of block i
Cut(blocks, i, size) ==
    IF blocks[i].size = size
    THEN RemoveAt(blocks, i)
    ELSE [blocks EXCEPT ![i] = Block(@.offset + size, @.size - size)]

\* blocks i and i+1 in one
Joined(blocks, i) ==
    RemoveAt([blocks EXCEPT ![i].size = @ + blocks[i + 1].size], i + 1)

Adjacent(blocks, i) ==
    i \in 1 .. Len(blocks) - 1 /\ BlockEnd(blocks[i]) = blocks[i + 1].offset

JoinedIf(blocks, i) == IF Adjacent(blocks, i) THEN Joined(blocks, i) ELSE blocks

Touches(b, offset, size) == BlockEnd(b) = offset \/ offset + size = b.offset

\* the first block the range touches, at its end or else at its beginning
FirstTouched(blocks, offset, size) ==
    CHOOSE i \in DOMAIN blocks :
        /\ Touches(blocks[i], offset, size)
        /\ \A k \in 1 .. i - 1 : ~Touches(blocks[k], offset, size)

\* the number of blocks before the first that is not below offset
Below(blocks, offset) ==
    CHOOSE k \in 0 .. Len(blocks) :
        /\ \A i \in 1 .. k : blocks[i].offset < offset
        /\ k < Len(blocks) => blocks[k + 1].offset >= offset

\* ggml_dyn_tallocr_free_tensor
Freed(blocks, offset, size) ==
    IF \E i \in DOMAIN blocks : Touches(blocks[i], offset, size)
    THEN LET i == FirstTouched(blocks, offset, size)
         IN  IF BlockEnd(blocks[i]) = offset
             THEN JoinedIf([blocks EXCEPT ![i].size = @ + size], i)
             ELSE JoinedIf([blocks EXCEPT ![i] = Block(offset, @.size + size)], i - 1)
    ELSE InsertAt(blocks, Below(blocks, offset) + 1, Block(offset, size))

----------------------------------------------------------------------------

\* Every byte is in one free block or in the range of one tensor of `live`.
TiledBy(blocks, live) ==
    /\ \A t, u \in DOMAIN live : t # u => Span(live[t]) \cap Span(live[u]) = {}
    /\ \A i, k \in DOMAIN blocks : i # k => Span(blocks[i]) \cap Span(blocks[k]) = {}
    /\ \A t \in DOMAIN live, i \in DOMAIN blocks : Span(live[t]) \cap Span(blocks[i]) = {}
    /\ 0 .. MaxSize - 1 =
           (UNION {Span(blocks[i]) : i \in DOMAIN blocks})
             \cup (UNION {Span(live[t]) : t \in DOMAIN live})

=============================================================================
