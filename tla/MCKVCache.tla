------------------------------ MODULE MCKVCache ------------------------------
(* Small instances of KVCache: every call, short batches of one or more    *)
(* sequences, and a cache small enough to be full.                         *)
EXTENDS KVCache

CONSTANTS MaxBatch, Starts, Owners

\* runs of consecutive positions, all in the same sequences
MCBatches ==
    {[j \in 1 .. len |-> [pos |-> p + j - 1, seqs |-> o, tok |-> t]] :
        len \in 1 .. MaxBatch, p \in Starts, o \in Owners, t \in Toks}


\* The row of a dead cell is never read before a decode overwrites it, and n
\* is only read in the step that computes it: states that differ in these
\* have the same future.
View == <<[cache EXCEPT !.n = 0,
                       !.row = [i \in Cells |-> IF i \in Live(cache) THEN @[i] ELSE NoTok]],
         call>>

Disabled == -1

MCBounds == {-1, 1}
MCShifts == {-1, 1}
Back == {-1}
All == {-1}

=============================================================================
