---------------------------- MODULE FindSlotLoop ----------------------------
(***************************************************************************)
(* The loop of llama_kv_cache_find_slot, an iteration a step, from every   *)
(* set of occupied cells, every head and every number of tokens.           *)
(***************************************************************************)
EXTENDS KVLayout

VARIABLES
    occ,     \* the cells with a position
    k,       \* n_tokens
    start,   \* cache.head on entry
    head,    \* cache.head
    tested,  \* n_tested
    out      \* "looking", then the result

findvars == <<occ, k, start, head, tested, out>>

FindInit ==
    /\ occ \in SUBSET Cells
    /\ k \in 1 .. Size + 1
    /\ start \in 0 .. Size
    /\ head = start /\ tested = 0 /\ out = "looking"

Same == UNCHANGED <<occ, k, start>>

TooMany ==
    /\ out = "looking" /\ k > Size
    /\ out' = "full"
    /\ Same /\ UNCHANGED <<head, tested>>

Wrap ==
    /\ out = "looking" /\ k <= Size /\ head + k > Size
    /\ tested' = tested + Size - head
    /\ head' = 0
    /\ Same /\ UNCHANGED out

\* mutation: the search for an occupied cell starts one late
WindowLate == head + 1 .. head + k - 1

Window == head .. head + k - 1

Take ==
    /\ out = "looking" /\ head + k <= Size
    /\ Window \cap occ = {}
    /\ out' = "found"
    /\ Same /\ UNCHANGED <<head, tested>>

\* mutation: the cells passed over are not counted
Uncounted(h) == tested

Counted(h) == tested + (h - head)

Turned(t) == t >= Size

\* continue one past the first occupied cell of the window
Skip ==
    /\ out = "looking" /\ head + k <= Size
    /\ Window \cap occ # {}
    /\ head' = Least(Window \cap occ) + 1
    /\ tested' = Counted(head')
    /\ out' = IF Turned(tested') THEN "full" ELSE "looking"
    /\ Same

FindDone == out # "looking" /\ UNCHANGED findvars

FindNext == TooMany \/ Wrap \/ Take \/ Skip \/ FindDone

FindSpec == FindInit /\ [][FindNext]_findvars /\ WF_findvars(FindNext)

-----------------------------------------------------------------------------
\* A slot that is returned is the first free window at or after the head the
\* search began with, or the first of all if there is none: KVLayout!SlotAt.
FoundIsFirst ==
    out = "found" => Windows(occ, k) # {} /\ head = SlotAt(occ, start, k)

\* The search gives up only when no window is free anywhere, although it
\* counts tested cells and not windows, and leaves head where
\* KVLayout!HeadWhenFull says.
FullMeansFull ==
    out = "full" =>
       \/ k > Size /\ head = start
       \/ k <= Size /\ Windows(occ, k) = {} /\ head = HeadWhenFull(occ, start, k)

\* Whatever the search returns is what KVLayout says it finds.
SearchIsFirstFit == FoundIsFirst /\ FullMeansFull

\* The loop ends: a wrap, which tests nothing, cannot repeat for ever.
Terminates == <>(out # "looking")

=============================================================================
