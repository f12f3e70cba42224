------------------------------ MODULE Outputs ------------------------------
(***************************************************************************)
(* Which row of the output buffer belongs to which token: llama_decode     *)
(* numbers the outputs of a batch, computes it in ubatches whose graphs    *)
(* give a row for the tokens that are asked for, and puts the rows one     *)
(* behind the other; llama_state_get_data and llama_state_set_data carry   *)
(* them to a later time.  Pooled embeddings are not modelled; embeddings   *)
(* of tokens take the way of logits.                                       *)
(***************************************************************************)
EXTENDS Integers, Sequences, FiniteSets, FiniteSetsExt

CONSTANTS
    n_batch, n_ubatch,
    SavesAnyTime    \* whether the state is also saved after a decode that failed

ASSUME OutputsAssumption == n_batch \in Nat \ {0} /\ n_ubatch \in Nat \ {0}

VARIABLES
    logits_all,
    batch,          \* [n, logits]: its length, and batch.logits, <<>> for NULL
    round,          \* which of two batches, to tell rows apart
    decoded,        \* the status of the last llama_decode
    cur_token, n_outputs_prev,   \* its locals
    n_outputs,      \* lctx.n_outputs
    output_ids,     \* -1 for a token without output
    out_rows,       \* the token each row of the buffer was computed for
    saved           \* a state that was saved, or <<>>

ovars == <<logits_all, batch, round, decoded, cur_token, n_outputs_prev, n_outputs, output_ids,
           out_rows, saved>>

OutBatches == UNION {[n : {n}, logits : {<<>>} \cup [1 .. n -> BOOLEAN]] : n \in 1 .. n_batch}

Zero == <<0, -1>>

\* the tokens of a range, counted from 0, that are flagged
Flagged(b, from, to) == {i \in from .. to : b.logits[i + 1]}

\* a set of tokens, in their order
Ordered(S) == [k \in 1 .. Cardinality(S) |-> CHOOSE i \in S : Cardinality({j \in S : j < i}) = k - 1]

\* "count outputs"
Total(b) ==
    IF b.logits # <<>> THEN Cardinality(Flagged(b, 0, b.n - 1))
    ELSE IF logits_all THEN b.n ELSE 1

OInit ==
    /\ logits_all \in BOOLEAN
    /\ batch = [n |-> 1, logits |-> <<FALSE>>] /\ round = 0 /\ decoded = "ok"
    /\ cur_token = 0 /\ n_outputs_prev = 0 /\ n_outputs = 0
    /\ output_ids = [i \in 0 .. n_batch - 1 |-> -1]
    /\ out_rows = <<>> /\ saved = <<>>

\* "set output mappings"
Mapped(b) ==
    [i \in 0 .. n_batch - 1 |->
        IF b.logits # <<>>
        THEN IF i < b.n /\ b.logits[i + 1] THEN Cardinality(Flagged(b, 0, i - 1)) ELSE -1
        ELSE IF i < Total(b) THEN i ELSE -1]

\* llama_decode_internal up to its loop; llama_output_reserve clears the buffer
Begin(b) ==
    /\ decoded \in {"ok", "full"}
    /\ batch' = b /\ round' = 1 - round /\ decoded' = "busy"
    /\ out_rows' = [k \in 1 .. Total(b) |-> Zero]
    /\ output_ids' = Mapped(b)
    /\ n_outputs' = 0 /\ cur_token' = 0 /\ n_outputs_prev' = 0
    /\ UNCHANGED <<logits_all, saved>>

----------------------------------------------------------------------------
(* A ubatch.                                                               *)

UbatchEnd == Min({batch.n, cur_token + n_ubatch}) - 1

\* "count the outputs in this u_batch"
New ==
    IF batch.logits # <<>> THEN Cardinality(Flagged(batch, cur_token, UbatchEnd))
    ELSE IF Total(batch) = batch.n THEN UbatchEnd - cur_token + 1
    ELSE IF UbatchEnd = batch.n - 1 THEN 1 ELSE 0

\* inp_out_ids: the tokens whose rows the graph keeps
OutIds ==
    IF New = UbatchEnd - cur_token + 1 THEN [k \in 1 .. New |-> cur_token + k - 1]
    ELSE IF batch.logits # <<>> THEN Ordered(Flagged(batch, cur_token, UbatchEnd))
    ELSE [k \in 1 .. New |-> UbatchEnd]

\* mutation: the rows of each ubatch go to the front
AtFront == 0

Offset == n_outputs_prev

Ubatch ==
    /\ decoded = "busy" /\ cur_token < batch.n
    /\ n_outputs' = New
    /\ out_rows' = [k \in DOMAIN out_rows |->
                       IF k - Offset \in 1 .. New THEN <<round, OutIds[k - Offset]>> ELSE out_rows[k]]
    /\ n_outputs_prev' = n_outputs_prev + New
    /\ cur_token' = cur_token + n_ubatch
    /\ UNCHANGED <<logits_all, batch, round, decoded, output_ids, saved>>

\* llama_kv_cache_find_slot finds none; n_outputs is already that of the ubatch
NoSlot ==
    /\ decoded = "busy" /\ cur_token < batch.n
    /\ n_outputs' = New /\ decoded' = "full"
    /\ UNCHANGED <<logits_all, batch, round, cur_token, n_outputs_prev, output_ids, out_rows, saved>>

Decoded ==
    /\ decoded = "busy" /\ cur_token >= batch.n
    /\ n_outputs' = Total(batch) /\ decoded' = "ok"
    /\ UNCHANGED <<logits_all, batch, round, cur_token, n_outputs_prev, output_ids, out_rows, saved>>

----------------------------------------------------------------------------
(* The state is saved and restored.                                        *)

Ids == {i \in DOMAIN output_ids : output_ids[i] >= 0}

\* write_output_ids and write_logits; a row no token has is given to the first
Save ==
    /\ decoded = "ok" \/ (SavesAnyTime /\ decoded = "full")
    /\ IF \E i \in Ids : output_ids[i] >= n_outputs
       THEN decoded' = "abort" /\ UNCHANGED saved
       ELSE /\ saved' = << [pos   |-> [k \in 1 .. n_outputs |->
                                          CHOOSE i \in DOMAIN output_ids :
                                             \/ output_ids[i] = k - 1
                                             \/ i = 0 /\ \A x \in Ids : output_ids[x] # k - 1],
                            rows  |-> SubSeq(out_rows, 1, n_outputs),
                            batch |-> batch, round |-> round, status |-> decoded] >>
            /\ UNCHANGED decoded
    /\ UNCHANGED <<logits_all, batch, round, cur_token, n_outputs_prev, n_outputs, output_ids, out_rows>>

\* read_output_ids and read_logits
Restore ==
    /\ saved # <<>> /\ decoded \in {"ok", "full"}
    /\ LET s == saved[1]
       IN  /\ output_ids' = [i \in DOMAIN output_ids |->
                                Max({-1} \cup {k - 1 : k \in {k \in DOMAIN s.pos : s.pos[k] = i}})]
           /\ n_outputs' = Len(s.pos) /\ out_rows' = s.rows
           /\ batch' = s.batch /\ round' = s.round /\ decoded' = s.status
    /\ UNCHANGED <<logits_all, cur_token, n_outputs_prev, saved>>

ONext ==
    \/ \E b \in OutBatches : Begin(b)
    \/ Ubatch \/ NoSlot \/ Decoded \/ Save \/ Restore

OSpec == OInit /\ [][ONext]_ovars

----------------------------------------------------------------------------

Null == <<>>

\* llama_get_logits_ith
Get(i) ==
    LET j == IF i < 0 THEN n_outputs + i ELSE IF i \in DOMAIN output_ids THEN output_ids[i] ELSE -1
    IN  IF j < 0 \/ j >= n_outputs THEN Null ELSE out_rows[j + 1]

\* the tokens of a batch whose outputs are asked for, in their order
Asked(b) ==
    IF b.logits # <<>> THEN Ordered(Flagged(b, 0, b.n - 1))
    ELSE IF logits_all THEN [k \in 1 .. b.n |-> k - 1]
    ELSE <<b.n - 1>>

\* After a decode, or the restore of a state saved after one, token i has the
\* row computed for it, wherever the ubatches were cut, and a token that was
\* not asked for has none; without flags the last token is number 0.  From the
\* end, rows come in the order of the batch (include/llama.h:865).
RowsOfTokens ==
    decoded = "ok" =>
        /\ \A i \in 0 .. n_batch : Get(i) =
              IF batch.logits = <<>> /\ ~logits_all
              THEN IF i = 0 THEN <<round, batch.n - 1>> ELSE Null
              ELSE IF \E k \in DOMAIN Asked(batch) : Asked(batch)[k] = i THEN <<round, i>> ELSE Null
        /\ \A k \in 1 .. n_batch + 1 : Get(-k) =
              IF k <= Len(Asked(batch)) THEN <<round, Asked(batch)[Len(Asked(batch)) + 1 - k]>> ELSE Null

\* A state can be saved: the assertion of write_output_ids holds.
Saves == decoded # "abort"

\* Each token finds its own row, and the state can be saved.
GivesOwnRows == RowsOfTokens /\ Saves

=============================================================================
