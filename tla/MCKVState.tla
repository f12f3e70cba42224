----------------------------- MODULE MCKVState -----------------------------
(* Small instances of KVState: two sequences, a cache of three cells.      *)
EXTENDS KVState, MCKVCache

\* as View, with the snapshot
SView == <<View, snap, ended>>

=============================================================================
