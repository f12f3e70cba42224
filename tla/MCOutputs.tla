----------------------------- MODULE MCOutputs -----------------------------
(* Batches of up to four tokens, in ubatches of two.                        *)
EXTENDS Outputs

=============================================================================
