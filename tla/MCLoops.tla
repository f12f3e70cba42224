------------------------------ MODULE MCLoops ------------------------------
(* The sequential algorithms, each alone and from every small input: a      *)
(* behaviour is one of the search for a slot, of a defragmentation, of the  *)
(* calls on a recurrent cache, of a speculative decoding, of decodes with   *)
(* their outputs, of the merges of a tokenizer or of sampling under a       *)
(* grammar, while the others have ended or never begin.                     *)
EXTENDS MCGrammar, FindSlotLoop, DefragLoop, Recurrent, Outputs

CONSTANTS NSeqs, NDraft, NPredict

VARIABLES recurrent,
          mode, at, produced, tgt, dft, rows_tgt, rows_dft, drafts, active_seqs, batch_tgt, batch_dft,
          n_past_tgt, n_past_dft, n_past_cur, n_seq_cur, i, s, i_dft, s_keep,
          vocab, word, symbols, work_queue

states == <<recurrent, rvars>>
drafting == <<mode, at, produced, tgt, dft, rows_tgt, rows_dft, drafts, active_seqs, batch_tgt, batch_dft,
              n_past_tgt, n_past_dft, n_past_cur, n_seq_cur, i, s, i_dft, s_keep>>
merging == <<vocab, word, symbols, work_queue>>
vars   == <<findvars, defragvars, states, drafting, ovars, merging, gvars>>

\* One sequence, several at once, some between that are not in the batch,
\* two tokens of one, and sequences that are too big.
E(tok, seqs) == [tok |-> tok, seqs |-> seqs]

MCBatches ==
    { <<E("a", <<0>>)>>, <<E("b", <<0, 1>>)>>, <<E("a", <<0>>), E("b", <<2>>)>>,
      <<E("b", <<1>>), E("a", <<2, 1>>)>>, <<E("a", <<1>>), E("b", <<0, 3>>)>> }

\* All, the front, and the back.
MCRanges == { <<-1, -1>>, <<0, 1>>, <<1, -1>> }

\* Branches without randomness; with it, one.
MCModes == {[stochastic |-> FALSE, n_seq_dft |-> NSeqs], [stochastic |-> TRUE, n_seq_dft |-> 1]}

\* Words of five characters; tokens of the SPM tokenizer, and merges of BPE.
MCTexts == {<<"a">> \o x : x \in [1 .. 4 -> Tokens]}

SpmTokens == {<<"a", "a">>, <<"a", "b">>, <<"b", "a">>, <<"a", "a", "b">>, <<"a", "b", "a">>}

BpePairs == { <<<<"a">>, <<"a">>>>, <<<<"a">>, <<"b">>>>, <<<<"a">>, <<"a", "b">>>>,
              <<<<"a", "a">>, <<"b">>>>, <<<<"a", "b">>, <<"a">>>> }

Halves(x) == {<<SubSeq(x, 1, n), SubSeq(x, n + 1, Len(x))>> : n \in 1 .. Len(x) - 1}

\* rank 0: not in the vocabulary
MCVocabs ==
    {[type |-> "spm", rank |-> [p \in UNION {Halves(x) : x \in {x \in SpmTokens : r[x] > 0}} |->
                                   r[p[1] \o p[2]]]] : r \in [SpmTokens -> 0 .. 2]}
      \cup {[type |-> "bpe", rank |-> [p \in {p \in BpePairs : r[p] > 0} |-> r[p]]] :
                r \in [BpePairs -> 0 .. 2]}

Draft  == INSTANCE Speculative WITH pc <- at, out <- produced, Vocab <- Tokens, Modes <- MCModes
Merged == INSTANCE Merges WITH text <- word, Texts <- MCTexts, Vocabs <- MCVocabs

FindEnded ==
    /\ occ = {} /\ k = 1 /\ start = 0 /\ head = 0 /\ tested = 0 /\ out = "found"

DefragEnded ==
    /\ before = LaidOut({}) /\ c = before /\ ids = <<>>
    /\ i0 = 0 /\ hole = 0 /\ nf = 0 /\ i1 = 0 /\ cont = FALSE
    /\ moves = 0 /\ copies = 0 /\ pc = "done"

NoStates == recurrent = FALSE /\ RInit

DraftEnded == mode = [stochastic |-> FALSE, n_seq_dft |-> 1] /\ at = "end" /\ Draft!Evaluated

OutputsEnded ==
    /\ logits_all = FALSE /\ batch = [n |-> 0, logits |-> <<>>] /\ round = 0 /\ decoded = "over"
    /\ cur_token = 0 /\ n_outputs_prev = 0 /\ n_outputs = 0 /\ output_ids = <<>>
    /\ out_rows = <<>> /\ saved = <<>>

MergesEnded ==
    vocab = [type |-> "spm", rank |-> <<>>] /\ word = <<>> /\ symbols = <<>> /\ work_queue = {}

GrammarEnded ==
    /\ rules = <<>> /\ stacks = {} /\ partial_utf8 = <<>> /\ text = <<>> /\ sentences = {}
    /\ status = "ended"

Init ==
    \/ /\ DraftEnded /\ OutputsEnded /\ MergesEnded /\ GrammarEnded
       /\ \/ FindInit /\ DefragEnded /\ NoStates
          \/ FindEnded /\ DefragInit /\ NoStates
          \/ FindEnded /\ DefragEnded /\ recurrent = TRUE /\ RInit
    \/ /\ FindEnded /\ DefragEnded /\ NoStates
       /\ \/ Draft!SpInit /\ OutputsEnded /\ MergesEnded /\ GrammarEnded
          \/ DraftEnded /\ OInit /\ MergesEnded /\ GrammarEnded
          \/ DraftEnded /\ OutputsEnded /\ Merged!MInit /\ GrammarEnded
          \/ DraftEnded /\ OutputsEnded /\ MergesEnded /\ GInit

FindStep    == FindNext /\ UNCHANGED <<defragvars, states, drafting, ovars, merging, gvars>>
DefragStep  == DefragNext /\ UNCHANGED <<findvars, states, drafting, ovars, merging, gvars>>
StateStep   == recurrent /\ RNext
                 /\ UNCHANGED <<findvars, defragvars, recurrent, drafting, ovars, merging, gvars>>
DraftStep   == Draft!SpNext /\ UNCHANGED <<findvars, defragvars, states, ovars, merging, gvars>>
OutputsStep == ONext /\ UNCHANGED <<findvars, defragvars, states, drafting, merging, gvars>>
MergesStep  == Merged!MNext /\ UNCHANGED <<findvars, defragvars, states, drafting, ovars, gvars>>
GrammarStep == GNext /\ UNCHANGED <<findvars, defragvars, states, drafting, ovars, merging>>

Next ==
    \/ FindStep \/ DefragStep \/ StateStep \/ DraftStep
    \/ OutputsStep \/ MergesStep \/ GrammarStep

Spec == Init /\ [][Next]_vars /\ WF_vars(FindStep)

\* Target and draft are sampled from what was computed on the text put out.
SamplesItsText == Draft!SamplesItsText

\* The pieces of a word are those of merging the best pair again and again.
MergesGreedily == Merged!MergesGreedily

\* Under a grammar exactly the tokens that continue to a sentence can be
\* sampled; and the grammars that are refused are those with left recursion.
FollowsGrammar == KeepsToSentences /\ RefusesLeftRecursion

=============================================================================
