SPECIFICATION Spec
CONSTANTS
  Size = 8
  MaxMoves = 2
  NCells = 3
  Tokens = {"a", "b"}
  Batches <- MCBatches
  Ranges <- MCRanges
  AnyChain = FALSE
  MaxPos = 1
  NSeqs = 3
  NDraft = 3
  NPredict = 3
  n_batch = 4
  n_ubatch = 2
  SavesAnyTime = FALSE
  Grammars <- MCGrammars
  Vocab <- MCVocab
  Alphabet <- MCAlphabet
  MaxBytes = 4
  MaxDepth = 8
INVARIANTS SearchIsFirstFit DefragFollowsPlan StatesFollow SamplesItsText GivesOwnRows
    MergesGreedily FollowsGrammar
PROPERTIES Terminates
