SPECIFICATION GSpec
CONSTANTS
  Grammars <- NullableGrammars
  Vocab <- MCVocab
  Alphabet <- MCAlphabet
  MaxBytes = 4
  MaxDepth = 8
INVARIANT RefusesLeftRecursion
