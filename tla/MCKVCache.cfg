SPECIFICATION Spec
VIEW View
CONSTANTS
  Size = 3
  Seqs = {a, b}
  AnySeq = any
  Toks = {t}
  NoTok = none
  NUbatch = 2
  Pad = 2
  MaxMoves = 2
  FragMin = 2
  DefragThold = 40
  MaxPos = 2
  MaxBatch = 3
  Starts = {0}
  Owners = {{a}, {a, b}}
  Bounds <- MCBounds
  Batches <- MCBatches
  Shifts <- MCShifts
  Divisors = {2}
INVARIANTS TypeOK UsedExact RowsCoherent DefragHasPlan
PROPERTIES AttendsAll ImplementsStore
