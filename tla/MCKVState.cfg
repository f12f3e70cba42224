SPECIFICATION SSpec
VIEW SView
CONSTANTS
  Size = 3
  Seqs = {a, b}
  AnySeq = any
  Toks = {t}
  NoTok = none
  NUbatch = 1
  Pad = 1
  MaxMoves = 1
  FragMin = 3
  DefragThold <- Disabled
  MaxPos = 1
  MaxBatch = 1
  Starts = {1}
  Owners = {{a}}
  Bounds <- All
  Batches <- MCBatches
  Shifts <- Back
  Divisors = {}
  Settled = TRUE
  Cut = {"seq", "all"}
  MaxDelta = 1
INVARIANT CacheRestored
PROPERTIES RestoresAll RestoresSequence
CHECK_DEADLOCK FALSE
