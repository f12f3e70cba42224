CHECK_DEADLOCK FALSE
SPECIFICATION Spec
CONSTANTS
  n_threads = 2
  chunk_size = 2
  Cases <- AbortCases
PROPERTIES AbortEnds
