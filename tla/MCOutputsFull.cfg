SPECIFICATION OSpec
CONSTANTS
  n_batch = 4
  n_ubatch = 2
  SavesAnyTime = TRUE
INVARIANT Saves
