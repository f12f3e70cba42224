SPECIFICATION Spec
VIEW View
CONSTANTS
  x = x
  y = y
  NSlots = 2
  NCtx = 5
  NBatch = 3
  NUbatch = 3
  AddBos = 1
  Toks = {x, y}
  NoTok = none
  AnySeq = any
  Sampled = {x}
  NoPrompt = noprompt
  Uses <- UsesEither
INVARIANTS SeesItsText CachedIsStored PromptFits
PROPERTIES AlwaysRoom
