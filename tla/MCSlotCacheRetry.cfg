SPECIFICATION Spec
VIEW View
CONSTANTS
  x = x
  y = y
  NSlots = 2
  NCtx = 5
  NBatch = 4
  NUbatch = 2
  AddBos = 1
  Toks = {x, y}
  NoTok = none
  AnySeq = any
  Sampled = {x}
  NoPrompt = noprompt
  Uses <- UsesPlain
INVARIANT SeesItsText
