SPECIFICATION AllSpec
CHECK_DEADLOCK FALSE
CONSTANTS
  Elems = {a, b, c}
  MaxLength = 4
  MaxOther = 2
  WideBits = 24
  NarrowBits = 16
  ws1 = ws1
  ws2 = ws2
  pad = pad
  m1 = m1
  m2 = m2
  app = app
  Windows = {w1, w2}
  NoWindow = none
  SpecialWorkspaces = {pad}
  NoWorkspace = none
INVARIANTS
  PulseAlternates
