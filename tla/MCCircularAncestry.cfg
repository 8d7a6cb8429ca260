SPECIFICATION Spec
CONSTANTS
  ann = ann
  bob = bob
  cid = cid
  dee = dee
  Person <- MCPerson
  Sex <- MCSex
  Fg = {g1, g2, g3}
  Tx = {t1}
  NoPerson = NoPerson
  NoFg = NoFg
  MaxDepth = 3
  MaxCommits = 4
SYMMETRY MCSymmetry
INVARIANT NoCircularAncestry
CHECK_DEADLOCK FALSE
