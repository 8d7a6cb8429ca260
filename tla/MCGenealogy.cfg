SPECIFICATION MCSpec
CONSTANTS
  ann = ann
  bob = bob
  cid = cid
  dee = dee
  Person <- MCPerson
  Sex <- MCSex
  Fg = {g1, g2, g3}
  Tx = {t1, t2}
  NoPerson = NoPerson
  NoFg = NoFg
  MaxDepth = 3
  MaxCommits = 4
SYMMETRY MCSymmetry
INVARIANTS
  TypeOK
  OneRolePerGroup
  DeletedGroupsAreEmpty
PROPERTIES
  CleanCommitsKeepTwoParents
  CheckedLinksKeepAncestry
  OnlyAddParentDoublesOrigin
  RelinkLeavesNoOrphan
CHECK_DEADLOCK FALSE
