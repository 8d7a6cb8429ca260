SPECIFICATION Spec
CONSTANTS
  Person = {1, 2, 3}
  Group = {1, 2}
  MaxYear = 2
  MaxRow = 5
  Slot = {0}
  Trees <- TwoMarriages
INVARIANT RowsDoNotOverlap
CHECK_DEADLOCK FALSE
