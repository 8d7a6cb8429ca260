SPECIFICATION Spec
CONSTANTS
  Person = {1, 2, 3, 4}
  Group = {1, 2, 3, 4, 5}
  MaxYear = 2
  MaxRow = 6
  Slot = {0, 2}
  Trees <- MCTrees
INVARIANTS TypeOK PlacementIsSound
PROPERTIES RowsAreLeast LayoutEnds
CHECK_DEADLOCK FALSE
