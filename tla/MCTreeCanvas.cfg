SPECIFICATION MCSpec
CONSTANTS
  Persons = 5
  Groups = 4
  Links <- MCLinks
  Guest = {3, 4}
  ShownDepth = 1
  LaidDepth = 2
  WedgeDepth = 1
  LineDepth = 3
  NoGraph = NoGraph
INVARIANTS DrawnArePlaced DescendantsAreDrawn
PROPERTY OwnAddIsShown
