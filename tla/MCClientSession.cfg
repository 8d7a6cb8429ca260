SPECIFICATION Spec
CONSTANTS
  User = {ann}
  Super = {ann}
  Call = {c1, c2}
  NoUser = NoUser
  MaxTokens = 2
INVARIANTS TypeOK QueuedIsServed OneRefreshAtATime SignOutIsFinal
CHECK_DEADLOCK FALSE
PROPERTIES ImplementsCallLedger SpinnerEnds
