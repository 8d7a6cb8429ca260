SPECIFICATION MCSpec
CONSTANTS
  Job = {j1, j2}
  Key <- MCKey
INVARIANT OwnEditsAreShown
PROPERTIES EditsReachTheCanvas HandlersEnd
