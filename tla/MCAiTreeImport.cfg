SPECIFICATION Spec
CONSTANTS
  Job = {j1, j2}
  NoJob = NoJob
  Request = {r1, r2}
  NoRequest = NoRequest
  MaxMounts = 2
INVARIANTS HookFollowsItsJob OneTreePerJob OutcomeIsKept
PROPERTY ImportEnds
CHECK_DEADLOCK FALSE
