SPECIFICATION MCSpec
CONSTANTS
  ann = ann
  bob = bob
  cid = cid
  old = old
  union = union
  Person <- MCPerson
  Value = {old, new}
  Label = {old}
  Key = {union}
  Start <- MCStart
  Editor = {ed}
  Draft = {d1, d2}
  Req = {r1, r2}
  Tx = {t1, t2}
  NoEditor = NoEditor
  NoDraft = NoDraft
  NoReq = NoReq
  MaxEdits = 3
  MaxLog = 3
INVARIANTS
  TypeOK
  OnePendingPerRequester
  PendingHasItsDraft
  DecidedDraftIsGone
  NoForeignMembers
PROPERTIES
  ImplementsLedger
  RevertRestoresApproved
SYMMETRY MCSymmetry
CHECK_DEADLOCK FALSE
