SPECIFICATION Spec
CONSTANTS
  ann = ann
  bob = bob
  cid = cid
  old = old
  union = union
  Person <- MCPerson
  Value = {old, new}
  Label = {old}
  Key = {union}
  Start <- MCStart
  Editor = {ed}
  Draft = {d1, d2}
  Req = {r1, r2}
  Tx = {t1, t2}
  NoEditor = NoEditor
  NoDraft = NoDraft
  NoReq = NoReq
  MaxEdits = 1
  MaxLog = 3
INVARIANT DeniedIsNotApplied
CHECK_DEADLOCK FALSE
