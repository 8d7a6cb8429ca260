SPECIFICATION Spec
CONSTANTS
  ann = ann
  bob = bob
  cid = cid
  old = old
  new = new
  union = union
  Person <- MCPerson
  Value = {old, new}
  Label = {old, new}
  Key = {union}
  Start <- MCStart
  Tx = {t1, t2}
  NoPerson = NoPerson
  NoKey = NoKey
  MaxLog = 3
INVARIANTS
  TypeOK
  UndoneOnce
  ClaimsAreSound
  DeletionsAreRecoverable
PROPERTIES
  ImplementsLedger
  RestoresSnapshot
CHECK_DEADLOCK FALSE
